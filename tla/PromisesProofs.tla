--------------------------- MODULE PromisesProofs ---------------------------
(***************************************************************************)
(* Promises and the job queue, for any number of promises, resolving        *)
(* functions and operations: a promise is settled at most once, nothing     *)
(* that can settle it is lost, its outcome reaches its reactions, the host  *)
(* knows which rejections nobody handles, a promise that follows another    *)
(* ends like it, and reactions run once and in the order of the calls.      *)
(***************************************************************************)
EXTENDS Promises, SequenceLemmas

-----------------------------------------------------------------------------
(* The inductive invariant                                                  *)

FulfillKinds == {"Identity", "Resolve", "User"}
RejectKinds == {"Thrower", "Reject", "User"}

\* A value that is a promise is one of the c promises made.
GoodValues(c) == {v \in Values : v.type = "promise" => v.promise \in 1 .. c}

\* A reaction that then() made for p, with the functions its handler needs.
GoodReactions(p, kinds) ==
    {x \in Reactions : /\ x.id \in 1 .. Len(reg) /\ reg[x.id] = p
                       /\ x.handler.kind \in kinds
                       /\ x.cap \in 0 .. nr /\ x.handler.rec \in 0 .. nr
                       /\ x.handler.kind # "User" => x.cap # 0
                       /\ x.handler.kind \in {"Resolve", "Reject"} <=> x.handler.rec # 0}

\* A queued job carries the outcome of its promise to a handler of the right side, or
\* a value that a promise was resolved with.
Delivers(j, p) ==
    /\ j.argument = result[p]
    /\ \/ state[p] = "FulFilled" /\ j.reaction \in GoodReactions(p, FulfillKinds)
       \/ state[p] = "Rejected" /\ j.reaction \in GoodReactions(p, RejectKinds)
GoodJobs ==
    {j \in Job : \/ j.kind = "reaction" /\ \E p \in Created : Delivers(j, p)
                 \/ /\ j.kind = "thenable" /\ j.reaction = NoReaction
                    /\ j.promise \in Created /\ j.argument \in GoodValues(np)}

\* A frame has the functions it will call, and those of a getter have been called.
GoodFrames(c, recs, n) ==
    {f \in Frames : /\ f.rec \in 0 .. n /\ f.value \in GoodValues(c)
                    /\ f.kind \in {"executor", "then", "native", "getter"} => f.rec # 0
                    /\ f.kind \in {"executor", "then"} => recs[f.rec].exposed
                    /\ f.kind = "getter" => recs[f.rec].alreadyResolved
                    /\ f.kind \in {"prompt", "script"} => f.rec = 0}

\* Only the outermost frame is that of a script.
OneScript(s) == \A i \in 1 .. Len(s) : s[i].kind \in {"prompt", "script"} => i = Len(s)

\* What has not been made is as the initial state has it.
Fresh ==
    \A p \in Promises \ Created :
      state[p] = "Pending" /\ fulfillReactions[p] = << >> /\ rejectReactions[p] = << >>

\* The reactions of a pending promise.
Reacting ==
    \A p \in Promises :
      /\ fulfillReactions[p] \in Seq(GoodReactions(p, FulfillKinds))
      /\ rejectReactions[p] \in Seq(GoodReactions(p, RejectKinds))
      /\ Len(fulfillReactions[p]) = Len(rejectReactions[p])

\* A pending promise without reactions is one then() was never called for.
Unasked ==
    \A p \in Created : state[p] = "Pending" =>
      (rejectReactions[p] = << >> <=> \A i \in 1 .. Len(reg) : reg[i] # p)

\* The promises, with q for the job queue.
PromisePart(q) ==
    /\ \A p \in Promises : result[p] \in GoodValues(np)
    /\ \A i \in 1 .. Len(reg) : reg[i] \in Created
    /\ q \in Seq(GoodJobs)
    /\ Fresh /\ Reacting /\ Unasked /\ UnhandledExact

\* How many things can settle p.
UnusedOf(recs, n, p) == {r \in 1 .. n : recs[r].promise = p /\ ~ recs[r].alreadyResolved}
Adopting(p) == {j \in Job : j.kind = "thenable" /\ j.promise = p}
Fetching(recs, p) == {f \in Frames : f.kind = "getter" /\ recs[f.rec].promise = p}
Owners(recs, n, q, s, p) ==
    Cardinality(UnusedOf(recs, n, p)) + Cardinality(Positions(q, Adopting(p)))
      + Cardinality(Positions(s, Fetching(recs, p)))

\* The resolving functions and the stack, with p0 for a promise about to be settled.
ControlPart(recs, n, q, s, p0) ==
    /\ \A r \in 1 .. n : recs[r].promise \in Created
    /\ s \in Seq(GoodFrames(np, recs, n)) /\ OneScript(s)
    /\ \A p \in Created :
         Owners(recs, n, q, s, p) = IF state[p] = "Pending" /\ p # p0 THEN 1 ELSE 0

\* The functions that no script can call are held, but for r0 which is about to be used.
HeldAt(r, q, s) ==
    \/ \E p \in Created : \E i \in 1 .. Len(fulfillReactions[p]) :
         Holds(fulfillReactions[p][i], r) /\ Holds(rejectReactions[p][i], r)
    \/ \E i \in 1 .. Len(q) : Holds(q[i].reaction, r)
    \/ \E i \in 1 .. Len(s) : s[i].rec = r
HiddenPart(q, s, r0) ==
    \A r \in 1 .. nr :
      ~ records[r].exposed /\ ~ records[r].alreadyResolved /\ r # r0 => HeldAt(r, q, s)

Inv ==
    /\ TypeOK
    /\ PromisePart(jobs)
    /\ ControlPart(records, nr, jobs, stack, 0)
    /\ HiddenPart(jobs, stack, 0)
-----------------------------------------------------------------------------
(* Counting what can settle a promise                                       *)

RecordTable == [Records -> [promise : 0 .. MaxPromises, alreadyResolved : BOOLEAN,
                            exposed : BOOLEAN]]

\* There are finitely many unused pairs.
LEMMA UnusedFinite ==
  ASSUME NEW recs, NEW n \in Nat, NEW p
  PROVE  IsFiniteSet(UnusedOf(recs, n, p)) /\ Cardinality(UnusedOf(recs, n, p)) \in Nat
<1>1. UnusedOf(recs, n, p) \subseteq 1 .. n
  BY DEF UnusedOf
<1>2. IsFiniteSet(1 .. n)
  BY FS_Interval
<1>3. IsFiniteSet(UnusedOf(recs, n, p))
  BY <1>1, <1>2, FS_Subset
<1> QED
  BY <1>3, FS_CardinalityType

\* So are the numbers of all three.
LEMMA CountsTyped ==
  ASSUME NEW recs, NEW n \in Nat, NEW q \in Seq(Job), NEW s \in Seq(Frames), NEW p
  PROVE  /\ Cardinality(UnusedOf(recs, n, p)) \in Nat
         /\ Cardinality(Positions(q, Adopting(p))) \in Nat
         /\ Cardinality(Positions(s, Fetching(recs, p))) \in Nat
  BY UnusedFinite, PositionsFinite

\* A pair is used, or made.
UsedIn(recs, r) == [recs EXCEPT ![r].alreadyResolved = TRUE]
MadeIn(recs, r, p, exposed) == [recs EXCEPT ![r] = Record(p, exposed)]

\* Using a pair of functions takes it from its promise and from no other.
LEMMA PairUsed ==
  ASSUME NEW recs \in RecordTable, NEW n \in 0 .. MaxRecords, NEW r \in 1 .. n,
         ~ recs[r].alreadyResolved, NEW next, next = UsedIn(recs, r)
  PROVE  /\ next \in RecordTable
         /\ \A i \in Records : next[i].promise = recs[i].promise /\ next[i].exposed = recs[i].exposed
         /\ \A i \in Records : next[i].alreadyResolved <=> recs[i].alreadyResolved \/ i = r
         /\ \A p : Cardinality(UnusedOf(next, n, p)) =
              Cardinality(UnusedOf(recs, n, p)) - (IF p = recs[r].promise THEN 1 ELSE 0)
<1>1. r \in Records /\ 1 .. n \subseteq Records /\ n \in Nat
  BY PromisesAssumption DEF Records
<1>2. TRUE \in BOOLEAN
  BY Zenon
<1>3. next \in RecordTable
  BY <1>1, <1>2 DEF RecordTable, UsedIn, MadeIn
<1>4. \A i \in Records : next[i].promise = recs[i].promise /\ next[i].exposed = recs[i].exposed
  BY <1>1 DEF RecordTable, UsedIn, MadeIn
<1>5. \A i \in Records : next[i].alreadyResolved <=> recs[i].alreadyResolved \/ i = r
  BY <1>1 DEF RecordTable, UsedIn, MadeIn
<1>6. ASSUME NEW p
      PROVE  Cardinality(UnusedOf(next, n, p)) =
               Cardinality(UnusedOf(recs, n, p)) - (IF p = recs[r].promise THEN 1 ELSE 0)
  <2>1. IsFiniteSet(UnusedOf(recs, n, p)) /\ Cardinality(UnusedOf(recs, n, p)) \in Nat
    BY <1>1, UnusedFinite
  <2>2. CASE p = recs[r].promise
    <3>1. UnusedOf(next, n, p) = UnusedOf(recs, n, p) \ {r} /\ r \in UnusedOf(recs, n, p)
      BY <1>1, <1>4, <1>5, <2>2 DEF UnusedOf
    <3>2. Cardinality(UnusedOf(recs, n, p) \ {r}) = Cardinality(UnusedOf(recs, n, p)) - 1
      BY <2>1, <3>1, FS_RemoveElement
    <3> QED
      BY <2>2, <3>1, <3>2
  <2>3. CASE p # recs[r].promise
    <3>1. UnusedOf(next, n, p) = UnusedOf(recs, n, p)
      BY <1>1, <1>4, <1>5, <2>3 DEF UnusedOf
    <3> QED
      BY <2>1, <2>3, <3>1
  <2> QED
    BY <2>2, <2>3
<1> QED
  BY <1>3, <1>4, <1>5, <1>6

\* A new pair of functions belongs to its promise alone.
LEMMA PairMade ==
  ASSUME NEW recs \in RecordTable, NEW n \in 0 .. MaxRecords, n + 1 <= MaxRecords,
         NEW p0 \in 0 .. MaxPromises, NEW e \in BOOLEAN,
         NEW next, next = MadeIn(recs, n + 1, p0, e)
  PROVE  /\ next \in RecordTable
         /\ \A i \in 1 .. n : next[i] = recs[i]
         /\ next[n + 1] = Record(p0, e)
         /\ \A p : Cardinality(UnusedOf(next, n + 1, p)) =
              Cardinality(UnusedOf(recs, n, p)) + (IF p = p0 THEN 1 ELSE 0)
<1>1. n + 1 \in Records /\ 1 .. n \subseteq Records /\ n \in Nat /\ n + 1 \notin 1 .. n
  BY PromisesAssumption DEF Records
<1>2. Record(p0, e) \in [promise : 0 .. MaxPromises, alreadyResolved : BOOLEAN, exposed : BOOLEAN]
  <2>1. FALSE \in BOOLEAN
    BY Zenon
  <2> QED
    BY <2>1 DEF Record
<1>3. next \in RecordTable
  BY <1>1, <1>2 DEF RecordTable, UsedIn, MadeIn
<1>4. \A i \in 1 .. n : next[i] = recs[i]
  BY <1>1 DEF RecordTable, UsedIn, MadeIn
<1>5. next[n + 1] = Record(p0, e)
  BY <1>1 DEF RecordTable, UsedIn, MadeIn
<1>6. ASSUME NEW p
      PROVE  Cardinality(UnusedOf(next, n + 1, p)) =
               Cardinality(UnusedOf(recs, n, p)) + (IF p = p0 THEN 1 ELSE 0)
  <2>1. IsFiniteSet(UnusedOf(recs, n, p)) /\ Cardinality(UnusedOf(recs, n, p)) \in Nat
    BY <1>1, UnusedFinite
  <2>2. \A i \in 1 .. (n + 1) : i \in 1 .. n \/ i = n + 1
    BY <1>1
  <2>3. next[n + 1].promise = p0 /\ ~ next[n + 1].alreadyResolved
    BY <1>5 DEF Record
  <2>4. CASE p = p0
    <3>1. UnusedOf(next, n + 1, p) = UnusedOf(recs, n, p) \cup {n + 1}
      BY <1>1, <1>4, <2>2, <2>3, <2>4 DEF UnusedOf
    <3>2. n + 1 \notin UnusedOf(recs, n, p)
      BY <1>1 DEF UnusedOf
    <3> QED
      BY <2>1, <2>4, <3>1, <3>2, FS_AddElement
  <2>5. CASE p # p0
    <3>1. UnusedOf(next, n + 1, p) = UnusedOf(recs, n, p)
      BY <1>1, <1>4, <2>2, <2>3, <2>5 DEF UnusedOf
    <3> QED
      BY <2>1, <2>5, <3>1
  <2> QED
    BY <2>4, <2>5
<1> QED
  BY <1>3, <1>4, <1>5, <1>6

\* A frame is pushed.
LEMMA FramePushed ==
  ASSUME NEW recs, NEW s \in Seq(Frames), NEW f \in Frames
  PROVE  \A p : Cardinality(Positions(<<f>> \o s, Fetching(recs, p))) =
                  Cardinality(Positions(s, Fetching(recs, p)))
                    + (IF f.kind = "getter" /\ recs[f.rec].promise = p THEN 1 ELSE 0)
<1> SUFFICES ASSUME NEW p
             PROVE  Cardinality(Positions(<<f>> \o s, Fetching(recs, p))) =
                      Cardinality(Positions(s, Fetching(recs, p)))
                        + (IF f.kind = "getter" /\ recs[f.rec].promise = p THEN 1 ELSE 0)
  OBVIOUS
<1>1. f \in Fetching(recs, p) <=> f.kind = "getter" /\ recs[f.rec].promise = p
  BY DEF Fetching
<1>2. Cardinality(Positions(s, Fetching(recs, p))) \in Nat
  BY PositionsFinite
<1> QED
  BY <1>1, <1>2, CountCons

\* A frame is popped.
LEMMA FramePopped ==
  ASSUME NEW recs, NEW s \in Seq(Frames), s # << >>
  PROVE  \A p : Cardinality(Positions(Tail(s), Fetching(recs, p))) =
                  Cardinality(Positions(s, Fetching(recs, p)))
                    - (IF Head(s).kind = "getter" /\ recs[Head(s).rec].promise = p THEN 1 ELSE 0)
<1> SUFFICES ASSUME NEW p
             PROVE  Cardinality(Positions(Tail(s), Fetching(recs, p))) =
                      Cardinality(Positions(s, Fetching(recs, p)))
                        - (IF Head(s).kind = "getter" /\ recs[Head(s).rec].promise = p THEN 1 ELSE 0)
  OBVIOUS
<1>1. Head(s) \in Frames
  OBVIOUS
<1>2. Head(s) \in Fetching(recs, p) <=> Head(s).kind = "getter" /\ recs[Head(s).rec].promise = p
  BY <1>1 DEF Fetching
<1>3. Cardinality(Positions(s, Fetching(recs, p))) \in Nat
  BY PositionsFinite
<1> QED
  BY <1>2, <1>3, CountTail

\* A job is queued at the end.
LEMMA JobQueued ==
  ASSUME NEW q \in Seq(Job), NEW j \in Job
  PROVE  \A p : Cardinality(Positions(Append(q, j), Adopting(p))) =
                  Cardinality(Positions(q, Adopting(p)))
                    + (IF j.kind = "thenable" /\ j.promise = p THEN 1 ELSE 0)
<1> SUFFICES ASSUME NEW p
             PROVE  Cardinality(Positions(Append(q, j), Adopting(p))) =
                      Cardinality(Positions(q, Adopting(p)))
                        + (IF j.kind = "thenable" /\ j.promise = p THEN 1 ELSE 0)
  OBVIOUS
<1>1. j \in Adopting(p) <=> j.kind = "thenable" /\ j.promise = p
  BY DEF Adopting
<1>2. Cardinality(Positions(q, Adopting(p))) \in Nat
  BY PositionsFinite
<1> QED
  BY <1>1, <1>2, CountAppend

\* The first job is taken.
LEMMA JobTaken ==
  ASSUME NEW q \in Seq(Job), q # << >>
  PROVE  \A p : Cardinality(Positions(Tail(q), Adopting(p))) =
                  Cardinality(Positions(q, Adopting(p)))
                    - (IF Head(q).kind = "thenable" /\ Head(q).promise = p THEN 1 ELSE 0)
<1> SUFFICES ASSUME NEW p
             PROVE  Cardinality(Positions(Tail(q), Adopting(p))) =
                      Cardinality(Positions(q, Adopting(p)))
                        - (IF Head(q).kind = "thenable" /\ Head(q).promise = p THEN 1 ELSE 0)
  OBVIOUS
<1>1. Head(q) \in Job
  OBVIOUS
<1>2. Head(q) \in Adopting(p) <=> Head(q).kind = "thenable" /\ Head(q).promise = p
  BY <1>1 DEF Adopting
<1>3. Cardinality(Positions(q, Adopting(p))) \in Nat
  BY PositionsFinite
<1> QED
  BY <1>2, <1>3, CountTail

\* The jobs of reactions settle nothing by themselves.
LEMMA ReactionsQueued ==
  ASSUME NEW q \in Seq(Job), NEW t \in Seq(Job), \A i \in 1 .. Len(t) : t[i].kind = "reaction"
  PROVE  \A p : Positions(q \o t, Adopting(p)) = Positions(q, Adopting(p))
<1> SUFFICES ASSUME NEW p PROVE Positions(q \o t, Adopting(p)) = Positions(q, Adopting(p))
  OBVIOUS
<1>1. \A i \in 1 .. Len(t) : t[i] \notin Adopting(p)
  BY DEF Adopting
<1> QED
  BY <1>1, CountConcat

-----------------------------------------------------------------------------
(* What stays good                                                          *)

\* A longer sequence of a larger set.
LEMMA SeqSubset ==
  ASSUME NEW S, NEW T, S \subseteq T, NEW s \in Seq(S)
  PROVE  s \in Seq(T)
  OBVIOUS

\* A step makes things and settles pending promises; it takes nothing back.
Grows ==
    /\ np <= np' /\ nr <= nr' /\ Len(reg) <= Len(reg')
    /\ \A i \in 1 .. Len(reg) : reg'[i] = reg[i]
    /\ \A p \in Promises : state[p] # "Pending" => state'[p] = state[p] /\ result'[p] = result[p]

\* More promises, more values.
LEMMA ValuesKept ==
  ASSUME NEW c \in Nat, NEW d \in Nat, c <= d
  PROVE  GoodValues(c) \subseteq GoodValues(d)
  BY DEF GoodValues, Values

\* Frames stay good when pairs are made or used.
LEMMA FramesKept ==
  ASSUME NEW c \in Nat, NEW d \in Nat, c <= d, NEW n \in Nat, NEW m \in Nat, n <= m,
         NEW recs, NEW next,
         \A i \in 1 .. n : next[i].exposed = recs[i].exposed,
         \A i \in 1 .. n : recs[i].alreadyResolved => next[i].alreadyResolved
  PROVE  GoodFrames(c, recs, n) \subseteq GoodFrames(d, next, m)
<1> SUFFICES ASSUME NEW f \in GoodFrames(c, recs, n) PROVE f \in GoodFrames(d, next, m)
  OBVIOUS
<1>1. f \in Frames /\ f.rec \in 0 .. n /\ f.value \in GoodValues(c)
  BY DEF GoodFrames
<1>2. f.rec \in 0 .. m /\ f.value \in GoodValues(d) /\ (f.rec # 0 => f.rec \in 1 .. n)
  BY <1>1, ValuesKept
<1> QED
  BY <1>1, <1>2 DEF GoodFrames

\* Reactions and jobs stay good.
LEMMA GoodKept ==
  ASSUME TypeOK, np' \in Nat, nr' \in Nat, Len(reg') \in Nat, Grows
  PROVE  /\ GoodValues(np) \subseteq GoodValues(np')
         /\ \A p, kinds : GoodReactions(p, kinds) \subseteq GoodReactions(p, kinds)'
         /\ GoodJobs \subseteq GoodJobs'
<1>1. /\ np \in Nat /\ np' \in Nat /\ np <= np' /\ nr \in Nat /\ nr' \in Nat /\ nr <= nr'
      /\ Len(reg) \in Nat /\ Len(reg') \in Nat /\ Len(reg) <= Len(reg')
      /\ np <= MaxPromises
  BY PromisesAssumption DEF TypeOK, Grows
<1>2. GoodValues(np) \subseteq GoodValues(np')
  BY <1>1, ValuesKept
<1>3. ASSUME NEW p, NEW kinds, NEW x \in GoodReactions(p, kinds)
      PROVE  x \in GoodReactions(p, kinds)'
  <2>1. /\ x \in Reactions /\ x.id \in 1 .. Len(reg) /\ reg[x.id] = p
        /\ x.handler.kind \in kinds
        /\ x.cap \in 0 .. nr /\ x.handler.rec \in 0 .. nr
        /\ x.handler.kind # "User" => x.cap # 0
        /\ x.handler.kind \in {"Resolve", "Reject"} <=> x.handler.rec # 0
    BY <1>3 DEF GoodReactions
  <2>2. x.id \in 1 .. Len(reg') /\ x.cap \in 0 .. nr' /\ x.handler.rec \in 0 .. nr' /\ reg'[x.id] = p
    BY <1>1, <2>1, SMTT(30) DEF Grows
  <2> QED
    BY <2>1, <2>2 DEF GoodReactions
<1>4. ASSUME NEW j \in GoodJobs PROVE j \in GoodJobs'
  <2>1. Created \subseteq Created' /\ Created \subseteq Promises
    BY <1>1, PromisesAssumption DEF Created, Promises
  <2>2. CASE j.kind = "reaction"
    <3>1. j \in Job /\ \E p \in Created : Delivers(j, p)
      BY <2>2 DEF GoodJobs
    <3>2. PICK p \in Created : Delivers(j, p)
      BY <3>1
    <3>3. state[p] # "Pending" /\ p \in Promises
      BY <2>1, <3>2 DEF Delivers
    <3>4. state'[p] = state[p] /\ result'[p] = result[p]
      BY <3>3 DEF Grows
    <3>5. Delivers(j, p)'
      BY <1>3, <3>2, <3>4 DEF Delivers
    <3> QED
      BY <2>1, <2>2, <3>1, <3>2, <3>5 DEF GoodJobs
  <2>3. CASE j.kind # "reaction"
    BY <1>2, <2>1, <2>3 DEF GoodJobs
  <2> QED
    BY <2>2, <2>3
<1> QED
  BY <1>2, <1>3, <1>4

-----------------------------------------------------------------------------
(* The resolving functions and the stack                                    *)

\* The numbers behind the names.
LEMMA Bounds ==
  TypeOK =>
    /\ np \in Nat /\ nr \in Nat /\ np <= MaxPromises /\ nr <= MaxRecords /\ nr \in 0 .. MaxRecords
    /\ MaxPromises \in Nat /\ MaxRecords \in Nat /\ Len(reg) \in Nat
    /\ Created \subseteq Promises /\ 1 .. nr \subseteq Records /\ records \in RecordTable
    /\ jobs \in Seq(Job) /\ stack \in Seq(Frames)
  BY PromisesAssumption DEF TypeOK, Created, Promises, Records, RecordTable

\* What the parts of ControlPart say of single frames.
LEMMA ControlFacts ==
  ASSUME NEW recs, NEW n \in Nat, NEW q \in Seq(Job), NEW s, NEW p0, ControlPart(recs, n, q, s, p0)
  PROVE  /\ s \in Seq(Frames)
         /\ \A i \in 1 .. Len(s) : s[i] \in GoodFrames(np, recs, n)
         /\ \A i \in 1 .. Len(s) : s[i].kind = "getter" =>
              s[i].rec \in 1 .. n /\ recs[s[i].rec].promise \in Created
         /\ \A p : /\ Cardinality(UnusedOf(recs, n, p)) \in Nat
                   /\ Cardinality(Positions(q, Adopting(p))) \in Nat
                   /\ Cardinality(Positions(s, Fetching(recs, p))) \in Nat
<1>1. s \in Seq(GoodFrames(np, recs, n)) /\ \A r \in 1 .. n : recs[r].promise \in Created
  BY DEF ControlPart
<1>2. GoodFrames(np, recs, n) \subseteq Frames
  BY DEF GoodFrames
<1>3. s \in Seq(Frames)
  BY <1>1, <1>2, SeqSubset
<1>4. \A i \in 1 .. Len(s) : s[i] \in GoodFrames(np, recs, n)
  BY <1>1
<1>5. \A i \in 1 .. Len(s) : s[i].kind = "getter" => s[i].rec \in 1 .. n
  BY <1>4 DEF GoodFrames
<1> QED
  BY <1>1, <1>3, <1>4, <1>5, CountsTyped

\* An unused pair belongs to a pending promise; using it leaves that promise to be
\* settled.
LEMMA TakePair ==
  ASSUME NEW recs \in RecordTable, NEW n \in 0 .. MaxRecords, NEW q \in Seq(Job), NEW s,
         ControlPart(recs, n, q, s, 0), 0 \notin Created, NEW r \in 1 .. n, ~ recs[r].alreadyResolved,
         NEW next, next = UsedIn(recs, r),
         NEW p0, p0 = recs[r].promise
  PROVE  ControlPart(next, n, q, s, p0) /\ p0 \in Created /\ state[p0] = "Pending"
<1>1. n \in Nat /\ 1 .. n \subseteq Records /\ Created \in SUBSET Int
  BY PromisesAssumption DEF Records, Created
<1>2. /\ next \in RecordTable
      /\ \A i \in Records : next[i].promise = recs[i].promise /\ next[i].exposed = recs[i].exposed
      /\ \A i \in Records : next[i].alreadyResolved <=> recs[i].alreadyResolved \/ i = r
      /\ \A p : Cardinality(UnusedOf(next, n, p)) =
           Cardinality(UnusedOf(recs, n, p)) - (IF p = p0 THEN 1 ELSE 0)
  BY PairUsed
<1>3. \A i \in 1 .. n : next[i].promise = recs[i].promise
  BY <1>1, <1>2
<1>4. \A p : Cardinality(UnusedOf(next, n, p)) =
        Cardinality(UnusedOf(recs, n, p)) - (IF p = p0 THEN 1 ELSE 0)
  BY <1>2
<1>5. p0 \in Created
  BY DEF ControlPart
<1>6. /\ s \in Seq(Frames)
      /\ \A i \in 1 .. Len(s) : s[i].kind = "getter" => s[i].rec \in 1 .. n
      /\ \A p : /\ Cardinality(UnusedOf(recs, n, p)) \in Nat
                /\ Cardinality(Positions(q, Adopting(p))) \in Nat
                /\ Cardinality(Positions(s, Fetching(recs, p))) \in Nat
  BY <1>1, ControlFacts
<1>7. \A p : Positions(s, Fetching(next, p)) = Positions(s, Fetching(recs, p))
  <2>1. /\ n \in Nat /\ s \in Seq(Frames)
        /\ \A i \in 1 .. Len(s) : s[i].kind = "getter" => s[i].rec \in 1 .. n
    BY <1>1, <1>6
  <2> SUFFICES ASSUME NEW p, NEW i \in 1 .. Len(s)
               PROVE  s[i] \in Fetching(next, p) <=> s[i] \in Fetching(recs, p)
    BY DEF Positions
  <2> QED
    BY <1>3, <2>1 DEF Fetching
<1>8. \A p : Owners(next, n, q, s, p) = Owners(recs, n, q, s, p) - (IF p = p0 THEN 1 ELSE 0)
  BY <1>4, <1>6, <1>7 DEF Owners
<1>9. \A p : Cardinality(UnusedOf(next, n, p)) \in Nat
  BY <1>1, UnusedFinite
<1>10. Owners(recs, n, q, s, p0) >= 1
  BY <1>4, <1>6, <1>9 DEF Owners
<1>11. \A p \in Created : Owners(recs, n, q, s, p) = IF state[p] = "Pending" THEN 1 ELSE 0
  BY DEF ControlPart
<1>12. state[p0] = "Pending"
  BY <1>5, <1>10, <1>11
<1>13. \A p \in Created :
         Owners(next, n, q, s, p) = IF state[p] = "Pending" /\ p # p0 THEN 1 ELSE 0
  BY <1>8, <1>11, <1>12
<1>14. s \in Seq(GoodFrames(np, next, n))
  <2>1. GoodFrames(np, recs, n) \subseteq GoodFrames(np, next, n)
    <3>1. ASSUME NEW f \in GoodFrames(np, recs, n) PROVE f \in GoodFrames(np, next, n)
      <4>1. f.rec # 0 => f.rec \in Records
        BY <1>1 DEF GoodFrames
      <4> QED
        BY <1>1, <1>2, <4>1 DEF GoodFrames
    <3> QED
      BY <3>1
  <2> QED
    BY <2>1, SeqSubset DEF ControlPart
<1> QED
  BY <1>1, <1>2, <1>5, <1>12, <1>13, <1>14 DEF ControlPart

\* A getter that ends leaves the promise it was asked for to be settled.
LEMMA PopGetter ==
  ASSUME NEW recs, NEW n \in Nat, NEW q \in Seq(Job), NEW s, s # << >>,
         ControlPart(recs, n, q, s, 0), 0 \notin Created,
         Head(s).kind = "getter", NEW p0, p0 = recs[Head(s).rec].promise
  PROVE  ControlPart(recs, n, q, Tail(s), p0) /\ p0 \in Created /\ state[p0] = "Pending"
<1>1. /\ s \in Seq(Frames)
      /\ \A i \in 1 .. Len(s) : s[i].kind = "getter" =>
           s[i].rec \in 1 .. n /\ recs[s[i].rec].promise \in Created
      /\ \A p : /\ Cardinality(UnusedOf(recs, n, p)) \in Nat
                /\ Cardinality(Positions(q, Adopting(p))) \in Nat
                /\ Cardinality(Positions(s, Fetching(recs, p))) \in Nat
  BY ControlFacts
<1>2. Len(s) \in Nat /\ Len(s) >= 1 /\ Head(s) = s[1] /\ Tail(s) \in Seq(Frames)
  BY <1>1
<1>3. p0 \in Created
  BY <1>1, <1>2
<1>4. \A p : Cardinality(Positions(Tail(s), Fetching(recs, p))) =
               Cardinality(Positions(s, Fetching(recs, p))) - (IF p0 = p THEN 1 ELSE 0)
  BY <1>1, FramePopped
<1>5. \A p : Cardinality(Positions(Tail(s), Fetching(recs, p))) \in Nat
  BY <1>2, PositionsFinite
<1>6. \A p : Owners(recs, n, q, Tail(s), p) = Owners(recs, n, q, s, p) - (IF p0 = p THEN 1 ELSE 0)
  BY <1>1, <1>4 DEF Owners
<1>7. Owners(recs, n, q, s, p0) >= 1
  BY <1>1, <1>4, <1>5 DEF Owners
<1>8. \A p \in Created : Owners(recs, n, q, s, p) = IF state[p] = "Pending" THEN 1 ELSE 0
  BY DEF ControlPart
<1>9. state[p0] = "Pending"
  BY <1>3, <1>7, <1>8
<1>10. \A p \in Created :
         Owners(recs, n, q, Tail(s), p) = IF state[p] = "Pending" /\ p # p0 THEN 1 ELSE 0
  BY <1>6, <1>8, <1>9
<1>11. Tail(s) \in Seq(GoodFrames(np, recs, n)) /\ OneScript(Tail(s))
  BY <1>2 DEF ControlPart, OneScript
<1> QED
  BY <1>3, <1>9, <1>10, <1>11 DEF ControlPart

\* Another frame that ends settles nothing.
LEMMA PopFrame ==
  ASSUME NEW recs, NEW n \in Nat, NEW q \in Seq(Job), NEW s, s # << >>, NEW p0,
         ControlPart(recs, n, q, s, p0), Head(s).kind # "getter"
  PROVE  ControlPart(recs, n, q, Tail(s), p0)
<1>1. /\ s \in Seq(Frames)
      /\ \A p : /\ Cardinality(UnusedOf(recs, n, p)) \in Nat
                /\ Cardinality(Positions(q, Adopting(p))) \in Nat
                /\ Cardinality(Positions(s, Fetching(recs, p))) \in Nat
  BY ControlFacts
<1>2. Len(s) \in Nat /\ Len(s) >= 1 /\ Head(s) = s[1] /\ Tail(s) \in Seq(Frames)
  BY <1>1
<1>3. \A p : Cardinality(Positions(Tail(s), Fetching(recs, p))) =
               Cardinality(Positions(s, Fetching(recs, p)))
  <2>1. \A p : Cardinality(Positions(Tail(s), Fetching(recs, p))) =
                 Cardinality(Positions(s, Fetching(recs, p)))
                   - (IF Head(s).kind = "getter" /\ recs[Head(s).rec].promise = p THEN 1 ELSE 0)
    BY <1>1, FramePopped
  <2> SUFFICES ASSUME NEW p
               PROVE  Cardinality(Positions(Tail(s), Fetching(recs, p))) =
                        Cardinality(Positions(s, Fetching(recs, p)))
    OBVIOUS
  <2>2. Cardinality(Positions(Tail(s), Fetching(recs, p))) =
          Cardinality(Positions(s, Fetching(recs, p))) - 0
    BY <2>1
  <2>3. Cardinality(Positions(s, Fetching(recs, p))) \in Nat
    BY <1>1
  <2> QED
    BY <2>2, <2>3
<1>4. \A p : Owners(recs, n, q, Tail(s), p) = Owners(recs, n, q, s, p)
  BY <1>3 DEF Owners
<1>5. Tail(s) \in Seq(GoodFrames(np, recs, n)) /\ OneScript(Tail(s))
  BY <1>2 DEF ControlPart, OneScript
<1> QED
  BY <1>4, <1>5 DEF ControlPart

\* The script stays outermost.
LEMMA PushOneScript ==
  ASSUME NEW s \in Seq(Frames), OneScript(s), NEW f \in Frames, f.kind \notin {"prompt", "script"}
  PROVE  OneScript(<<f>> \o s)
<1>1. Len(s) \in Nat /\ Len(<<f>> \o s) = Len(s) + 1
  OBVIOUS
<1>2. \A i \in 1 .. Len(s) + 1 : (<<f>> \o s)[i] = IF i = 1 THEN f ELSE s[i - 1]
  OBVIOUS
<1> QED
  BY <1>1, <1>2 DEF OneScript

\* So does a new one, unless it is that of a getter.
LEMMA PushFrame ==
  ASSUME NEW recs, NEW n \in Nat, NEW q \in Seq(Job), NEW s, NEW p0,
         ControlPart(recs, n, q, s, p0), NEW f \in GoodFrames(np, recs, n),
         f.kind \notin {"getter", "prompt", "script"}
  PROVE  ControlPart(recs, n, q, <<f>> \o s, p0)
<1>1. /\ s \in Seq(Frames) /\ f \in Frames
      /\ \A p : /\ Cardinality(UnusedOf(recs, n, p)) \in Nat
                /\ Cardinality(Positions(q, Adopting(p))) \in Nat
                /\ Cardinality(Positions(s, Fetching(recs, p))) \in Nat
  BY ControlFacts DEF GoodFrames
<1>2. \A p : Cardinality(Positions(<<f>> \o s, Fetching(recs, p))) =
               Cardinality(Positions(s, Fetching(recs, p)))
  <2>1. \A p : Cardinality(Positions(<<f>> \o s, Fetching(recs, p))) =
                 Cardinality(Positions(s, Fetching(recs, p)))
                   + (IF f.kind = "getter" /\ recs[f.rec].promise = p THEN 1 ELSE 0)
    BY <1>1, FramePushed
  <2> QED
    BY <1>1, <2>1
<1>3. \A p : Owners(recs, n, q, <<f>> \o s, p) = Owners(recs, n, q, s, p)
  BY <1>2 DEF Owners
<1>4. <<f>> \o s \in Seq(GoodFrames(np, recs, n))
  BY DEF ControlPart
<1>5. OneScript(<<f>> \o s)
  BY <1>1, PushOneScript DEF ControlPart
<1> QED
  BY <1>3, <1>4, <1>5 DEF ControlPart

\* The getter that promiseResolveFunctions calls will settle the promise.
LEMMA PushGetter ==
  ASSUME NEW recs, NEW n \in Nat, NEW q \in Seq(Job), NEW s, NEW p0,
         ControlPart(recs, n, q, s, p0), NEW f \in GoodFrames(np, recs, n),
         f.kind = "getter", recs[f.rec].promise = p0, state[p0] = "Pending", 0 \notin Created
  PROVE  ControlPart(recs, n, q, <<f>> \o s, 0)
<1>1. /\ s \in Seq(Frames) /\ f \in Frames
      /\ \A p : /\ Cardinality(UnusedOf(recs, n, p)) \in Nat
                /\ Cardinality(Positions(q, Adopting(p))) \in Nat
                /\ Cardinality(Positions(s, Fetching(recs, p))) \in Nat
  BY ControlFacts DEF GoodFrames
<1>2. \A p : Cardinality(Positions(<<f>> \o s, Fetching(recs, p))) =
               Cardinality(Positions(s, Fetching(recs, p))) + (IF p0 = p THEN 1 ELSE 0)
  <2>1. \A p : Cardinality(Positions(<<f>> \o s, Fetching(recs, p))) =
                 Cardinality(Positions(s, Fetching(recs, p)))
                   + (IF f.kind = "getter" /\ recs[f.rec].promise = p THEN 1 ELSE 0)
    BY <1>1, FramePushed
  <2> QED
    BY <2>1
<1>3. \A p : Owners(recs, n, q, <<f>> \o s, p)
              = Owners(recs, n, q, s, p) + (IF p0 = p THEN 1 ELSE 0)
  <2> SUFFICES ASSUME NEW p
               PROVE  Owners(recs, n, q, <<f>> \o s, p)
                        = Owners(recs, n, q, s, p) + (IF p0 = p THEN 1 ELSE 0)
    OBVIOUS
  <2>1. /\ Cardinality(UnusedOf(recs, n, p)) \in Nat
        /\ Cardinality(Positions(q, Adopting(p))) \in Nat
        /\ Cardinality(Positions(s, Fetching(recs, p))) \in Nat
    BY <1>1
  <2>2. Cardinality(Positions(<<f>> \o s, Fetching(recs, p))) =
          Cardinality(Positions(s, Fetching(recs, p))) + (IF p0 = p THEN 1 ELSE 0)
    BY <1>2
  <2> QED
    BY <2>1, <2>2 DEF Owners
<1>4. <<f>> \o s \in Seq(GoodFrames(np, recs, n))
  BY DEF ControlPart
<1>5. OneScript(<<f>> \o s)
  BY <1>1, PushOneScript DEF ControlPart
<1> QED
  BY <1>3, <1>4, <1>5 DEF ControlPart

\* Taking a reaction job settles nothing,
LEMMA TakeReaction ==
  ASSUME NEW recs, NEW n \in Nat, NEW q \in Seq(Job), q # << >>, NEW s, NEW p0,
         ControlPart(recs, n, q, s, p0), Head(q).kind = "reaction"
  PROVE  ControlPart(recs, n, Tail(q), s, p0)
<1>1. \A p : Cardinality(Positions(q, Adopting(p))) \in Nat
  BY ControlFacts
<1>2. \A p : Cardinality(Positions(Tail(q), Adopting(p))) = Cardinality(Positions(q, Adopting(p)))
  BY <1>1, JobTaken
<1> QED
  BY <1>2 DEF ControlPart, Owners

\* taking a thenable job leaves its promise to be settled,
LEMMA TakeThenable ==
  ASSUME NEW recs, NEW n \in Nat, NEW q \in Seq(Job), q # << >>, NEW s,
         ControlPart(recs, n, q, s, 0), 0 \notin Created,
         Head(q).kind = "thenable", NEW p0 \in Created, p0 = Head(q).promise
  PROVE  ControlPart(recs, n, Tail(q), s, p0) /\ state[p0] = "Pending"
<1>1. \A p : /\ Cardinality(UnusedOf(recs, n, p)) \in Nat
             /\ Cardinality(Positions(q, Adopting(p))) \in Nat
             /\ Cardinality(Positions(s, Fetching(recs, p))) \in Nat
  BY ControlFacts
<1>2. \A p : Cardinality(Positions(Tail(q), Adopting(p))) =
               Cardinality(Positions(q, Adopting(p))) - (IF p0 = p THEN 1 ELSE 0)
  BY JobTaken
<1>3. \A p : Cardinality(Positions(Tail(q), Adopting(p))) \in Nat
  <2>1. Tail(q) \in Seq(Job)
    OBVIOUS
  <2> QED
    BY <2>1, PositionsFinite
<1>4. \A p : Owners(recs, n, Tail(q), s, p) = Owners(recs, n, q, s, p) - (IF p0 = p THEN 1 ELSE 0)
  BY <1>1, <1>2 DEF Owners
<1>5. Owners(recs, n, q, s, p0) >= 1
  BY <1>1, <1>2, <1>3 DEF Owners
<1>6. \A p \in Created : Owners(recs, n, q, s, p) = IF state[p] = "Pending" THEN 1 ELSE 0
  BY DEF ControlPart
<1>7. state[p0] = "Pending"
  BY <1>5, <1>6
<1> QED
  BY <1>4, <1>6, <1>7 DEF ControlPart

\* queueing one is one more way to settle it,
LEMMA QueueThenable ==
  ASSUME NEW recs, NEW n \in Nat, NEW q \in Seq(Job), NEW s, NEW p0,
         ControlPart(recs, n, q, s, p0), NEW j \in Job, j.kind = "thenable", j.promise = p0,
         state[p0] = "Pending", 0 \notin Created
  PROVE  ControlPart(recs, n, Append(q, j), s, 0)
<1>1. \A p : /\ Cardinality(UnusedOf(recs, n, p)) \in Nat
             /\ Cardinality(Positions(q, Adopting(p))) \in Nat
             /\ Cardinality(Positions(s, Fetching(recs, p))) \in Nat
  BY ControlFacts
<1>2. \A p : Cardinality(Positions(Append(q, j), Adopting(p))) =
               Cardinality(Positions(q, Adopting(p))) + (IF p0 = p THEN 1 ELSE 0)
  BY JobQueued
<1>3. \A p : Owners(recs, n, Append(q, j), s, p) = Owners(recs, n, q, s, p) + (IF p0 = p THEN 1 ELSE 0)
  BY <1>1, <1>2 DEF Owners
<1> QED
  BY <1>3 DEF ControlPart

\* and the jobs of reactions are none.
LEMMA QueueReactions ==
  ASSUME NEW recs, NEW n \in Nat, NEW q \in Seq(Job), NEW s, NEW p0,
         ControlPart(recs, n, q, s, p0), NEW t \in Seq(Job),
         \A i \in 1 .. Len(t) : t[i].kind = "reaction"
  PROVE  ControlPart(recs, n, q \o t, s, p0)
<1>1. \A p : Positions(q \o t, Adopting(p)) = Positions(q, Adopting(p))
  BY ReactionsQueued
<1> QED
  BY <1>1 DEF ControlPart, Owners

\* New functions for a promise that is to be settled.
LEMMA MakePair ==
  ASSUME NEW recs \in RecordTable, NEW n \in 0 .. MaxRecords, n + 1 <= MaxRecords,
         NEW q \in Seq(Job), NEW s, NEW p0 \in Created, NEW e \in BOOLEAN,
         ControlPart(recs, n, q, s, p0), state[p0] = "Pending", np \in 0 .. MaxPromises,
         NEW next, next = MadeIn(recs, n + 1, p0, e)
  PROVE  ControlPart(next, n + 1, q, s, 0)
<1>1. n \in Nat /\ 0 \notin Created /\ p0 \in 0 .. MaxPromises /\ n + 1 \in Nat
  BY PromisesAssumption DEF Created
<1>2. /\ next \in RecordTable
      /\ \A i \in 1 .. n : next[i] = recs[i]
      /\ next[n + 1] = Record(p0, e)
      /\ \A p : Cardinality(UnusedOf(next, n + 1, p)) =
           Cardinality(UnusedOf(recs, n, p)) + (IF p = p0 THEN 1 ELSE 0)
  BY <1>1, PairMade
<1>3. /\ s \in Seq(Frames)
      /\ \A i \in 1 .. Len(s) : s[i].kind = "getter" => s[i].rec \in 1 .. n
      /\ \A p : /\ Cardinality(UnusedOf(recs, n, p)) \in Nat
                /\ Cardinality(Positions(q, Adopting(p))) \in Nat
                /\ Cardinality(Positions(s, Fetching(recs, p))) \in Nat
  BY <1>1, ControlFacts
<1>4. \A i \in 1 .. n : next[i].promise = recs[i].promise
  BY <1>2
<1>5. \A p : Positions(s, Fetching(next, p)) = Positions(s, Fetching(recs, p))
  <2>1. /\ n \in Nat /\ s \in Seq(Frames)
        /\ \A i \in 1 .. Len(s) : s[i].kind = "getter" => s[i].rec \in 1 .. n
    BY <1>1, <1>3
  <2> SUFFICES ASSUME NEW p, NEW i \in 1 .. Len(s)
               PROVE  s[i] \in Fetching(next, p) <=> s[i] \in Fetching(recs, p)
    BY DEF Positions
  <2> QED
    BY <1>4, <2>1 DEF Fetching
<1>6. \A p : Cardinality(UnusedOf(next, n + 1, p)) =
        Cardinality(UnusedOf(recs, n, p)) + (IF p = p0 THEN 1 ELSE 0)
  BY <1>2
<1>7. \A p : Owners(next, n + 1, q, s, p) = Owners(recs, n, q, s, p) + (IF p = p0 THEN 1 ELSE 0)
  BY <1>3, <1>5, <1>6 DEF Owners
<1>8. \A r \in 1 .. (n + 1) : next[r].promise \in Created
  <2>1. next[n + 1].promise = p0
    BY <1>2 DEF Record
  <2>2. \A r \in 1 .. n : recs[r].promise \in Created
    BY DEF ControlPart
  <2>3. \A r \in 1 .. (n + 1) : r \in 1 .. n \/ r = n + 1
    BY <1>1
  <2> QED
    BY <1>4, <2>1, <2>2, <2>3
<1>9. s \in Seq(GoodFrames(np, next, n + 1))
  <2>1. GoodFrames(np, recs, n) \subseteq GoodFrames(np, next, n + 1)
    <3>1. np \in Nat /\ n <= n + 1 /\ np <= np
      BY <1>1, PromisesAssumption
    <3>2. \A i \in 1 .. n : next[i].exposed = recs[i].exposed
      BY <1>2
    <3>3. \A i \in 1 .. n : recs[i].alreadyResolved => next[i].alreadyResolved
      BY <1>2
    <3> QED
      BY ONLY <1>1, <3>1, <3>2, <3>3, FramesKept, Zenon
  <2> QED
    BY <2>1, SeqSubset DEF ControlPart
<1> QED
  BY <1>1, <1>7, <1>8, <1>9 DEF ControlPart

\* The stack s, or s with the frame of an executor on it.
Entered(s, s1, recs, n) ==
    \/ s1 = s
    \/ \E f \in GoodFrames(np + 1, recs, n) :
         f.kind \notin {"getter", "prompt", "script"} /\ s1 = <<f>> \o s

\* A new promise with its functions.
LEMMA MakePromise ==
  ASSUME NEW recs \in RecordTable, NEW n \in 0 .. MaxRecords, n + 1 <= MaxRecords,
         NEW q \in Seq(Job), NEW s, NEW e \in BOOLEAN, NEW s1, Entered(s, s1, records', n + 1),
         ControlPart(recs, n, q, s, 0), np \in 0 .. MaxPromises, np < MaxPromises,
         \A i \in 1 .. Len(q) : q[i].kind = "thenable" => q[i].promise \in Created,
         state[np + 1] = "Pending", UNCHANGED state, np' = np + 1,
         records' = MadeIn(recs, n + 1, np + 1, e), nr' = n + 1, jobs' = q, stack' = s1
  PROVE  ControlPart(records, nr, jobs, stack, 0)'
<1>1. PICK p0 : p0 = np + 1
  OBVIOUS
<1>2. PICK next : next = MadeIn(recs, n + 1, p0, e)
  OBVIOUS
<1>3. n \in Nat /\ 0 \notin Created /\ p0 \in 0 .. MaxPromises /\ n + 1 \in Nat /\ np \in Nat
  BY <1>1, PromisesAssumption DEF Created
<1>4. /\ next \in RecordTable
      /\ \A i \in 1 .. n : next[i] = recs[i]
      /\ next[n + 1] = Record(p0, e)
      /\ \A p : Cardinality(UnusedOf(next, n + 1, p)) =
           Cardinality(UnusedOf(recs, n, p)) + (IF p = p0 THEN 1 ELSE 0)
  BY <1>3, <1>2, PairMade
<1>5. /\ s \in Seq(Frames)
      /\ \A i \in 1 .. Len(s) : s[i].kind = "getter" =>
           s[i].rec \in 1 .. n /\ recs[s[i].rec].promise \in Created
      /\ \A p : /\ Cardinality(UnusedOf(recs, n, p)) \in Nat
                /\ Cardinality(Positions(q, Adopting(p))) \in Nat
                /\ Cardinality(Positions(s, Fetching(recs, p))) \in Nat
  BY <1>3, ControlFacts
<1>6. \A i \in 1 .. n : next[i].promise = recs[i].promise
  BY <1>4
<1>7. \A p : Positions(s, Fetching(next, p)) = Positions(s, Fetching(recs, p))
  <2>1. /\ n \in Nat /\ s \in Seq(Frames)
        /\ \A i \in 1 .. Len(s) : s[i].kind = "getter" => s[i].rec \in 1 .. n
    BY <1>3, <1>5
  <2> SUFFICES ASSUME NEW p, NEW i \in 1 .. Len(s)
               PROVE  s[i] \in Fetching(next, p) <=> s[i] \in Fetching(recs, p)
    BY DEF Positions
  <2> QED
    BY <1>6, <2>1 DEF Fetching
<1>8. \A p : Cardinality(UnusedOf(next, n + 1, p)) =
        Cardinality(UnusedOf(recs, n, p)) + (IF p = p0 THEN 1 ELSE 0)
  BY <1>4
<1>9. \A p : Owners(next, n + 1, q, s, p) = Owners(recs, n, q, s, p) + (IF p = p0 THEN 1 ELSE 0)
  BY <1>5, <1>7, <1>8 DEF Owners
<1>10. p0 \notin Created /\ Created' = Created \cup {p0}
  BY <1>3, <1>1 DEF Created
<1>11. Owners(recs, n, q, s, p0) = 0
  <2>1. UnusedOf(recs, n, p0) = {}
    BY <1>10 DEF ControlPart, UnusedOf
  <2>2. Positions(q, Adopting(p0)) = {}
    BY <1>10 DEF Positions, Adopting
  <2>3. Positions(s, Fetching(recs, p0)) = {}
    BY <1>5, <1>10 DEF Positions, Fetching
  <2>4. Cardinality({}) = 0
    BY FS_EmptySet
  <2> QED
    BY <2>1, <2>2, <2>3, <2>4 DEF Owners
<1>12. \A p \in Created' : Owners(next, n + 1, q, s, p) = IF state[p] = "Pending" THEN 1 ELSE 0
  <2>1. \A p \in Created : Owners(recs, n, q, s, p) = IF state[p] = "Pending" THEN 1 ELSE 0
    BY <1>3 DEF ControlPart
  <2> QED
    BY <1>9, <1>10, <1>11, <1>1, <2>1
<1>13. \A r \in 1 .. (n + 1) : next[r].promise \in Created'
  <2>1. next[n + 1].promise = p0
    BY <1>4 DEF Record
  <2>2. \A r \in 1 .. n : recs[r].promise \in Created
    BY DEF ControlPart
  <2>3. \A r \in 1 .. (n + 1) : r \in 1 .. n \/ r = n + 1
    BY <1>3
  <2> QED
    BY <1>6, <1>10, <2>1, <2>2, <2>3
<1>14. s \in Seq(GoodFrames(np + 1, next, n + 1))
  <2>1. GoodFrames(np, recs, n) \subseteq GoodFrames(np + 1, next, n + 1)
    <3>1. np \in Nat /\ n <= n + 1 /\ np <= np + 1 /\ np + 1 \in Nat
      BY <1>3
    <3>2. \A i \in 1 .. n : next[i].exposed = recs[i].exposed
      BY <1>4
    <3>3. \A i \in 1 .. n : recs[i].alreadyResolved => next[i].alreadyResolved
      BY <1>4
    <3> QED
      BY <1>3, <3>1, <3>2, <3>3, FramesKept
  <2> QED
    BY <2>1, SeqSubset DEF ControlPart
<1>15. records' = next /\ \A p \in Created' : p # 0
  BY <1>3, <1>10, <1>1, <1>2 DEF Created
<1>16. /\ s1 \in Seq(GoodFrames(np + 1, next, n + 1)) /\ OneScript(s1)
       /\ \A p : Owners(next, n + 1, q, s1, p) = Owners(next, n + 1, q, s, p)
  <2>1. CASE s1 = s
    BY <1>14, <2>1 DEF ControlPart
  <2>2. ASSUME NEW f \in GoodFrames(np + 1, next, n + 1), f.kind \notin {"getter", "prompt", "script"},
               s1 = <<f>> \o s
        PROVE  /\ s1 \in Seq(GoodFrames(np + 1, next, n + 1)) /\ OneScript(s1)
               /\ \A p : Owners(next, n + 1, q, s1, p) = Owners(next, n + 1, q, s, p)
    <3>1. f \in Frames
      BY DEF GoodFrames
    <3>2. s1 \in Seq(GoodFrames(np + 1, next, n + 1))
      BY <1>14, <2>2
    <3>3. OneScript(s)
      BY DEF ControlPart
    <3>4. OneScript(s1)
      BY <1>5, <2>2, <3>1, <3>3, PushOneScript
    <3>5. \A p : Cardinality(Positions(<<f>> \o s, Fetching(next, p))) =
                   Cardinality(Positions(s, Fetching(next, p)))
                     + (IF f.kind = "getter" /\ next[f.rec].promise = p THEN 1 ELSE 0)
      BY <1>5, <3>1, FramePushed
    <3>6. \A p : Cardinality(Positions(s, Fetching(next, p))) \in Nat
      BY <1>5, <1>7
    <3>7. \A p : Cardinality(Positions(s1, Fetching(next, p))) =
                   Cardinality(Positions(s, Fetching(next, p)))
      <4> SUFFICES ASSUME NEW p
                   PROVE  Cardinality(Positions(s1, Fetching(next, p))) =
                            Cardinality(Positions(s, Fetching(next, p)))
        OBVIOUS
      <4>1. f.kind # "getter"
        BY <2>2
      <4>2. Cardinality(Positions(<<f>> \o s, Fetching(next, p))) =
              Cardinality(Positions(s, Fetching(next, p))) + 0
        BY <3>5, <4>1
      <4>3. Cardinality(Positions(s, Fetching(next, p))) \in Nat
        BY <3>6
      <4> QED
        BY <2>2, <4>2, <4>3
    <3> QED
      BY <3>2, <3>4, <3>7 DEF Owners
  <2> QED
    BY <1>15, <2>1, <2>2 DEF Entered
<1> QED
  BY <1>12, <1>13, <1>15, <1>16 DEF ControlPart

\* From the queue and the stack an operation leaves to the next state.
LEMMA ControlKept ==
  ASSUME ControlPart(records', nr', jobs', stack', 0), UNCHANGED <<np, state>>
  PROVE  ControlPart(records, nr, jobs, stack, 0)'
  BY DEF ControlPart, Created

\* The same when the promise that was to be settled has been settled.
LEMMA ControlSettled ==
  ASSUME NEW p0 \in Created, NEW out, out # "Pending", Created \subseteq Promises,
         state \in [Promises -> States], state' = [state EXCEPT ![p0] = out],
         ControlPart(records', nr', jobs', stack', p0), UNCHANGED np
  PROVE  ControlPart(records, nr, jobs, stack, 0)'
<1>1. \A p \in Created : state'[p] = IF p = p0 THEN out ELSE state[p]
  OBVIOUS
<1>2. 0 \notin Created /\ Created' = Created
  BY DEF Created
<1> QED
  BY <1>1, <1>2 DEF ControlPart

-----------------------------------------------------------------------------
(* The promises                                                             *)

PromiseTypes ==
    /\ state \in [Promises -> States] /\ result \in [Promises -> Values]
    /\ fulfillReactions \in [Promises -> Seq(Reactions)]
    /\ rejectReactions \in [Promises -> Seq(Reactions)]
    /\ jobs \in Seq(Job) /\ unhandled \subseteq Promises

\* What makes a settled promise: the outcome, and the kinds of handlers it goes to.
Side(out, kinds) ==
    \/ out = "FulFilled" /\ kinds = FulfillKinds
    \/ out = "Rejected" /\ kinds = RejectKinds

\* Good jobs and reactions have their types.
LEMMA GoodTyped ==
  /\ GoodJobs \subseteq Job
  /\ \A p, kinds : GoodReactions(p, kinds) \subseteq Reactions
  /\ GoodValues(np) \subseteq Values
  BY DEF GoodJobs, GoodReactions, GoodValues

\* p0 gets the outcome out with the value v, and the jobs of its reactions R are queued.
Settling(p0, v, q, out, kinds, R) ==
    /\ Side(out, kinds) /\ R \in Seq(GoodReactions(p0, kinds))
    /\ state' = [state EXCEPT ![p0] = out] /\ result' = [result EXCEPT ![p0] = v]
    /\ jobs' = Triggered(q, R, v) /\ ClearReactions(p0)

\* What that leaves behind.
SettledWell(q, R) ==
    /\ Grows
    /\ jobs' \in Seq(GoodJobs') /\ Fresh' /\ Reacting' /\ Unasked'
    /\ \A p \in Promises : result'[p] \in GoodValues(np)
    /\ state' \in [Promises -> States] /\ result' \in [Promises -> Values]
    /\ fulfillReactions' \in [Promises -> Seq(Reactions)]
    /\ rejectReactions' \in [Promises -> Seq(Reactions)]
    /\ \E t \in Seq(Job) : /\ jobs' = q \o t /\ Len(t) = Len(R)
                           /\ \A i \in 1 .. Len(t) : t[i].kind = "reaction" /\ t[i].reaction = R[i]

\* fulfill and reject, but for what the host is told.
LEMMA SettleShared ==
  ASSUME TypeOK, NEW q, PromisePart(q), NEW p0 \in Created, state[p0] = "Pending",
         NEW v \in GoodValues(np), NEW out, NEW kinds, NEW R,
         Settling(p0, v, q, out, kinds, R), UNCHANGED <<np, nr, reg>>
  PROVE  SettledWell(q, R)
<1>1. /\ np \in Nat /\ nr \in Nat /\ Len(reg) \in Nat /\ Created \subseteq Promises
      /\ p0 \in Promises
  BY Bounds
<1>2. /\ Side(out, kinds) /\ R \in Seq(GoodReactions(p0, kinds))
      /\ state' = [state EXCEPT ![p0] = out] /\ result' = [result EXCEPT ![p0] = v]
      /\ jobs' = Triggered(q, R, v) /\ ClearReactions(p0)
  BY DEF Settling
<1>3. /\ state \in [Promises -> States] /\ result \in [Promises -> Values]
      /\ fulfillReactions \in [Promises -> Seq(Reactions)]
      /\ rejectReactions \in [Promises -> Seq(Reactions)]
  BY DEF TypeOK
<1>4. out \in States /\ out # "Pending" /\ v \in Values
  BY <1>2 DEF Side, States, GoodValues
<1>5. \A p \in Promises : /\ state'[p] = IF p = p0 THEN out ELSE state[p]
                          /\ result'[p] = IF p = p0 THEN v ELSE result[p]
  BY <1>2, <1>1, <1>3
<1>6. \A p \in Promises :
        /\ fulfillReactions'[p] = IF p = p0 THEN << >> ELSE fulfillReactions[p]
        /\ rejectReactions'[p] = IF p = p0 THEN << >> ELSE rejectReactions[p]
  BY <1>2, <1>1, <1>3 DEF ClearReactions
<1>7. Grows
  BY <1>1, <1>5 DEF Grows
<1>8. /\ \A p, k : GoodReactions(p, k) \subseteq GoodReactions(p, k)'
      /\ GoodJobs \subseteq GoodJobs'
  BY <1>1, <1>7, GoodKept
<1>9. /\ state' \in [Promises -> States] /\ result' \in [Promises -> Values]
      /\ fulfillReactions' \in [Promises -> Seq(Reactions)]
      /\ rejectReactions' \in [Promises -> Seq(Reactions)]
  BY <1>2, <1>1, <1>3, <1>4 DEF ClearReactions
<1>10. \A p \in Promises : result'[p] \in GoodValues(np)
  BY <1>5 DEF PromisePart
<1> DEFINE t == [i \in 1 .. Len(R) |-> ReactionJob(R[i], v)]
<1>11. Len(R) \in Nat /\ \A i \in 1 .. Len(R) : R[i] \in GoodReactions(p0, kinds)
  BY <1>2
<1>12. ASSUME NEW x \in GoodReactions(p0, kinds)
       PROVE  /\ ReactionJob(x, v) \in Job /\ ReactionJob(x, v).kind = "reaction"
              /\ ReactionJob(x, v).reaction = x
              /\ ReactionJob(x, v) \in GoodJobs'
  <2>1. x \in Reactions /\ x \in GoodReactions(p0, kinds)'
    BY <1>8, GoodTyped
  <2>2. /\ ReactionJob(x, v) \in Job /\ ReactionJob(x, v).kind = "reaction"
        /\ ReactionJob(x, v).reaction = x /\ ReactionJob(x, v).argument = v
    BY <1>4, <2>1, PromisesAssumption DEF ReactionJob, Job
  <2>3. Delivers(ReactionJob(x, v), p0)'
    <3>1. state'[p0] = out /\ result'[p0] = v
      BY <1>1, <1>5
    <3> QED
      BY <1>2, <2>1, <2>2, <3>1 DEF Delivers, Side
  <2>4. p0 \in Created'
    BY DEF Created
  <2> QED
    BY <2>2, <2>3, <2>4 DEF GoodJobs
<1>13. /\ t \in Seq(Job) /\ t \in Seq(GoodJobs') /\ Len(t) = Len(R)
       /\ \A i \in 1 .. Len(t) : t[i].kind = "reaction" /\ t[i].reaction = R[i]
  BY <1>11, <1>12
<1>14. jobs' = q \o t
  BY <1>2 DEF Triggered
<1>15. q \in Seq(GoodJobs')
  BY <1>8, SeqSubset DEF PromisePart
<1> HIDE DEF t
<1>16. jobs' \in Seq(GoodJobs')
  BY <1>13, <1>14, <1>15
<1>17. Fresh'
  BY <1>1, <1>5, <1>6 DEF Fresh, PromisePart, Created
<1>18. Reacting'
  <2> SUFFICES ASSUME NEW p \in Promises
               PROVE  (/\ fulfillReactions[p] \in Seq(GoodReactions(p, FulfillKinds))
                       /\ rejectReactions[p] \in Seq(GoodReactions(p, RejectKinds))
                       /\ Len(fulfillReactions[p]) = Len(rejectReactions[p]))'
    BY DEF Reacting
  <2>1. CASE p = p0
    <3>1. fulfillReactions'[p] = << >> /\ rejectReactions'[p] = << >>
      BY <1>6, <2>1
    <3>2. << >> \in Seq(GoodReactions(p, FulfillKinds)') /\ << >> \in Seq(GoodReactions(p, RejectKinds)')
      OBVIOUS
    <3> QED
      BY <3>1, <3>2
  <2>2. CASE p # p0
    <3>1. /\ fulfillReactions[p] \in Seq(GoodReactions(p, FulfillKinds))
          /\ rejectReactions[p] \in Seq(GoodReactions(p, RejectKinds))
          /\ Len(fulfillReactions[p]) = Len(rejectReactions[p])
      BY DEF PromisePart, Reacting
    <3>2. /\ fulfillReactions[p] \in Seq(GoodReactions(p, FulfillKinds)')
          /\ rejectReactions[p] \in Seq(GoodReactions(p, RejectKinds)')
      BY <1>8, <3>1, SeqSubset
    <3> QED
      BY <1>6, <2>2, <3>1, <3>2
  <2> QED
    BY <2>1, <2>2
<1>19. Unasked'
  <2> SUFFICES ASSUME NEW p \in Created, state'[p] = "Pending"
               PROVE  rejectReactions'[p] = << >> <=> \A i \in 1 .. Len(reg) : reg[i] # p
    BY DEF Unasked, Created
  <2>1. p # p0 /\ p \in Promises
    BY <1>1, <1>4, <1>5
  <2>2. state[p] = "Pending" /\ rejectReactions'[p] = rejectReactions[p]
    BY <1>5, <1>6, <2>1
  <2> QED
    BY <2>2 DEF Unasked, PromisePart
<1> QED
  BY <1>7, <1>9, <1>10, <1>13, <1>14, <1>16, <1>17, <1>18, <1>19 DEF SettledWell

\* fulfill and reject keep the promises.
LEMMA SettlePart ==
  ASSUME TypeOK, NEW q, PromisePart(q), NEW p0 \in Created, state[p0] = "Pending",
         NEW v \in GoodValues(np), Fulfill(p0, v, q) \/ Reject(p0, v, q), UNCHANGED <<np, nr, reg>>
  PROVE  /\ Grows /\ PromisePart(jobs)' /\ PromiseTypes'
         /\ \E out : out # "Pending" /\ state' = [state EXCEPT ![p0] = out]
         /\ ClearReactions(p0)
         /\ \E t \in Seq(Job), R \in {fulfillReactions[p0], rejectReactions[p0]} :
              /\ jobs' = q \o t /\ Len(t) = Len(R)
              /\ \A i \in 1 .. Len(t) : t[i].kind = "reaction" /\ t[i].reaction = R[i]
<1>1. p0 \in Promises /\ Created \subseteq Promises /\ Created' = Created
  BY Bounds DEF Created
<1>2. /\ fulfillReactions[p0] \in Seq(GoodReactions(p0, FulfillKinds))
      /\ rejectReactions[p0] \in Seq(GoodReactions(p0, RejectKinds))
  BY <1>1 DEF PromisePart, Reacting
<1>3. PICK out \in States, kinds \in {FulfillKinds, RejectKinds}, R \in {fulfillReactions[p0], rejectReactions[p0]} :
        /\ Settling(p0, v, q, out, kinds, R)
        /\ \/ out = "FulFilled" /\ unhandled' = unhandled
           \/ /\ out = "Rejected"
              /\ unhandled' = IF rejectReactions[p0] # << >> THEN unhandled ELSE unhandled \cup {p0}
  <2>1. CASE Fulfill(p0, v, q)
    BY <1>2, <2>1 DEF Fulfill, Side, States, Settling
  <2>2. CASE Reject(p0, v, q)
    BY <1>2, <2>2 DEF Reject, Side, States, Settling, HasRejectHandlers
  <2> QED
    BY <2>1, <2>2
<1>4. SettledWell(q, R)
  BY <1>3, SettleShared
<1>5. \A p \in Promises : state'[p] = IF p = p0 THEN out ELSE state[p]
  BY <1>1, <1>3 DEF TypeOK, Settling
<1>6. UnhandledExact'
  <2>1. unhandled = {p \in Created : state[p] = "Rejected" /\ \A i \in 1 .. Len(reg) : reg[i] # p}
    BY DEF PromisePart, UnhandledExact
  <2>2. rejectReactions[p0] = << >> <=> \A i \in 1 .. Len(reg) : reg[i] # p0
    BY DEF PromisePart, Unasked
  <2>3. ASSUME NEW p
        PROVE  p \in unhandled' <=>
                 p \in Created /\ state'[p] = "Rejected" /\ \A i \in 1 .. Len(reg) : reg[i] # p
    <3>1. CASE p = p0
      BY <1>1, <1>3, <1>5, <2>1, <2>2, <3>1
    <3>2. CASE p # p0
      BY <1>1, <1>3, <1>5, <2>1, <3>2
    <3> QED
      BY <3>1, <3>2
  <2>4. unhandled' = {p \in Created : state'[p] = "Rejected" /\ \A i \in 1 .. Len(reg) : reg[i] # p}
    BY <2>3
  <2> QED
    BY <1>1, <2>4 DEF UnhandledExact
<1>7. unhandled' \subseteq Promises
  BY <1>1, <1>6 DEF UnhandledExact
<1>8. \A i \in 1 .. Len(reg') : reg'[i] \in Created'
  BY <1>1 DEF PromisePart
<1>9. PromisePart(jobs)'
  BY <1>4, <1>6, <1>8 DEF PromisePart, SettledWell
<1>10. GoodJobs' \subseteq Job
  BY DEF GoodJobs
<1>11. jobs' \in Seq(Job)
  BY <1>4, <1>10, SeqSubset DEF SettledWell
<1>12. PromiseTypes'
  BY <1>4, <1>7, <1>11 DEF PromiseTypes, SettledWell
<1>13. out # "Pending"
  BY <1>3 DEF Side, Settling
<1> QED
  BY <1>3, <1>4, <1>9, <1>12, <1>13 DEF Settling, SettledWell

\* What leaves the promises alone keeps them.
LEMMA KeepPart ==
  ASSUME TypeOK, NEW q, PromisePart(q), KeepPromises,
         np' \in Nat, np <= np', np' <= MaxPromises, nr' \in Nat, nr <= nr', UNCHANGED reg,
         jobs' \in Seq(GoodJobs) \/ jobs' \in Seq(GoodJobs')
  PROVE  Grows /\ PromisePart(jobs)' /\ PromiseTypes'
<1>1. /\ np \in Nat /\ nr \in Nat /\ Len(reg) \in Nat /\ Created \subseteq Promises
      /\ Created \subseteq Created' /\ Created' \subseteq Promises
  BY Bounds DEF Created, Promises
<1>2. UNCHANGED <<state, result, fulfillReactions, rejectReactions, unhandled>>
  BY DEF KeepPromises
<1>3. Grows
  BY <1>1, <1>2 DEF Grows
<1>4. /\ \A p, k : GoodReactions(p, k) \subseteq GoodReactions(p, k)'
      /\ GoodJobs \subseteq GoodJobs' /\ GoodValues(np) \subseteq GoodValues(np')
  BY <1>1, <1>3, GoodKept
<1>5. jobs' \in Seq(GoodJobs')
  BY <1>4, SeqSubset
<1>6. \A p \in Promises : result'[p] \in GoodValues(np')
  BY <1>2, <1>4 DEF PromisePart
<1>7. Fresh'
  BY <1>1, <1>2 DEF PromisePart, Fresh
<1>8. Reacting'
  <2> SUFFICES ASSUME NEW p \in Promises
               PROVE  (/\ fulfillReactions[p] \in Seq(GoodReactions(p, FulfillKinds))
                       /\ rejectReactions[p] \in Seq(GoodReactions(p, RejectKinds))
                       /\ Len(fulfillReactions[p]) = Len(rejectReactions[p]))'
    BY DEF Reacting
  <2>1. /\ fulfillReactions[p] \in Seq(GoodReactions(p, FulfillKinds))
        /\ rejectReactions[p] \in Seq(GoodReactions(p, RejectKinds))
        /\ Len(fulfillReactions[p]) = Len(rejectReactions[p])
    BY DEF PromisePart, Reacting
  <2>2. /\ fulfillReactions[p] \in Seq(GoodReactions(p, FulfillKinds)')
        /\ rejectReactions[p] \in Seq(GoodReactions(p, RejectKinds)')
    BY <1>4, <2>1, SeqSubset
  <2> QED
    BY <1>2, <2>1, <2>2
<1>9. \A i \in 1 .. Len(reg) : reg[i] \in Created
  BY DEF PromisePart
<1>10. \A p \in Created' \ Created :
         state[p] = "Pending" /\ rejectReactions[p] = << >> /\ \A i \in 1 .. Len(reg) : reg[i] # p
  BY <1>1, <1>9 DEF PromisePart, Fresh
<1>11. Unasked'
  <2> SUFFICES ASSUME NEW p \in Created', state[p] = "Pending"
               PROVE  rejectReactions[p] = << >> <=> \A i \in 1 .. Len(reg) : reg[i] # p
    BY <1>2 DEF Unasked
  <2>1. CASE p \in Created
    BY <2>1 DEF PromisePart, Unasked
  <2> QED
    BY <1>10, <2>1
<1>12. UnhandledExact'
  <2>1. unhandled = {p \in Created : state[p] = "Rejected" /\ \A i \in 1 .. Len(reg) : reg[i] # p}
    BY DEF PromisePart, UnhandledExact
  <2>2. unhandled = {p \in Created' : state[p] = "Rejected" /\ \A i \in 1 .. Len(reg) : reg[i] # p}
    BY <1>1, <1>10, <2>1
  <2> QED
    BY <1>2, <2>2 DEF UnhandledExact
<1>13. PromisePart(jobs)'
  BY <1>1, <1>5, <1>6, <1>7, <1>8, <1>9, <1>11, <1>12 DEF PromisePart
<1>14. GoodJobs' \subseteq Job
  BY DEF GoodJobs
<1>15. PromiseTypes'
  BY <1>2, <1>5, <1>14, SeqSubset DEF PromiseTypes, TypeOK
<1> QED
  BY <1>3, <1>13, <1>15

\* A handler of one side with the functions it needs.
Suits(h, kinds, cap, n) ==
    /\ h \in Handlers /\ h.kind \in kinds /\ cap \in 0 .. n /\ h.rec \in 0 .. n
    /\ h.kind # "User" => cap # 0
    /\ h.kind \in {"Resolve", "Reject"} <=> h.rec # 0

\* The reaction that then() makes, and the job it becomes at once on a settled promise.
Reacts(p, h, cap) == Reaction(Len(reg) + 1, h, cap)

\* then() keeps the promises.
LEMMA ThenPart ==
  ASSUME TypeOK, NEW q, PromisePart(q), NEW p \in Created, NEW onF, NEW onR, NEW cap,
         PerformThen(p, onF, onR, cap, q),
         np' \in Nat, np <= np', np' <= MaxPromises, nr' \in Nat, nr <= nr', nr' <= MaxRecords,
         Suits(onF, FulfillKinds, cap, nr'), Suits(onR, RejectKinds, cap, nr')
  PROVE  /\ Grows /\ PromisePart(jobs)' /\ PromiseTypes' /\ reg' \in Seq(Promises)
         /\ state' = state
         /\ \/ /\ jobs' = q
               /\ fulfillReactions' = [fulfillReactions EXCEPT ![p] = Append(@, Reacts(p, onF, cap))]
               /\ rejectReactions' = [rejectReactions EXCEPT ![p] = Append(@, Reacts(p, onR, cap))]
            \/ /\ UNCHANGED <<fulfillReactions, rejectReactions>>
               /\ \E j \in Job, h \in {onF, onR} :
                    /\ jobs' = Append(q, j) /\ j.kind = "reaction" /\ j.reaction = Reacts(p, h, cap)
<1> DEFINE id == Len(reg) + 1
<1>1. /\ np \in Nat /\ nr \in Nat /\ Len(reg) \in Nat /\ Created \subseteq Promises
      /\ Created \subseteq Created' /\ Created' \subseteq Promises /\ p \in Promises
      /\ MaxRecords \in Nat
  BY Bounds DEF Created, Promises
<1>2. reg' = Append(reg, p) /\ UNCHANGED <<state, result>>
  BY DEF PerformThen
<1>3. /\ reg \in Seq(Promises) /\ reg' \in Seq(Promises) /\ Len(reg') = id /\ id \in Nat \ {0}
      /\ \A i \in 1 .. Len(reg) : reg'[i] = reg[i]
      /\ reg'[id] = p
  BY <1>1, <1>2 DEF TypeOK
<1>4. Grows
  BY <1>1, <1>2, <1>3 DEF Grows
<1>5. /\ \A x, k : GoodReactions(x, k) \subseteq GoodReactions(x, k)'
      /\ GoodJobs \subseteq GoodJobs' /\ GoodValues(np) \subseteq GoodValues(np')
  BY <1>1, <1>3, <1>4, GoodKept
<1>6. ASSUME NEW h, NEW kinds, Suits(h, kinds, cap, nr')
      PROVE  Reacts(p, h, cap) \in GoodReactions(p, kinds)' /\ Reacts(p, h, cap) \in Reactions
  <2>1. /\ h \in Handlers /\ h.kind \in kinds /\ cap \in 0 .. nr' /\ h.rec \in 0 .. nr'
        /\ h.kind # "User" => cap # 0
        /\ h.kind \in {"Resolve", "Reject"} <=> h.rec # 0
    BY <1>6 DEF Suits
  <2>2. cap \in 0 .. MaxRecords
    BY <1>1, <2>1
  <2>3. /\ Reacts(p, h, cap) \in Reactions /\ Reacts(p, h, cap).id = id
        /\ Reacts(p, h, cap).handler = h /\ Reacts(p, h, cap).cap = cap
    BY <1>3, <2>1, <2>2 DEF Reacts, Reaction, Reactions
  <2>4. id \in 1 .. Len(reg')
    BY <1>3
  <2> HIDE DEF id
  <2> QED
    BY <1>3, <2>1, <2>3, <2>4 DEF GoodReactions
<1>7. ASSUME NEW h, NEW kinds, NEW out, Side(out, kinds), Suits(h, kinds, cap, nr'), state[p] = out
      PROVE  /\ ReactionJob(Reacts(p, h, cap), result[p]) \in GoodJobs'
             /\ ReactionJob(Reacts(p, h, cap), result[p]) \in Job
             /\ ReactionJob(Reacts(p, h, cap), result[p]).kind = "reaction"
             /\ ReactionJob(Reacts(p, h, cap), result[p]).reaction = Reacts(p, h, cap)
  <2>1. Reacts(p, h, cap) \in GoodReactions(p, kinds)' /\ Reacts(p, h, cap) \in Reactions
    BY <1>6, <1>7
  <2>2. result[p] \in Values
    BY <1>1 DEF TypeOK
  <2>3. /\ ReactionJob(Reacts(p, h, cap), result[p]) \in Job
        /\ ReactionJob(Reacts(p, h, cap), result[p]).kind = "reaction"
        /\ ReactionJob(Reacts(p, h, cap), result[p]).reaction = Reacts(p, h, cap)
        /\ ReactionJob(Reacts(p, h, cap), result[p]).argument = result[p]
    BY <2>1, <2>2, PromisesAssumption DEF ReactionJob, Job
  <2>4. PICK j \in Job : j = ReactionJob(Reacts(p, h, cap), result[p])
    BY <2>3
  <2>5. Delivers(j, p)'
    BY <1>2, <1>7, <2>1, <2>3, <2>4 DEF Delivers, Side
  <2>6. p \in Created'
    BY <1>1
  <2>7. j \in GoodJobs'
    BY <2>3, <2>4, <2>5, <2>6 DEF GoodJobs
  <2> QED
    BY <2>3, <2>4, <2>7
<1>8. q \in Seq(GoodJobs') /\ q \in Seq(GoodJobs)
  BY <1>5, SeqSubset DEF PromisePart
<1>9. \/ /\ state[p] = "Pending" /\ jobs' = q
         /\ fulfillReactions' = [fulfillReactions EXCEPT ![p] = Append(@, Reacts(p, onF, cap))]
         /\ rejectReactions' = [rejectReactions EXCEPT ![p] = Append(@, Reacts(p, onR, cap))]
         /\ UNCHANGED unhandled
      \/ /\ state[p] = "FulFilled" /\ UNCHANGED <<fulfillReactions, rejectReactions, unhandled>>
         /\ jobs' = Append(q, ReactionJob(Reacts(p, onF, cap), result[p]))
      \/ /\ state[p] = "Rejected" /\ UNCHANGED <<fulfillReactions, rejectReactions>>
         /\ jobs' = Append(q, ReactionJob(Reacts(p, onR, cap), result[p]))
         /\ unhandled' = unhandled \ {p}
  BY DEF PerformThen, Reacts
<1>10. \/ /\ jobs' = q
          /\ fulfillReactions' = [fulfillReactions EXCEPT ![p] = Append(@, Reacts(p, onF, cap))]
          /\ rejectReactions' = [rejectReactions EXCEPT ![p] = Append(@, Reacts(p, onR, cap))]
       \/ /\ UNCHANGED <<fulfillReactions, rejectReactions>>
          /\ \E j \in Job, h \in {onF, onR} :
               /\ jobs' = Append(q, j) /\ j.kind = "reaction" /\ j.reaction = Reacts(p, h, cap)
  BY <1>7, <1>9, SMTT(30) DEF Side
<1>11. jobs' \in Seq(GoodJobs')
  BY <1>7, <1>8, <1>9 DEF Side
<1>12. /\ fulfillReactions \in [Promises -> Seq(Reactions)]
       /\ rejectReactions \in [Promises -> Seq(Reactions)]
  BY DEF TypeOK
<1>13. \A x \in Promises :
         x # p \/ state[p] # "Pending" =>
           /\ fulfillReactions'[x] = fulfillReactions[x]
           /\ rejectReactions'[x] = rejectReactions[x]
  BY <1>1, <1>9, <1>12
<1>14. state[p] = "Pending" =>
         /\ fulfillReactions'[p] = Append(fulfillReactions[p], Reacts(p, onF, cap))
         /\ rejectReactions'[p] = Append(rejectReactions[p], Reacts(p, onR, cap))
  BY <1>1, <1>9, <1>12
<1>15. /\ Reacts(p, onF, cap) \in GoodReactions(p, FulfillKinds)' /\ Reacts(p, onF, cap) \in Reactions
       /\ Reacts(p, onR, cap) \in GoodReactions(p, RejectKinds)' /\ Reacts(p, onR, cap) \in Reactions
  BY <1>6
<1>16. /\ fulfillReactions' \in [Promises -> Seq(Reactions)]
       /\ rejectReactions' \in [Promises -> Seq(Reactions)]
  <2>1. /\ Append(fulfillReactions[p], Reacts(p, onF, cap)) \in Seq(Reactions)
        /\ Append(rejectReactions[p], Reacts(p, onR, cap)) \in Seq(Reactions)
    BY <1>1, <1>12, <1>15
  <2> QED
    BY <1>1, <1>9, <1>12, <2>1
<1>17. Reacting'
  <2> SUFFICES ASSUME NEW x \in Promises
               PROVE  (/\ fulfillReactions[x] \in Seq(GoodReactions(x, FulfillKinds))
                       /\ rejectReactions[x] \in Seq(GoodReactions(x, RejectKinds))
                       /\ Len(fulfillReactions[x]) = Len(rejectReactions[x]))'
    BY DEF Reacting
  <2>1. /\ fulfillReactions[x] \in Seq(GoodReactions(x, FulfillKinds))
        /\ rejectReactions[x] \in Seq(GoodReactions(x, RejectKinds))
        /\ Len(fulfillReactions[x]) = Len(rejectReactions[x])
    BY DEF PromisePart, Reacting
  <2>2. /\ fulfillReactions[x] \in Seq(GoodReactions(x, FulfillKinds)')
        /\ rejectReactions[x] \in Seq(GoodReactions(x, RejectKinds)')
    BY <1>5, <2>1, SeqSubset
  <2>3. CASE x = p /\ state[p] = "Pending"
    <3>1. /\ Append(fulfillReactions[x], Reacts(p, onF, cap)) \in Seq(GoodReactions(x, FulfillKinds)')
          /\ Append(rejectReactions[x], Reacts(p, onR, cap)) \in Seq(GoodReactions(x, RejectKinds)')
      BY <1>15, <2>2, <2>3
    <3>2. /\ Len(Append(fulfillReactions[x], Reacts(p, onF, cap))) = Len(fulfillReactions[x]) + 1
          /\ Len(Append(rejectReactions[x], Reacts(p, onR, cap))) = Len(rejectReactions[x]) + 1
      BY <1>12, <1>15
    <3> QED
      BY <1>14, <2>1, <2>3, <3>1, <3>2
  <2>4. CASE x # p \/ state[p] # "Pending"
    BY <1>13, <2>1, <2>2, <2>4
  <2> QED
    BY <2>3, <2>4
<1>18. \A x : (\A i \in 1 .. Len(reg') : reg'[i] # x) <=> x # p /\ \A i \in 1 .. Len(reg) : reg[i] # x
  <2>1. \A i \in 1 .. Len(reg') : i \in 1 .. Len(reg) \/ i = id
    BY <1>1, <1>3
  <2>2. id \in 1 .. Len(reg') /\ \A i \in 1 .. Len(reg) : i \in 1 .. Len(reg')
    BY <1>1, <1>3
  <2> HIDE DEF id
  <2> QED
    BY <1>3, <2>1, <2>2
<1>19. \A i \in 1 .. Len(reg') : reg'[i] \in Created'
  <2>1. \A i \in 1 .. Len(reg) : reg[i] \in Created
    BY DEF PromisePart
  <2>2. \A i \in 1 .. Len(reg') : i \in 1 .. Len(reg) \/ i = id
    BY <1>1, <1>3
  <2> HIDE DEF id
  <2> QED
    BY <1>1, <1>3, <2>1, <2>2
<1>20. \A x \in Promises \ Created : state[x] = "Pending" /\ rejectReactions[x] = << >>
                                     /\ fulfillReactions[x] = << >>
                                     /\ \A i \in 1 .. Len(reg) : reg[i] # x
  BY <1>1 DEF PromisePart, Fresh
<1>21. Fresh'
  BY <1>1, <1>2, <1>13, <1>20 DEF Fresh
<1>22. Unasked'
  <2> SUFFICES ASSUME NEW x \in Created', state[x] = "Pending"
               PROVE  rejectReactions'[x] = << >> <=> \A i \in 1 .. Len(reg') : reg'[i] # x
    BY <1>2 DEF Unasked
  <2>1. CASE x = p
    <3>1. rejectReactions'[p] # << >>
      BY <1>1, <1>12, <1>14, <1>15, <2>1
    <3> QED
      BY <1>18, <2>1, <3>1
  <2>2. CASE x # p
    <3>1. rejectReactions'[x] = rejectReactions[x]
      BY <1>1, <1>13, <2>2
    <3>2. rejectReactions[x] = << >> <=> \A i \in 1 .. Len(reg) : reg[i] # x
      <4>1. CASE x \in Created
        BY <4>1 DEF PromisePart, Unasked
      <4> QED
        BY <1>1, <1>20, <4>1
    <3> QED
      BY <1>18, <2>2, <3>1, <3>2
  <2> QED
    BY <2>1, <2>2
<1>23. UnhandledExact'
  <2>1. unhandled = {x \in Created : state[x] = "Rejected" /\ \A i \in 1 .. Len(reg) : reg[i] # x}
    BY DEF PromisePart, UnhandledExact
  <2>2. unhandled' = unhandled \ {p}
    BY <1>9, <2>1
  <2>3. ASSUME NEW x
        PROVE  x \in unhandled' <=>
                 x \in Created' /\ state[x] = "Rejected" /\ \A i \in 1 .. Len(reg') : reg'[i] # x
    BY <1>1, <1>18, <1>20, <2>1, <2>2
  <2>4. unhandled' = {x \in Created' : state[x] = "Rejected" /\ \A i \in 1 .. Len(reg') : reg'[i] # x}
    BY <2>3
  <2> QED
    BY <1>2, <2>4 DEF UnhandledExact
<1>24. \A x \in Promises : result'[x] \in GoodValues(np')
  BY <1>2, <1>5 DEF PromisePart
<1>25. PromisePart(jobs)'
  BY <1>11, <1>17, <1>19, <1>21, <1>22, <1>23, <1>24 DEF PromisePart
<1>26. PromiseTypes'
  <2>1. GoodJobs' \subseteq Job
    BY DEF GoodJobs
  <2>2. unhandled' \subseteq Promises
    BY <1>9 DEF TypeOK
  <2>3. jobs' \in Seq(Job)
    BY <1>11, <2>1, SeqSubset
  <2> QED
    BY <1>2, <1>16, <2>2, <2>3 DEF PromiseTypes, TypeOK
<1> QED
  BY <1>2, <1>3, <1>4, <1>10, <1>25, <1>26

-----------------------------------------------------------------------------
(* Calling the resolving functions                                          *)

\* Nothing that holds functions is lost in a step from queue q and stack s.
Carried(q, s) ==
    /\ \A i \in 1 .. Len(s) : \E k \in 1 .. Len(stack') : stack'[k].rec = s[i].rec
    /\ \A i \in 1 .. Len(q) : \E k \in 1 .. Len(jobs') : jobs'[k] = q[i]
    /\ \A p \in Created : \A i \in 1 .. Len(fulfillReactions[p]) :
         \/ /\ i \in 1 .. Len(fulfillReactions'[p])
            /\ fulfillReactions'[p][i] = fulfillReactions[p][i]
            /\ rejectReactions'[p][i] = rejectReactions[p][i]
         \/ \E k \in 1 .. Len(jobs') :
              jobs'[k].reaction \in {fulfillReactions[p][i], rejectReactions[p][i]}

\* Then no functions are lost either.
LEMMA HeldKept ==
  ASSUME NEW q, NEW s, Carried(q, s), Created \subseteq Created', NEW r, HeldAt(r, q, s)
  PROVE  HeldAt(r, jobs, stack)'
<1>1. CASE \E p \in Created : \E i \in 1 .. Len(fulfillReactions[p]) :
             Holds(fulfillReactions[p][i], r) /\ Holds(rejectReactions[p][i], r)
  <2>1. PICK p \in Created : \E i \in 1 .. Len(fulfillReactions[p]) :
             Holds(fulfillReactions[p][i], r) /\ Holds(rejectReactions[p][i], r)
    BY <1>1
  <2>2. PICK i \in 1 .. Len(fulfillReactions[p]) :
             Holds(fulfillReactions[p][i], r) /\ Holds(rejectReactions[p][i], r)
    BY <2>1
  <2>3. CASE /\ i \in 1 .. Len(fulfillReactions'[p])
             /\ fulfillReactions'[p][i] = fulfillReactions[p][i]
             /\ rejectReactions'[p][i] = rejectReactions[p][i]
    BY <2>2, <2>3 DEF HeldAt
  <2>4. CASE \E k \in 1 .. Len(jobs') :
               jobs'[k].reaction \in {fulfillReactions[p][i], rejectReactions[p][i]}
    BY <2>2, <2>4 DEF HeldAt
  <2> QED
    BY <2>3, <2>4 DEF Carried
<1>2. CASE \E i \in 1 .. Len(q) : Holds(q[i].reaction, r)
  BY <1>2 DEF Carried, HeldAt
<1>3. CASE \E i \in 1 .. Len(s) : s[i].rec = r
  BY <1>3 DEF Carried, HeldAt
<1> QED
  BY <1>1, <1>2, <1>3 DEF HeldAt

\* The functions that are still hidden and unused are held.
LEMMA HiddenNext ==
  ASSUME NEW q, NEW s, NEW r0, HiddenPart(q, s, r0), Carried(q, s), Created \subseteq Created',
         \A r \in 1 .. nr' : ~ records'[r].exposed /\ ~ records'[r].alreadyResolved =>
           \/ r \in 1 .. nr /\ ~ records[r].exposed /\ ~ records[r].alreadyResolved /\ r # r0
           \/ HeldAt(r, jobs, stack)'
  PROVE  HiddenPart(jobs, stack, 0)'
<1> SUFFICES ASSUME NEW r \in 1 .. nr', ~ records'[r].exposed, ~ records'[r].alreadyResolved
             PROVE  HeldAt(r, jobs, stack)'
  BY DEF HiddenPart
<1>1. CASE r \in 1 .. nr /\ ~ records[r].exposed /\ ~ records[r].alreadyResolved /\ r # r0
  <2>1. HeldAt(r, q, s)
    BY <1>1 DEF HiddenPart
  <2> QED
    BY <2>1, HeldKept
<1> QED
  BY <1>1

\* Operations that leave the reactions alone and queue or push.
LEMMA CarriedKept ==
  ASSUME NEW q \in Seq(Job), NEW s \in Seq(Frames), UNCHANGED <<fulfillReactions, rejectReactions>>,
         jobs' = q \/ \E j \in Job : jobs' = Append(q, j),
         stack' = s \/ \E f \in Frames : stack' = <<f>> \o s
  PROVE  Carried(q, s)
<1>1. \A i \in 1 .. Len(q) : \E k \in 1 .. Len(jobs') : jobs'[k] = q[i]
  <2>1. CASE jobs' = q
    BY <2>1
  <2>2. ASSUME NEW j \in Job, jobs' = Append(q, j)
        PROVE  \A i \in 1 .. Len(q) : \E k \in 1 .. Len(jobs') : jobs'[k] = q[i]
    <3>1. Len(q) \in Nat /\ Len(jobs') = Len(q) + 1 /\ \A i \in 1 .. Len(q) : jobs'[i] = q[i]
      BY <2>2
    <3> QED
      BY <3>1
  <2> QED
    BY <2>1, <2>2
<1>2. \A i \in 1 .. Len(s) : \E k \in 1 .. Len(stack') : stack'[k].rec = s[i].rec
  <2>1. CASE stack' = s
    BY <2>1
  <2>2. ASSUME NEW f \in Frames, stack' = <<f>> \o s
        PROVE  \A i \in 1 .. Len(s) : \E k \in 1 .. Len(stack') : stack'[k].rec = s[i].rec
    <3>1. Len(s) \in Nat /\ Len(stack') = Len(s) + 1 /\ \A i \in 1 .. Len(s) : stack'[i + 1] = s[i]
      BY <2>2
    <3>2. \A i \in 1 .. Len(s) : i + 1 \in 1 .. Len(stack')
      BY <3>1
    <3> QED
      BY <3>1, <3>2
  <2> QED
    BY <2>1, <2>2
<1> QED
  BY <1>1, <1>2 DEF Carried

\* fulfill and reject on a promise whose resolver has been taken.
LEMMA SettleStep ==
  ASSUME TypeOK, NEW q, NEW s, PromisePart(q), NEW p0 \in Created, state[p0] = "Pending",
         NEW v \in GoodValues(np), Fulfill(p0, v, q) \/ Reject(p0, v, q), UNCHANGED <<np, nr, reg>>,
         ControlPart(records', nr, q, s, p0), stack' = s, s \in Seq(Frames)
  PROVE  /\ Grows /\ PromisePart(jobs)' /\ PromiseTypes'
         /\ ControlPart(records, nr, jobs, stack, 0)' /\ Carried(q, s)
<1>1. /\ Grows /\ PromisePart(jobs)' /\ PromiseTypes' /\ ClearReactions(p0)
  BY SettlePart
<1>2. PICK out : out # "Pending" /\ state' = [state EXCEPT ![p0] = out]
  BY SettlePart
<1>3. PICK t \in Seq(Job), R \in {fulfillReactions[p0], rejectReactions[p0]} :
        /\ jobs' = q \o t /\ Len(t) = Len(R)
        /\ \A i \in 1 .. Len(t) : t[i].kind = "reaction" /\ t[i].reaction = R[i]
  BY SettlePart
<1>4. q \in Seq(Job) /\ nr \in Nat /\ Created \subseteq Promises /\ p0 \in Promises
  <2>1. q \in Seq(GoodJobs)
    BY DEF PromisePart
  <2>2. GoodJobs \subseteq Job
    BY GoodTyped
  <2>3. q \in Seq(Job)
    BY <2>1, <2>2, SeqSubset
  <2>4. nr \in Nat /\ Created \subseteq Promises
    BY Bounds
  <2> QED
    BY <2>3, <2>4
<1>5. ControlPart(records', nr, q \o t, s, p0)
  BY <1>3, <1>4, QueueReactions
<1>6. ControlPart(records, nr, jobs, stack, 0)'
  <2>1. state \in [Promises -> States]
    BY DEF TypeOK
  <2>2. ControlPart(records', nr', jobs', stack', p0)
    BY <1>3, <1>5
  <2> QED
    BY <1>2, <1>4, <2>1, <2>2, ControlSettled
<1>7. Carried(q, s)
  <2>1. Len(q) \in Nat /\ Len(t) \in Nat /\ Len(jobs') = Len(q) + Len(t)
        /\ (\A i \in 1 .. Len(q) : jobs'[i] = q[i])
        /\ (\A i \in 1 .. Len(t) : jobs'[Len(q) + i] = t[i])
    <3>1. jobs' = q \o t
      BY <1>3
    <3> HIDE <1>3
    <3> QED
      BY <1>4, <3>1
  <2>2. \A i \in 1 .. Len(q) : \E k \in 1 .. Len(jobs') : jobs'[k] = q[i]
    <3>1. \A i \in 1 .. Len(q) : i \in 1 .. Len(jobs')
      BY <2>1
    <3> QED
      BY <2>1, <3>1
  <2>3. ASSUME NEW p \in Created, NEW i \in 1 .. Len(fulfillReactions[p])
        PROVE  \/ /\ i \in 1 .. Len(fulfillReactions'[p])
                  /\ fulfillReactions'[p][i] = fulfillReactions[p][i]
                  /\ rejectReactions'[p][i] = rejectReactions[p][i]
               \/ \E k \in 1 .. Len(jobs') :
                    jobs'[k].reaction \in {fulfillReactions[p][i], rejectReactions[p][i]}
    <3>1. CASE p = p0
      <4>1. Len(fulfillReactions[p]) = Len(rejectReactions[p])
        BY <1>4, <3>1 DEF PromisePart, Reacting
      <4>2. i \in 1 .. Len(t) /\ Len(q) + i \in 1 .. Len(jobs')
        BY <1>3, <2>1, <3>1, <4>1
      <4>3. jobs'[Len(q) + i].reaction = R[i]
        BY <1>3, <2>1, <4>2
      <4> QED
        BY <1>3, <3>1, <4>2, <4>3
    <3>2. CASE p # p0
      <4>1. fulfillReactions'[p] = fulfillReactions[p] /\ rejectReactions'[p] = rejectReactions[p]
        BY <1>1, <1>4, <3>2 DEF ClearReactions, TypeOK
      <4> QED
        BY <4>1
    <3> QED
      BY <3>1, <3>2
  <2> QED
    BY <2>2, <2>3 DEF Carried
<1> QED
  BY <1>1, <1>6, <1>7

\* What an operation leaves behind.
Kept ==
    /\ Grows /\ PromisePart(jobs)' /\ PromiseTypes'
    /\ ControlPart(records, nr, jobs, stack, 0)' /\ HiddenPart(jobs, stack, 0)'
    /\ records' \in RecordTable /\ stack' \in Seq(Frames)
    /\ follows' \in [Promises -> 0 .. MaxPromises]

\* Before a call of the functions r, with the queue q and the stack s.
Ready(q, s, r) ==
    /\ TypeOK
    /\ PromisePart(q)
    /\ ControlPart(records, nr, q, s, 0)
    /\ HiddenPart(q, s, r)

\* What the parts say of the queue and the stack.
LEMMA ReadyFacts ==
  ASSUME NEW q, NEW s, NEW r, Ready(q, s, r)
  PROVE  /\ TypeOK /\ PromisePart(q) /\ ControlPart(records, nr, q, s, 0) /\ HiddenPart(q, s, r)
         /\ q \in Seq(GoodJobs) /\ q \in Seq(Job) /\ s \in Seq(Frames) /\ 0 \notin Created
<1>1. TypeOK /\ PromisePart(q) /\ ControlPart(records, nr, q, s, 0) /\ HiddenPart(q, s, r)
  BY DEF Ready
<1>2. q \in Seq(GoodJobs)
  BY <1>1 DEF PromisePart
<1>3. GoodJobs \subseteq Job
  BY GoodTyped
<1>4. q \in Seq(Job)
  BY <1>2, <1>3, SeqSubset
<1>5. nr \in Nat
  BY <1>1, Bounds
<1>6. s \in Seq(Frames)
  BY <1>1, <1>4, <1>5, ControlFacts
<1>7. 0 \notin Created
  BY DEF Created
<1> QED
  BY <1>1, <1>2, <1>4, <1>6, <1>7

\* Values that are not promises are good.
LEMMA PlainValues ==
  ASSUME MaxPromises \in Nat
  PROVE  /\ Primitive \in GoodValues(np) /\ Error \in GoodValues(np)
         /\ \A o \in Objects : ObjectValue(o) \in GoodValues(np)
  BY PromisesAssumption DEF Primitive, Error, ObjectValue, GoodValues, Values

\* Nothing is called: the functions r are used up or known to script code.
LEMMA QuietStep ==
  ASSUME NEW q, NEW s, NEW r, Ready(q, s, r),
         r \in 1 .. nr => records[r].alreadyResolved \/ records[r].exposed,
         jobs' = q, stack' = s, KeepPromises, UNCHANGED <<np, nr, reg, records, follows>>
  PROVE  Kept
<1>1. /\ TypeOK /\ PromisePart(q) /\ ControlPart(records, nr, q, s, 0) /\ HiddenPart(q, s, r)
      /\ q \in Seq(GoodJobs) /\ q \in Seq(Job) /\ s \in Seq(Frames)
  BY ReadyFacts
<1>2. np \in Nat /\ nr \in Nat /\ np <= MaxPromises
  BY <1>1, Bounds
<1>3. Grows /\ PromisePart(jobs)' /\ PromiseTypes'
  BY <1>1, <1>2, KeepPart
<1>4. ControlPart(records, nr, jobs, stack, 0)'
  BY <1>1, ControlKept DEF KeepPromises
<1>5. Carried(q, s)
  BY <1>1, CarriedKept DEF KeepPromises
<1>6. HiddenPart(jobs, stack, 0)'
  <2>1. \A i \in 1 .. nr' : ~ records'[i].exposed /\ ~ records'[i].alreadyResolved =>
           i \in 1 .. nr /\ ~ records[i].exposed /\ ~ records[i].alreadyResolved /\ i # r
    OBVIOUS
  <2>2. Created \subseteq Created'
    BY DEF Created
  <2> QED
    BY <1>1, <1>5, <2>1, <2>2, HiddenNext
<1>7. records' \in RecordTable /\ follows' \in [Promises -> 0 .. MaxPromises]
  BY <1>1 DEF TypeOK, RecordTable
<1> QED
  BY <1>1, <1>3, <1>4, <1>6, <1>7 DEF Kept

\* Functions that are used now: their promise is left to be settled and nothing else
\* that is hidden is lost.
LEMMA FirstUse ==
  ASSUME NEW q, NEW s, NEW r \in 1 .. nr, Ready(q, s, r), ~ records[r].alreadyResolved,
         records' = Used(r), NEW p0, p0 = records[r].promise, UNCHANGED <<np, nr>>
  PROVE  /\ ControlPart(records', nr, q, s, p0) /\ p0 \in Created /\ state[p0] = "Pending"
         /\ records' \in RecordTable
         /\ records'[r].promise = p0 /\ records'[r].alreadyResolved
         /\ Carried(q, s) => HiddenPart(jobs, stack, 0)'
<1>1. /\ TypeOK /\ ControlPart(records, nr, q, s, 0) /\ HiddenPart(q, s, r)
      /\ q \in Seq(Job) /\ 0 \notin Created
  BY ReadyFacts
<1>2. nr \in 0 .. MaxRecords /\ records \in RecordTable /\ 1 .. nr \subseteq Records
  BY <1>1, Bounds
<1>3. records' = UsedIn(records, r)
  BY DEF Used, UsedIn
<1>4. ControlPart(records', nr, q, s, p0) /\ p0 \in Created /\ state[p0] = "Pending"
  BY <1>1, <1>2, <1>3, TakePair
<1>5. /\ records' \in RecordTable
      /\ \A i \in Records : records'[i].promise = records[i].promise
                              /\ records'[i].exposed = records[i].exposed
      /\ \A i \in Records : records'[i].alreadyResolved <=> records[i].alreadyResolved \/ i = r
  BY <1>2, <1>3, PairUsed
<1>6. ASSUME Carried(q, s)
      PROVE  HiddenPart(jobs, stack, 0)'
  <2>1. \A i \in 1 .. nr' : ~ records'[i].exposed /\ ~ records'[i].alreadyResolved =>
           i \in 1 .. nr /\ ~ records[i].exposed /\ ~ records[i].alreadyResolved /\ i # r
    BY <1>2, <1>5
  <2>2. Created \subseteq Created'
    BY DEF Created
  <2> QED
    BY <1>1, <1>6, <2>1, <2>2, HiddenNext
<1> QED
  BY <1>2, <1>4, <1>5, <1>6

\* fulfill and reject, called by functions that are used now.
LEMMA SettleCall ==
  ASSUME NEW q, NEW s, NEW r \in 1 .. nr, Ready(q, s, r), ~ records[r].alreadyResolved,
         records' = Used(r), NEW v \in GoodValues(np),
         Fulfill(records[r].promise, v, q) \/ Reject(records[r].promise, v, q),
         stack' = s, UNCHANGED <<np, nr, reg, follows>>
  PROVE  Kept
<1>1. TypeOK /\ PromisePart(q) /\ s \in Seq(Frames)
  BY ReadyFacts
<1>2. PICK p0 : p0 = records[r].promise
  OBVIOUS
<1>3. /\ ControlPart(records', nr, q, s, p0) /\ p0 \in Created /\ state[p0] = "Pending"
      /\ records' \in RecordTable
      /\ Carried(q, s) => HiddenPart(jobs, stack, 0)'
  BY <1>2, FirstUse
<1>4. /\ Grows /\ PromisePart(jobs)' /\ PromiseTypes'
      /\ ControlPart(records, nr, jobs, stack, 0)' /\ Carried(q, s)
  BY <1>1, <1>2, <1>3, SettleStep
<1>5. follows' \in [Promises -> 0 .. MaxPromises]
  BY <1>1 DEF TypeOK
<1> QED
  BY <1>1, <1>3, <1>4, <1>5 DEF Kept

\* promiseRejectFunctions.
LEMMA RejectStep ==
  ASSUME NEW q, NEW s, NEW r \in 1 .. nr, Ready(q, s, r), NEW v \in GoodValues(np),
         CallReject(r, v, q), stack' = s, UNCHANGED <<np, nr, reg>>
  PROVE  Kept
<1>1. CASE records[r].alreadyResolved
  BY <1>1, QuietStep DEF CallReject
<1>2. CASE ~ records[r].alreadyResolved
  BY <1>2, SettleCall DEF CallReject
<1> QED
  BY <1>1, <1>2

\* The job for a thenable is a good one.
LEMMA ThenableGood ==
  ASSUME NEW p \in Created, Created \subseteq Promises, NEW x \in GoodValues(np),
         NEW j, j = ThenableJob(p, x)
  PROVE  j \in GoodJobs /\ j \in Job /\ j.kind = "thenable" /\ j.promise = p
<1>1. x \in Values
  BY DEF GoodValues
<1>2. p \in 0 .. MaxPromises
  BY PromisesAssumption DEF Promises
<1>3. j.kind = "thenable" /\ j.promise = p /\ j.argument = x /\ j.reaction = NoReaction
  BY DEF ThenableJob
<1>4. j \in Job
  BY <1>1, <1>2 DEF ThenableJob, Job
<1> QED
  BY <1>3, <1>4 DEF GoodJobs

\* A promise that is resolved with a thenable gets a job.
LEMMA AdoptStep ==
  ASSUME NEW q, NEW s, NEW r \in 1 .. nr, Ready(q, s, r), ~ records[r].alreadyResolved,
         records' = Used(r), NEW x \in GoodValues(np), Adopt(records[r].promise, x, q),
         stack' = s, UNCHANGED <<np, nr, reg>>
  PROVE  Kept
<1>1. /\ TypeOK /\ PromisePart(q) /\ s \in Seq(Frames) /\ 0 \notin Created
      /\ q \in Seq(Job) /\ q \in Seq(GoodJobs)
  BY ReadyFacts
<1>2. PICK p0 : p0 = records[r].promise
  OBVIOUS
<1>3. /\ ControlPart(records', nr, q, s, p0) /\ p0 \in Created /\ state[p0] = "Pending"
      /\ records' \in RecordTable
      /\ Carried(q, s) => HiddenPart(jobs, stack, 0)'
  BY <1>2, FirstUse
<1>4. np \in Nat /\ nr \in Nat /\ np <= MaxPromises /\ Created \subseteq Promises
      /\ MaxPromises \in Nat /\ MaxRecords \in Nat
  BY <1>1, Bounds
<1>5. PICK j : j = ThenableJob(p0, x)
  OBVIOUS
<1>6. jobs' = Append(q, j) /\ KeepPromises /\ follows' = [follows EXCEPT ![p0] = x.promise]
  BY <1>2, <1>5 DEF Adopt
<1>7. j \in GoodJobs /\ j \in Job /\ j.kind = "thenable" /\ j.promise = p0
  BY <1>3, <1>4, <1>5, ThenableGood
<1>8. Grows /\ PromisePart(jobs)' /\ PromiseTypes'
  <2>1. jobs' \in Seq(GoodJobs)
    BY <1>1, <1>6, <1>7
  <2> QED
    BY <1>1, <1>4, <1>6, <2>1, KeepPart
<1>9. ControlPart(records, nr, jobs, stack, 0)'
  <2>1. ControlPart(records', nr, Append(q, j), s, 0)
    BY <1>1, <1>3, <1>4, <1>7, QueueThenable
  <2>2. ControlPart(records', nr', jobs', stack', 0)
    BY <1>6, <2>1
  <2>3. UNCHANGED <<np, state>>
    BY <1>6 DEF KeepPromises
  <2> QED
    BY <2>2, <2>3, ControlKept
<1>10. Carried(q, s)
  BY <1>1, <1>6, <1>7, CarriedKept DEF KeepPromises
<1>11. follows' \in [Promises -> 0 .. MaxPromises]
  <2>1. follows \in [Promises -> 0 .. MaxPromises]
    BY <1>1 DEF TypeOK
  <2>2. x.promise \in 0 .. MaxPromises
    BY DEF GoodValues, Values
  <2> QED
    BY <1>6, <2>1, <2>2
<1> QED
  BY <1>1, <1>3, <1>8, <1>9, <1>10, <1>11 DEF Kept

\* A promise that is resolved with an accessor object waits for the getter.
LEMMA FetchStep ==
  ASSUME NEW q, NEW s, NEW r \in 1 .. nr, Ready(q, s, r), ~ records[r].alreadyResolved,
         records' = Used(r), NEW x \in GoodValues(np), stack' = <<Frame("getter", r, x)>> \o s,
         jobs' = q, KeepPromises, UNCHANGED <<np, nr, reg, follows>>
  PROVE  Kept
<1>1. /\ TypeOK /\ PromisePart(q) /\ s \in Seq(Frames) /\ 0 \notin Created
      /\ q \in Seq(Job) /\ q \in Seq(GoodJobs)
  BY ReadyFacts
<1>2. PICK p0 : p0 = records[r].promise
  OBVIOUS
<1>3. /\ ControlPart(records', nr, q, s, p0) /\ p0 \in Created /\ state[p0] = "Pending"
      /\ records' \in RecordTable /\ records'[r].promise = p0 /\ records'[r].alreadyResolved
      /\ Carried(q, s) => HiddenPart(jobs, stack, 0)'
  BY <1>2, FirstUse
<1>4. np \in Nat /\ nr \in Nat /\ np <= MaxPromises /\ MaxRecords \in Nat /\ nr <= MaxRecords
  BY <1>1, Bounds
<1>5. PICK f : f = Frame("getter", r, x)
  OBVIOUS
<1>6. f \in Frames /\ f \in GoodFrames(np, records', nr) /\ f.kind = "getter" /\ f.rec = r
  <2>1. x \in Values
    BY DEF GoodValues
  <2>2. f.kind = "getter" /\ f.rec = r /\ f.value = x
    BY <1>5 DEF Frame
  <2>3. f \in Frames
    BY <1>4, <1>5, <2>1 DEF Frame, Frames
  <2> QED
    BY <1>3, <1>4, <2>2, <2>3 DEF GoodFrames
<1>7. Grows /\ PromisePart(jobs)' /\ PromiseTypes'
  BY <1>1, <1>4, KeepPart
<1>8. ControlPart(records, nr, jobs, stack, 0)'
  <2>1. ControlPart(records', nr, q, <<f>> \o s, 0)
    BY <1>1, <1>3, <1>4, <1>6, PushGetter
  <2>2. ControlPart(records', nr', jobs', stack', 0)
    BY <1>5, <2>1
  <2>3. UNCHANGED <<np, state>>
    BY DEF KeepPromises
  <2> QED
    BY <2>2, <2>3, ControlKept
<1>9. Carried(q, s)
  BY <1>1, <1>5, <1>6, CarriedKept DEF KeepPromises
<1>10. stack' \in Seq(Frames)
  BY <1>1, <1>5, <1>6
<1>11. follows' \in [Promises -> 0 .. MaxPromises]
  BY <1>1 DEF TypeOK
<1> QED
  BY <1>3, <1>7, <1>8, <1>9, <1>10, <1>11 DEF Kept

\* promiseResolveFunctions.
LEMMA ResolveStep ==
  ASSUME NEW q, NEW s, NEW r \in 1 .. nr, Ready(q, s, r), NEW x \in GoodValues(np),
         CallResolve(r, x, q, s), UNCHANGED <<np, nr, reg>>
  PROVE  Kept
<1>1. CASE records[r].alreadyResolved
  BY <1>1, QuietStep DEF CallResolve
<1>2. ASSUME ~ records[r].alreadyResolved, records' = Used(r), stack' = s, UNCHANGED follows,
             Reject(records[r].promise, Error, q)
      PROVE  Kept
  <2>1. Error \in GoodValues(np)
    BY PromisesAssumption, PlainValues
  <2> QED
    BY <1>2, <2>1, SettleCall
<1>3. ASSUME ~ records[r].alreadyResolved, records' = Used(r), stack' = s, UNCHANGED follows,
             Fulfill(records[r].promise, x, q)
      PROVE  Kept
  BY <1>3, SettleCall
<1>4. ASSUME ~ records[r].alreadyResolved, records' = Used(r), stack' = s,
             Adopt(records[r].promise, x, q)
      PROVE  Kept
  BY <1>4, AdoptStep
<1>5. ASSUME ~ records[r].alreadyResolved, records' = Used(r), UNCHANGED follows,
             stack' = <<Frame("getter", r, x)>> \o s, jobs' = q, KeepPromises
      PROVE  Kept
  BY <1>5, FetchStep
<1> QED
  BY <1>1, <1>2, <1>3, <1>4, <1>5 DEF CallResolve

-----------------------------------------------------------------------------
(* The actions                                                              *)

\* What an action leaves behind: besides the parts, the counters and the history.
Counted ==
    /\ np' \in 0 .. MaxPromises /\ nr' \in 0 .. MaxRecords /\ ops' \in Nat
    /\ reg' \in Seq(Promises) /\ ran' \subseteq Nat

\* Together they are the invariant.
LEMMA KeptInv ==
  ASSUME Kept, Counted
  PROVE  Inv' /\ Grows
<1>1. TypeOK'
  BY DEF Kept, Counted, TypeOK, PromiseTypes, RecordTable
<1> QED
  BY <1>1 DEF Kept, Inv

\* Counters that stay.
LEMMA CountedKept ==
  ASSUME TypeOK, UNCHANGED <<np, nr, reg>>, UNCHANGED ops \/ Operation,
         UNCHANGED ran \/ \E i \in Nat : ran' = ran \cup {i}
  PROVE  Counted
<1>1. np' \in 0 .. MaxPromises /\ nr' \in 0 .. MaxRecords /\ reg' \in Seq(Promises)
  BY DEF TypeOK
<1>2. ops' \in Nat
  <2>1. ops \in Nat
    BY DEF TypeOK
  <2> QED
    BY <2>1 DEF Operation
<1>3. ran' \subseteq Nat
  <2>1. ran \subseteq Nat
    BY DEF TypeOK
  <2> QED
    BY <2>1
<1> QED
  BY <1>1, <1>2, <1>3 DEF Counted

\* Script code calls functions it knows.
LEMMA InvReady ==
  ASSUME Inv, NEW r
  PROVE  TypeOK /\ Ready(jobs, stack, r)
  BY DEF Inv, Ready, HiddenPart, Created

\* What scripts resolve with exists.
LEMMA ResolutionsGood ==
  ASSUME TypeOK
  PROVE  Resolutions \subseteq GoodValues(np)
<1> SUFFICES ASSUME NEW x \in Resolutions
             PROVE  x \in GoodValues(np)
  OBVIOUS
<1>1. MaxPromises \in Nat /\ np \in Nat /\ np <= MaxPromises
  BY Bounds
<1>2. CASE \E p \in Created : x = PromiseValue(p)
  BY <1>1, <1>2 DEF PromiseValue, GoodValues, Values, Created
<1>3. CASE ~ \E p \in Created : x = PromiseValue(p)
  BY <1>1, <1>3, PlainValues DEF Resolutions
<1> QED
  BY <1>2, <1>3

\* Script code resolves.
LEMMA ScriptResolvesKeeps ==
  ASSUME Inv, NEW r \in 1 .. nr, NEW x \in Resolutions, ScriptResolves(r, x)
  PROVE  Kept /\ Counted
<1>1. TypeOK /\ Ready(jobs, stack, r)
  BY InvReady
<1>2. x \in GoodValues(np)
  BY <1>1, ResolutionsGood
<1>3. CallResolve(r, x, jobs, stack) /\ UNCHANGED <<np, nr, reg>>
  BY DEF ScriptResolves
<1>4. Kept
  BY <1>1, <1>2, <1>3, ResolveStep
<1>5. Counted
  BY <1>1, CountedKept DEF ScriptResolves, Resolution
<1> QED
  BY <1>4, <1>5

\* Script code rejects.
LEMMA ScriptRejectsKeeps ==
  ASSUME Inv, NEW r \in 1 .. nr, ScriptRejects(r)
  PROVE  Kept /\ Counted
<1>1. TypeOK /\ Ready(jobs, stack, r)
  BY InvReady
<1>2. Error \in GoodValues(np)
  BY PromisesAssumption, PlainValues
<1>3. CallReject(r, Error, jobs) /\ stack' = stack /\ UNCHANGED <<np, nr, reg>>
  BY DEF ScriptRejects
<1>4. Kept
  BY <1>1, <1>2, <1>3, RejectStep
<1>5. Counted
  BY <1>1, CountedKept DEF ScriptRejects
<1> QED
  BY <1>4, <1>5

\* The innermost frame is good, and without it only its functions may be lost.
LEMMA TopFacts ==
  ASSUME Inv, stack # << >>
  PROVE  /\ Top \in GoodFrames(np, records, nr)
         /\ Tail(stack) \in Seq(Frames)
         /\ HiddenPart(jobs, Tail(stack), Top.rec)
         /\ Top.kind # "getter" => Ready(jobs, Tail(stack), Top.rec)
<1>1. TypeOK /\ PromisePart(jobs) /\ ControlPart(records, nr, jobs, stack, 0)
      /\ HiddenPart(jobs, stack, 0)
  BY DEF Inv
<1>2. nr \in Nat /\ jobs \in Seq(Job) /\ stack \in Seq(Frames)
  BY <1>1, Bounds
<1>3. Len(stack) \in Nat /\ 1 \in 1 .. Len(stack) /\ Top = stack[1] /\ Tail(stack) \in Seq(Frames)
  BY <1>2 DEF Top
<1>4. \A i \in 1 .. Len(stack) : stack[i] \in GoodFrames(np, records, nr)
  BY <1>1, <1>2, ControlFacts
<1>5. Top \in GoodFrames(np, records, nr)
  BY <1>3, <1>4
<1>6. HiddenPart(jobs, Tail(stack), Top.rec)
  <2> SUFFICES ASSUME NEW r \in 1 .. nr, ~ records[r].exposed, ~ records[r].alreadyResolved,
                      r # Top.rec
               PROVE  HeldAt(r, jobs, Tail(stack))
    BY DEF HiddenPart
  <2>1. HeldAt(r, jobs, stack)
    BY <1>1 DEF HiddenPart
  <2>2. CASE \E i \in 1 .. Len(stack) : stack[i].rec = r
    <3>1. PICK i \in 1 .. Len(stack) : stack[i].rec = r
      BY <2>2
    <3>2. i # 1
      BY <1>3, <3>1
    <3>3. i - 1 \in 1 .. Len(Tail(stack)) /\ Tail(stack)[i - 1] = stack[i]
      BY <1>2, <1>3, <3>2
    <3> QED
      BY <3>1, <3>3 DEF HeldAt
  <2> QED
    BY <2>1, <2>2 DEF HeldAt
<1>7. ASSUME Top.kind # "getter"
      PROVE  Ready(jobs, Tail(stack), Top.rec)
  <2>1. ControlPart(records, nr, jobs, Tail(stack), 0)
    BY <1>1, <1>2, <1>7, PopFrame DEF Top
  <2> QED
    BY <1>1, <1>6, <2>1 DEF Ready
<1> QED
  BY <1>3, <1>5, <1>6, <1>7

\* The frames of scripts, executors and then methods end quietly.
LEMMA QuietEnds ==
  ASSUME Inv, stack # << >>, Top.kind \in {"script", "executor", "then"}, stack' = Tail(stack),
         KeepPromises, UNCHANGED <<np, nr, records, jobs, reg, ran, follows, ops>>
  PROVE  Kept /\ Counted
<1>1. Top \in GoodFrames(np, records, nr) /\ Ready(jobs, Tail(stack), Top.rec)
  BY TopFacts
<1>2. Top.rec \in 1 .. nr => records[Top.rec].exposed
  BY <1>1 DEF GoodFrames
<1>3. PICK r : r = Top.rec
  OBVIOUS
<1>4. Kept
  BY <1>1, <1>2, <1>3, QuietStep
<1>5. Counted
  BY CountedKept DEF Inv
<1> QED
  BY <1>4, <1>5

\* An executor or a then method throws.
LEMMA CalleeThrowsKeeps ==
  ASSUME Inv, CalleeThrows
  PROVE  Kept /\ Counted
<1>1. Top \in GoodFrames(np, records, nr) /\ Ready(jobs, Tail(stack), Top.rec)
  BY TopFacts DEF CalleeThrows
<1>2. PICK r \in 1 .. nr : r = Top.rec
  <2>1. nr \in Nat /\ Top.rec \in 0 .. nr /\ Top.rec # 0
    BY <1>1, Bounds DEF Inv, GoodFrames, CalleeThrows
  <2> QED
    BY <2>1
<1>3. Error \in GoodValues(np)
  BY PromisesAssumption, PlainValues
<1>4. Kept
  BY <1>1, <1>2, <1>3, RejectStep DEF CalleeThrows
<1>5. Counted
  BY CountedKept DEF Inv, CalleeThrows
<1> QED
  BY <1>4, <1>5

\* A handler returns.
LEMMA HandlerReturnsKeeps ==
  ASSUME Inv, NEW x \in Resolutions, HandlerReturns(x)
  PROVE  Kept /\ Counted
<1>1. Top \in GoodFrames(np, records, nr) /\ Ready(jobs, Tail(stack), Top.rec)
  BY TopFacts DEF HandlerReturns
<1>2. x \in GoodValues(np)
  BY ResolutionsGood DEF Inv
<1>3. Counted
  BY CountedKept DEF Inv, HandlerReturns, Resolution
<1>4. PICK r \in 0 .. nr : r = Top.rec
  BY <1>1 DEF GoodFrames
<1>5. CASE r = 0
  <2>1. r \notin 1 .. nr
    BY <1>5
  <2>2. /\ jobs' = jobs /\ stack' = Tail(stack) /\ KeepPromises
        /\ UNCHANGED <<np, nr, reg, records, follows>>
    BY <1>4, <1>5 DEF HandlerReturns
  <2>3. Ready(jobs, Tail(stack), r)
    BY <1>1, <1>4
  <2> QED
    BY <1>3, <2>1, <2>2, <2>3, QuietStep
<1>6. CASE r # 0
  <2>1. r \in 1 .. nr
    BY <1>4, <1>6, Bounds DEF Inv
  <2> QED
    BY <1>1, <1>2, <1>3, <1>4, <1>6, <2>1, ResolveStep DEF HandlerReturns
<1> QED
  BY <1>5, <1>6

\* A handler throws.
LEMMA HandlerThrowsKeeps ==
  ASSUME Inv, HandlerThrows
  PROVE  Kept /\ Counted
<1>1. Top \in GoodFrames(np, records, nr) /\ Ready(jobs, Tail(stack), Top.rec)
  BY TopFacts DEF HandlerThrows
<1>2. Error \in GoodValues(np)
  BY PromisesAssumption, PlainValues
<1>3. Counted
  BY CountedKept DEF Inv, HandlerThrows
<1>4. PICK r \in 0 .. nr : r = Top.rec
  BY <1>1 DEF GoodFrames
<1>5. CASE r = 0
  <2>1. r \notin 1 .. nr
    BY <1>5
  <2>2. /\ jobs' = jobs /\ stack' = Tail(stack) /\ KeepPromises
        /\ UNCHANGED <<np, nr, reg, records, follows>>
    BY <1>4, <1>5 DEF HandlerThrows
  <2>3. Ready(jobs, Tail(stack), r)
    BY <1>1, <1>4
  <2> QED
    BY <1>3, <2>1, <2>2, <2>3, QuietStep
<1>6. CASE r # 0
  <2>1. r \in 1 .. nr
    BY <1>4, <1>6, Bounds DEF Inv
  <2> QED
    BY <1>1, <1>2, <1>3, <1>4, <1>6, <2>1, RejectStep DEF HandlerThrows
<1> QED
  BY <1>5, <1>6

\* A native handler has returned.
LEMMA NativeReturnsKeeps ==
  ASSUME Inv, NativeReturns
  PROVE  Kept /\ Counted
<1>1. Top \in GoodFrames(np, records, nr) /\ Ready(jobs, Tail(stack), Top.rec)
  BY TopFacts DEF NativeReturns
<1>2. PICK r \in 1 .. nr : r = Top.rec
  <2>1. nr \in Nat /\ Top.rec \in 0 .. nr /\ Top.rec # 0
    BY <1>1, Bounds DEF Inv, GoodFrames, NativeReturns
  <2> QED
    BY <2>1
<1>3. Primitive \in GoodValues(np)
  BY PromisesAssumption, PlainValues
<1>4. Kept
  BY <1>1, <1>2, <1>3, ResolveStep DEF NativeReturns
<1>5. Counted
  BY CountedKept DEF Inv, NativeReturns
<1> QED
  BY <1>4, <1>5

\* The getter of an accessor ends, and promiseResolveFunctions with it.
LEMMA GetterEndsKeeps ==
  ASSUME Inv, GetterEnds
  PROVE  Kept /\ Counted
<1>1. /\ Top \in GoodFrames(np, records, nr) /\ Tail(stack) \in Seq(Frames)
      /\ HiddenPart(jobs, Tail(stack), Top.rec)
  BY TopFacts DEF GetterEnds
<1>2. /\ TypeOK /\ PromisePart(jobs) /\ ControlPart(records, nr, jobs, stack, 0)
      /\ 0 \notin Created
  BY DEF Inv, Created
<1>3. /\ np \in Nat /\ nr \in Nat /\ np <= MaxPromises /\ MaxPromises \in Nat
      /\ Created \subseteq Promises /\ jobs \in Seq(Job)
  BY <1>2, Bounds
<1>4. PICK p0 : p0 = records[Top.rec].promise
  OBVIOUS
<1>5. PICK s : s = Tail(stack)
  OBVIOUS
<1>6. PICK v \in GoodValues(np) : v = Top.value
  BY <1>1 DEF GoodFrames
<1>7. ControlPart(records, nr, jobs, s, p0) /\ p0 \in Created /\ state[p0] = "Pending"
  BY <1>2, <1>3, <1>4, <1>5, PopGetter DEF GetterEnds, Top
<1>8. records' = records /\ stack' = s /\ UNCHANGED <<np, nr, reg, follows>>
  BY <1>5 DEF GetterEnds
<1>9. ASSUME Carried(jobs, s)
      PROVE  HiddenPart(jobs, stack, 0)'
  <2>1. records[Top.rec].alreadyResolved
    BY <1>1 DEF GoodFrames, GetterEnds
  <2>2. \A i \in 1 .. nr' : ~ records'[i].exposed /\ ~ records'[i].alreadyResolved =>
          i \in 1 .. nr /\ ~ records[i].exposed /\ ~ records[i].alreadyResolved /\ i # Top.rec
    BY <1>8, <2>1
  <2>3. Created \subseteq Created'
    BY <1>8 DEF Created
  <2>4. PICK r : r = Top.rec
    OBVIOUS
  <2> QED
    BY <1>1, <1>5, <1>9, <2>2, <2>3, <2>4, HiddenNext
<1>10. records' \in RecordTable /\ stack' \in Seq(Frames) /\ follows' \in [Promises -> 0 .. MaxPromises]
  BY <1>1, <1>2, <1>5, <1>8 DEF TypeOK, RecordTable
<1>11. ASSUME NEW w \in GoodValues(np), Fulfill(p0, w, jobs) \/ Reject(p0, w, jobs)
       PROVE  Kept
  <2>1. /\ Grows /\ PromisePart(jobs)' /\ PromiseTypes'
        /\ ControlPart(records, nr, jobs, stack, 0)' /\ Carried(jobs, s)
    BY <1>1, <1>2, <1>5, <1>7, <1>8, <1>11, SettleStep
  <2> QED
    BY <1>9, <1>10, <2>1 DEF Kept
<1>12. ASSUME jobs' = Append(jobs, ThenableJob(p0, v)), KeepPromises
       PROVE  Kept
  <2>1. PICK j : j = ThenableJob(p0, v)
    OBVIOUS
  <2>2. j \in GoodJobs /\ j \in Job /\ j.kind = "thenable" /\ j.promise = p0
    BY <1>3, <1>6, <1>7, <2>1, ThenableGood
  <2>3. jobs' \in Seq(GoodJobs)
    BY <1>2, <1>12, <2>1, <2>2 DEF PromisePart
  <2>4. Grows /\ PromisePart(jobs)' /\ PromiseTypes'
    BY <1>2, <1>3, <1>8, <1>12, <2>3, KeepPart
  <2>5. ControlPart(records, nr, Append(jobs, j), s, 0)
    BY <1>2, <1>3, <1>7, <2>2, QueueThenable
  <2>6. ControlPart(records, nr, jobs, stack, 0)'
    <3>1. ControlPart(records', nr', jobs', stack', 0)
      BY <1>8, <1>12, <2>1, <2>5
    <3>2. UNCHANGED <<np, state>>
      BY <1>8, <1>12 DEF KeepPromises
    <3> QED
      BY <3>1, <3>2, ControlKept
  <2>7. Carried(jobs, s)
    <3>1. UNCHANGED <<fulfillReactions, rejectReactions>>
      BY <1>12 DEF KeepPromises
    <3>2. s \in Seq(Frames) /\ jobs' = Append(jobs, j)
      BY <1>1, <1>5, <1>12, <2>1
    <3> QED
      BY <1>3, <1>8, <2>2, <3>1, <3>2, CarriedKept
  <2> QED
    BY <1>9, <1>10, <2>4, <2>6, <2>7 DEF Kept
<1>13. Kept
  <2>1. Error \in GoodValues(np)
    BY PromisesAssumption, PlainValues
  <2> QED
    BY <1>4, <1>6, <1>11, <1>12, <2>1 DEF GetterEnds
<1>14. Counted
  BY CountedKept DEF Inv, GetterEnds
<1> QED
  BY <1>13, <1>14

\* Only a script or the shell is on the stack, or nothing.
LEMMA RestartKeeps ==
  ASSUME Inv, stack = << >> \/ Top.kind \in {"prompt", "script"},
         NEW kind \in {"prompt", "script"}, stack' = <<Frame(kind, 0, Primitive)>>,
         KeepPromises, UNCHANGED <<np, nr, records, jobs, reg, ran, follows, ops>>
  PROVE  Kept /\ Counted
<1>1. TypeOK /\ PromisePart(jobs) /\ ControlPart(records, nr, jobs, stack, 0)
      /\ jobs \in Seq(GoodJobs)
  BY DEF Inv, PromisePart
<1>2. /\ np \in Nat /\ nr \in Nat /\ np <= MaxPromises /\ jobs \in Seq(Job)
      /\ stack \in Seq(Frames) /\ MaxRecords \in Nat
  BY <1>1, Bounds
<1>3. ControlPart(records, nr, jobs, << >>, 0) /\ HiddenPart(jobs, << >>, 0)
  <2>1. CASE stack = << >>
    BY <1>1, <2>1 DEF Inv
  <2>2. CASE stack # << >> /\ Top.kind \in {"prompt", "script"}
    <3>1. Top \in GoodFrames(np, records, nr) /\ Ready(jobs, Tail(stack), Top.rec)
      BY <2>2, TopFacts
    <3>2. Top.rec = 0
      BY <2>2, <3>1 DEF GoodFrames
    <3>3. Len(stack) = 1
      BY <1>1, <1>2, <2>2 DEF ControlPart, OneScript, Top
    <3>4. Tail(stack) = << >>
      <4>1. Tail(stack) \in Seq(Frames) /\ Len(Tail(stack)) = 0
        BY <1>2, <2>2, <3>3
      <4> QED
        BY <4>1, EmptySeq
    <3> QED
      BY <3>1, <3>2, <3>4 DEF Ready
  <2> QED
    BY <2>1, <2>2
<1>4. PICK f : f = Frame(kind, 0, Primitive)
  OBVIOUS
<1>5. /\ f \in Frames /\ f \in GoodFrames(np, records, nr)
      /\ f.kind \in {"prompt", "script"} /\ f.rec = 0
  <2>1. Primitive \in GoodValues(np) /\ Primitive \in Values
    BY PromisesAssumption, PlainValues DEF GoodValues
  <2>2. f.kind = kind /\ f.rec = 0 /\ f.value = Primitive
    BY <1>4 DEF Frame
  <2>3. f \in Frames
    BY <1>2, <1>4, <2>1 DEF Frame, Frames
  <2> QED
    BY <1>2, <2>1, <2>2, <2>3 DEF GoodFrames
<1>6. stack' = <<f>> \o << >> /\ stack' = <<f>>
  BY <1>4, <1>5
<1>7. ControlPart(records, nr, jobs, stack', 0)
  <2>1. \A p : Cardinality(Positions(stack', Fetching(records, p))) =
                 Cardinality(Positions(<< >>, Fetching(records, p)))
    <3>1. << >> \in Seq(Frames)
      OBVIOUS
    <3>2. \A p : Cardinality(Positions(<<f>> \o << >>, Fetching(records, p))) =
                   Cardinality(Positions(<< >>, Fetching(records, p)))
                     + (IF f.kind = "getter" /\ records[f.rec].promise = p THEN 1 ELSE 0)
      BY <1>5, <3>1, FramePushed
    <3>3. \A p : Cardinality(Positions(<< >>, Fetching(records, p))) \in Nat
      BY <3>1, PositionsFinite
    <3> QED
      BY <1>5, <1>6, <3>2, <3>3
  <2>2. \A p : Owners(records, nr, jobs, stack', p) = Owners(records, nr, jobs, << >>, p)
    BY <2>1 DEF Owners
  <2>3. stack' \in Seq(GoodFrames(np, records, nr)) /\ OneScript(stack')
    BY <1>5, <1>6 DEF OneScript
  <2> QED
    BY <1>3, <2>2, <2>3 DEF ControlPart
<1>8. ControlPart(records, nr, jobs, stack, 0)'
  <2>1. ControlPart(records', nr', jobs', stack', 0)
    BY <1>7
  <2>2. UNCHANGED <<np, state>>
    BY DEF KeepPromises
  <2> QED
    BY <2>1, <2>2, ControlKept
<1>9. Grows /\ PromisePart(jobs)' /\ PromiseTypes'
  BY <1>1, <1>2, KeepPart
<1>10. HiddenPart(jobs, stack, 0)'
  <2>1. Carried(jobs, << >>)
    <3>1. UNCHANGED <<fulfillReactions, rejectReactions>>
      BY DEF KeepPromises
    <3>2. << >> \in Seq(Frames)
      OBVIOUS
    <3> QED
      BY <1>2, <1>5, <1>6, <3>1, <3>2, CarriedKept
  <2>2. \A i \in 1 .. nr' : ~ records'[i].exposed /\ ~ records'[i].alreadyResolved =>
          i \in 1 .. nr /\ ~ records[i].exposed /\ ~ records[i].alreadyResolved /\ i # 0
    BY <1>2
  <2>3. Created \subseteq Created'
    BY DEF Created
  <2> QED
    BY <1>3, <2>1, <2>2, <2>3, HiddenNext
<1>11. records' \in RecordTable /\ stack' \in Seq(Frames) /\ follows' \in [Promises -> 0 .. MaxPromises]
  BY <1>1, <1>5, <1>6 DEF TypeOK, RecordTable
<1>12. Counted
  BY <1>1, CountedKept
<1> QED
  BY <1>8, <1>9, <1>10, <1>11, <1>12 DEF Kept

\* The table with a new pair of functions.
LEMMA TableMade ==
  ASSUME NEW recs \in RecordTable, NEW n \in Nat, n + 1 <= MaxRecords, MaxRecords \in Nat,
         NEW p0 \in 0 .. MaxPromises, NEW e \in BOOLEAN
  PROVE  /\ MadeIn(recs, n + 1, p0, e) \in RecordTable
         /\ \A i \in 1 .. n : MadeIn(recs, n + 1, p0, e)[i] = recs[i]
         /\ MadeIn(recs, n + 1, p0, e)[n + 1] = Record(p0, e)
<1>1. n + 1 \in Records /\ 1 .. n \subseteq Records /\ \A i \in 1 .. n : i # n + 1
  BY DEF Records
<1>2. Record(p0, e) \in [promise : 0 .. MaxPromises, alreadyResolved : BOOLEAN, exposed : BOOLEAN]
  BY DEF Record
<1> QED
  BY <1>1, <1>2 DEF MadeIn, RecordTable

\* A promise is made with functions for an executor.
LEMMA NewPromiseKeeps ==
  ASSUME Inv, NewPromise
  PROVE  Kept /\ Counted
<1>1. /\ TypeOK /\ PromisePart(jobs) /\ ControlPart(records, nr, jobs, stack, 0)
      /\ HiddenPart(jobs, stack, 0) /\ jobs \in Seq(GoodJobs) /\ Fresh
  BY DEF Inv, PromisePart
<1>2. /\ np \in Nat /\ nr \in Nat /\ np <= MaxPromises /\ nr \in 0 .. MaxRecords
      /\ MaxRecords \in Nat /\ MaxPromises \in Nat /\ jobs \in Seq(Job) /\ stack \in Seq(Frames)
      /\ records \in RecordTable
  BY <1>1, Bounds
<1>3. /\ nr + 1 <= MaxRecords /\ np < MaxPromises /\ np' = np + 1 /\ nr' = nr + 1
      /\ jobs' = jobs /\ KeepPromises /\ UNCHANGED <<reg, ran, follows>> /\ Operation
      /\ records' = MadeIn(records, nr + 1, np + 1, TRUE)
  BY DEF NewPromise, Room, MadeIn
<1>4. PICK e \in BOOLEAN : e = TRUE
  BY Zenon
<1>5. /\ records' \in RecordTable
      /\ \A i \in 1 .. nr : records'[i] = records[i]
      /\ records'[nr + 1] = Record(np + 1, e)
  <2>1. PICK p0 \in 0 .. MaxPromises : p0 = np + 1
    BY <1>2, <1>3
  <2>2. records' = MadeIn(records, nr + 1, p0, e)
    BY <1>3, <1>4, <2>1
  <2>3. /\ records' \in RecordTable
        /\ \A i \in 1 .. nr : records'[i] = records[i]
        /\ records'[nr + 1] = Record(p0, e)
    <3>1. nr \in Nat /\ nr + 1 <= MaxRecords /\ MaxRecords \in Nat /\ records \in RecordTable
      BY <1>2, <1>3
    <3>2. /\ MadeIn(records, nr + 1, p0, e) \in RecordTable
          /\ \A i \in 1 .. nr : MadeIn(records, nr + 1, p0, e)[i] = records[i]
          /\ MadeIn(records, nr + 1, p0, e)[nr + 1] = Record(p0, e)
      BY ONLY <3>1, TableMade, e \in BOOLEAN, p0 \in 0 .. MaxPromises
    <3> QED
      BY <2>2, <3>2
  <2> QED
    BY <2>1, <2>3
<1>6. PICK f : f = Frame("executor", nr + 1, Primitive)
  OBVIOUS
<1>7. /\ f \in Frames /\ f \in GoodFrames(np + 1, records', nr + 1) /\ f.kind = "executor"
  <2>1. Primitive \in GoodValues(np) /\ Primitive \in Values
    BY PromisesAssumption, PlainValues DEF GoodValues
  <2>2. Primitive \in GoodValues(np + 1)
    BY <2>1 DEF GoodValues, Primitive
  <2>3. f.kind = "executor" /\ f.rec = nr + 1 /\ f.value = Primitive
    BY <1>6 DEF Frame
  <2>4. f \in Frames
    BY <1>2, <1>3, <1>6, <2>1 DEF Frame, Frames
  <2>5. records'[nr + 1].exposed
    BY <1>4, <1>5 DEF Record
  <2> QED
    BY <1>2, <2>2, <2>3, <2>4, <2>5 DEF GoodFrames
<1>8. stack' = <<f>> \o stack
  BY <1>6 DEF NewPromise
<1>9. Grows /\ PromisePart(jobs)' /\ PromiseTypes'
  <2>1. np' \in Nat /\ np <= np' /\ np' <= MaxPromises /\ nr' \in Nat /\ nr <= nr' /\ jobs' \in Seq(GoodJobs)
    BY <1>1, <1>2, <1>3
  <2> QED
    BY <1>1, <1>3, <2>1, KeepPart
<1>10. ControlPart(records, nr, jobs, stack, 0)'
  <2>1. PICK s1 : s1 = <<f>> \o stack
    OBVIOUS
  <2>2. Entered(stack, s1, records', nr + 1)
    BY <1>7, <2>1 DEF Entered
  <2>3. \A i \in 1 .. Len(jobs) : jobs[i].kind = "thenable" => jobs[i].promise \in Created
    BY <1>1 DEF GoodJobs
  <2>4. state[np + 1] = "Pending"
    BY <1>1, <1>2, <1>3 DEF Fresh, Promises, Created
  <2>5. UNCHANGED state
    BY <1>3 DEF KeepPromises
  <2>6. np \in 0 .. MaxPromises
    BY <1>2
  <2> QED
    BY <1>1, <1>2, <1>3, <1>4, <1>8, <2>1, <2>2, <2>3, <2>4, <2>5, <2>6, MakePromise
<1>11. HiddenPart(jobs, stack, 0)'
  <2>1. Carried(jobs, stack)
    <3>1. UNCHANGED <<fulfillReactions, rejectReactions>>
      BY <1>3 DEF KeepPromises
    <3> QED
      BY <1>2, <1>3, <1>7, <1>8, <3>1, CarriedKept
  <2>2. \A i \in 1 .. nr' : ~ records'[i].exposed /\ ~ records'[i].alreadyResolved =>
          i \in 1 .. nr /\ ~ records[i].exposed /\ ~ records[i].alreadyResolved /\ i # 0
    <3>1. records'[nr + 1].exposed
      BY <1>4, <1>5 DEF Record
    <3>2. \A i \in 1 .. nr' : i \in 1 .. nr \/ i = nr + 1
      BY <1>2, <1>3
    <3> QED
      BY <1>5, <3>1, <3>2
  <2>3. Created \subseteq Created'
    BY <1>2, <1>3 DEF Created
  <2> QED
    BY <1>1, <2>1, <2>2, <2>3, HiddenNext
<1>12. stack' \in Seq(Frames) /\ follows' \in [Promises -> 0 .. MaxPromises]
  BY <1>1, <1>2, <1>3, <1>7, <1>8 DEF TypeOK
<1>13. Counted
  <2>1. np' \in 0 .. MaxPromises /\ nr' \in 0 .. MaxRecords
    BY <1>2, <1>3
  <2>2. ops \in Nat /\ reg \in Seq(Promises) /\ ran \subseteq Nat
    BY <1>1 DEF TypeOK
  <2>3. ops' \in Nat
    BY <1>3, <2>2 DEF Operation
  <2> QED
    BY <1>3, <2>1, <2>2, <2>3 DEF Counted
<1> QED
  BY <1>5, <1>9, <1>10, <1>11, <1>12, <1>13 DEF Kept

\* What then() has done: it kept a pair of reactions, or queued the job of one.
Reacted(p, onF, onR, cap, q) ==
    \/ /\ jobs' = q
       /\ fulfillReactions' = [fulfillReactions EXCEPT ![p] = Append(@, Reacts(p, onF, cap))]
       /\ rejectReactions' = [rejectReactions EXCEPT ![p] = Append(@, Reacts(p, onR, cap))]
    \/ /\ UNCHANGED <<fulfillReactions, rejectReactions>>
       /\ \E j \in Job, h \in {onF, onR} :
            jobs' = Append(q, j) /\ j.kind = "reaction" /\ j.reaction = Reacts(p, h, cap)

\* The queue q, perhaps with the job of a reaction.
Longer(q, q1) == q1 = q \/ \E j \in Job : j.kind = "reaction" /\ q1 = Append(q, j)

\* A reaction settles nothing.
LEMMA LongerControl ==
  ASSUME NEW recs, NEW n \in Nat, NEW q \in Seq(Job), NEW s, NEW p0,
         ControlPart(recs, n, q, s, p0), NEW q1, Longer(q, q1),
         \A i \in 1 .. Len(q) : q[i].kind = "thenable" => q[i].promise \in Created
  PROVE  /\ q1 \in Seq(Job) /\ ControlPart(recs, n, q1, s, p0)
         /\ \A i \in 1 .. Len(q1) : q1[i].kind = "thenable" => q1[i].promise \in Created
<1>1. CASE q1 = q
  BY <1>1
<1>2. ASSUME NEW j \in Job, j.kind = "reaction", q1 = Append(q, j)
      PROVE  /\ q1 \in Seq(Job) /\ ControlPart(recs, n, q1, s, p0)
             /\ \A i \in 1 .. Len(q1) : q1[i].kind = "thenable" => q1[i].promise \in Created
  <2>1. PICK t : t = <<j>>
    OBVIOUS
  <2>2. t \in Seq(Job) /\ q1 = q \o t /\ \A i \in 1 .. Len(t) : t[i].kind = "reaction"
    BY <1>2, <2>1
  <2>3. ControlPart(recs, n, q1, s, p0)
    BY <2>2, QueueReactions
  <2>4. Len(q) \in Nat /\ Len(q1) = Len(q) + 1 /\ q1[Len(q) + 1] = j
        /\ \A i \in 1 .. Len(q) : q1[i] = q[i]
    BY <1>2
  <2> QED
    BY <1>2, <2>3, <2>4
<1> QED
  BY <1>1, <1>2 DEF Longer

\* The functions of the reaction are held, and so are those that were.
LEMMA ReactedHolds ==
  ASSUME TypeOK, NEW q \in Seq(Job), NEW s \in Seq(Frames), NEW p \in Created, NEW onF, NEW onR, NEW cap,
         Reacting, Reacted(p, onF, onR, cap, q), stack' = s, Created \subseteq Created'
  PROVE  /\ Carried(q, s) /\ Longer(q, jobs')
         /\ \A r : r = cap \/ (onF.rec = r /\ onR.rec = r) => HeldAt(r, jobs, stack)'
<1>1. Created \subseteq Promises
  BY Bounds
<1>2. CASE UNCHANGED <<fulfillReactions, rejectReactions>>
             /\ \E j \in Job, h \in {onF, onR} :
                  jobs' = Append(q, j) /\ j.kind = "reaction" /\ j.reaction = Reacts(p, h, cap)
  <2>1. PICK j \in Job, h \in {onF, onR} :
          jobs' = Append(q, j) /\ j.kind = "reaction" /\ j.reaction = Reacts(p, h, cap)
    BY <1>2
  <2>2. Carried(q, s)
    BY <1>2, <2>1, CarriedKept
  <2>3. Longer(q, jobs')
    BY <2>1 DEF Longer
  <2>4. Len(q) \in Nat /\ Len(q) + 1 \in 1 .. Len(jobs') /\ jobs'[Len(q) + 1] = j
    BY <2>1
  <2>5. \A r : r = cap \/ (onF.rec = r /\ onR.rec = r) => Holds(j.reaction, r)
    BY <2>1 DEF Holds, Reacts, Reaction
  <2> QED
    BY <2>2, <2>3, <2>4, <2>5 DEF HeldAt
<1>3. CASE /\ jobs' = q
           /\ fulfillReactions' = [fulfillReactions EXCEPT ![p] = Append(@, Reacts(p, onF, cap))]
           /\ rejectReactions' = [rejectReactions EXCEPT ![p] = Append(@, Reacts(p, onR, cap))]
  <2>1. PICK F \in Seq(Reactions) : F = fulfillReactions[p]
    BY <1>1 DEF TypeOK
  <2>2. PICK R \in Seq(Reactions) : R = rejectReactions[p]
    BY <1>1 DEF TypeOK
  <2>3. Len(F) = Len(R) /\ Len(F) \in Nat
    BY <1>1, <2>1, <2>2 DEF Reacting
  <2>4. /\ fulfillReactions'[p] = Append(F, Reacts(p, onF, cap))
        /\ rejectReactions'[p] = Append(R, Reacts(p, onR, cap))
    BY <1>1, <1>3, <2>1, <2>2 DEF TypeOK
  <2>5. Len(F) + 1 \in 1 .. Len(fulfillReactions'[p])
        /\ \A i \in 1 .. Len(F) : i \in 1 .. Len(fulfillReactions'[p])
    BY <2>3, <2>4
  <2>6. /\ fulfillReactions'[p][Len(F) + 1] = Reacts(p, onF, cap)
        /\ rejectReactions'[p][Len(F) + 1] = Reacts(p, onR, cap)
    BY <2>3, <2>4
  <2>7. \A i \in 1 .. Len(F) : fulfillReactions'[p][i] = F[i] /\ rejectReactions'[p][i] = R[i]
    BY <2>3, <2>4
  <2>8. Carried(q, s)
    <3>1. ASSUME NEW z \in Created, NEW i \in 1 .. Len(fulfillReactions[z])
          PROVE  /\ i \in 1 .. Len(fulfillReactions'[z])
                 /\ fulfillReactions'[z][i] = fulfillReactions[z][i]
                 /\ rejectReactions'[z][i] = rejectReactions[z][i]
      <4>1. CASE z = p
        BY <2>1, <2>2, <2>5, <2>7, <4>1
      <4>2. CASE z # p
        BY <1>1, <1>3, <4>2 DEF TypeOK
      <4> QED
        BY <4>1, <4>2
    <3> QED
      BY <1>3, <3>1 DEF Carried
  <2>9. \A r : r = cap \/ (onF.rec = r /\ onR.rec = r) =>
           Holds(fulfillReactions'[p][Len(F) + 1], r) /\ Holds(rejectReactions'[p][Len(F) + 1], r)
    BY <2>6 DEF Holds, Reacts, Reaction
  <2>10. \A r : r = cap \/ (onF.rec = r /\ onR.rec = r) => HeldAt(r, jobs, stack)'
    BY <2>5, <2>9 DEF HeldAt
  <2> QED
    BY <1>3, <2>8, <2>10 DEF Longer
<1> QED
  BY <1>2, <1>3 DEF Reacted

\* Then() makes the derived promise, its functions and the reaction.
LEMMA ThenKeeps ==
  ASSUME Inv, NEW p \in Created, NEW call \in ThenCalls, Then(p, call)
  PROVE  Kept /\ Counted
<1>1. /\ TypeOK /\ PromisePart(jobs) /\ ControlPart(records, nr, jobs, stack, 0)
      /\ HiddenPart(jobs, stack, 0) /\ jobs \in Seq(GoodJobs) /\ Fresh /\ Reacting
  BY DEF Inv, PromisePart
<1>2. /\ np \in Nat /\ nr \in Nat /\ np <= MaxPromises /\ nr \in 0 .. MaxRecords
      /\ MaxRecords \in Nat /\ MaxPromises \in Nat /\ jobs \in Seq(Job) /\ stack \in Seq(Frames)
      /\ records \in RecordTable
  BY <1>1, Bounds
<1>3. /\ nr + 1 <= MaxRecords /\ np < MaxPromises /\ np' = np + 1 /\ nr' = nr + 1
      /\ UNCHANGED <<stack, ran, follows>> /\ Operation
  BY DEF Then, Room
<1>4. PICK e \in BOOLEAN : e = FALSE
  BY Zenon
<1>5. records' = MadeIn(records, nr + 1, np + 1, e)
  BY <1>4 DEF Then, MadeIn
<1>6. /\ records' \in RecordTable
      /\ \A i \in 1 .. nr : records'[i] = records[i]
  <2>1. PICK p0 \in 0 .. MaxPromises : p0 = np + 1
    BY <1>2, <1>3
  <2>2. nr \in Nat /\ nr + 1 <= MaxRecords /\ MaxRecords \in Nat /\ records \in RecordTable
    BY <1>2, <1>3
  <2>3. /\ MadeIn(records, nr + 1, p0, e) \in RecordTable
        /\ \A i \in 1 .. nr : MadeIn(records, nr + 1, p0, e)[i] = records[i]
    BY ONLY <2>2, TableMade, e \in BOOLEAN, p0 \in 0 .. MaxPromises
  <2> QED
    BY <1>5, <2>1, <2>3
<1>7. PICK onF : onF = HandlerFor(call[1], "Identity")
  OBVIOUS
<1>8. PICK onR : onR = HandlerFor(call[2], "Thrower")
  OBVIOUS
<1>9. PICK cap : cap = nr + 1
  OBVIOUS
<1>10. PerformThen(p, onF, onR, cap, jobs)
  BY <1>7, <1>8, <1>9 DEF Then
<1>11. Suits(onF, FulfillKinds, cap, nr') /\ Suits(onR, RejectKinds, cap, nr')
  <2>1. onF \in {Plain("User"), Plain("Identity")} /\ onR \in {Plain("User"), Plain("Thrower")}
    BY <1>7, <1>8 DEF HandlerFor
  <2>2. cap \in 0 .. nr' /\ cap # 0 /\ 0 \in 0 .. nr'
    BY <1>2, <1>3, <1>9
  <2>3. onF \in Handlers /\ onF.rec = 0 /\ onF.kind \in {"User", "Identity"}
    BY <1>2, <2>1 DEF Plain, Handlers
  <2>4. onR \in Handlers /\ onR.rec = 0 /\ onR.kind \in {"User", "Thrower"}
    BY <1>2, <2>1 DEF Plain, Handlers
  <2> QED
    BY <2>2, <2>3, <2>4 DEF Suits, FulfillKinds, RejectKinds
<1>12. np' \in Nat /\ np <= np' /\ np' <= MaxPromises /\ nr' \in Nat /\ nr <= nr' /\ nr' <= MaxRecords
  BY <1>2, <1>3
<1>13. /\ Grows /\ PromisePart(jobs)' /\ PromiseTypes' /\ reg' \in Seq(Promises) /\ state' = state
       /\ Reacted(p, onF, onR, cap, jobs)
  BY <1>1, <1>10, <1>11, <1>12, ThenPart DEF Reacted
<1>14. Created \subseteq Created'
  BY <1>2, <1>3 DEF Created
<1>15. Carried(jobs, stack) /\ Longer(jobs, jobs') /\ HeldAt(cap, jobs, stack)'
  BY <1>1, <1>2, <1>3, <1>13, <1>14, ReactedHolds
<1>16. ControlPart(records, nr, jobs, stack, 0)'
  <2>1. \A i \in 1 .. Len(jobs) : jobs[i].kind = "thenable" => jobs[i].promise \in Created
    BY <1>1 DEF GoodJobs
  <2>2. PICK q1 : q1 = jobs'
    OBVIOUS
  <2>3. Longer(jobs, q1)
    BY <1>15, <2>2
  <2>4. /\ q1 \in Seq(Job) /\ ControlPart(records, nr, q1, stack, 0)
        /\ \A i \in 1 .. Len(q1) : q1[i].kind = "thenable" => q1[i].promise \in Created
    BY <1>1, <1>2, <2>1, <2>3, LongerControl
  <2>5. state[np + 1] = "Pending"
    BY <1>1, <1>2, <1>3 DEF Fresh, Promises, Created
  <2>6. PICK s1 : s1 = stack
    OBVIOUS
  <2>7. Entered(stack, s1, records', nr + 1) /\ np \in 0 .. MaxPromises
    BY <1>2, <2>6 DEF Entered
  <2> QED
    BY <1>2, <1>3, <1>5, <1>13, <2>2, <2>4, <2>5, <2>6, <2>7, MakePromise
<1>17. HiddenPart(jobs, stack, 0)'
  <2>1. \A i \in 1 .. nr' : ~ records'[i].exposed /\ ~ records'[i].alreadyResolved =>
          \/ i \in 1 .. nr /\ ~ records[i].exposed /\ ~ records[i].alreadyResolved /\ i # 0
          \/ HeldAt(i, jobs, stack)'
    <3>1. \A i \in 1 .. nr' : (i \in 1 .. nr /\ i # 0) \/ i = cap
      BY <1>2, <1>3, <1>9
    <3> QED
      BY <1>6, <1>15, <3>1
  <2> QED
    BY <1>1, <1>14, <1>15, <2>1, HiddenNext
<1>18. stack' \in Seq(Frames) /\ follows' \in [Promises -> 0 .. MaxPromises]
  BY <1>1, <1>3 DEF TypeOK
<1>19. Counted
  <2>1. np' \in 0 .. MaxPromises /\ nr' \in 0 .. MaxRecords
    BY <1>2, <1>3
  <2>2. ops \in Nat /\ ran \subseteq Nat
    BY <1>1 DEF TypeOK
  <2>3. ops' \in Nat
    BY <1>3, <2>2 DEF Operation
  <2> QED
    BY <1>3, <1>13, <2>1, <2>2, <2>3 DEF Counted
<1> QED
  BY <1>6, <1>13, <1>16, <1>17, <1>18, <1>19 DEF Kept

\* An await makes a reaction without functions.
LEMMA AwaitKeeps ==
  ASSUME Inv, NEW p \in Created, Await(p)
  PROVE  Kept /\ Counted
<1>1. /\ TypeOK /\ PromisePart(jobs) /\ ControlPart(records, nr, jobs, stack, 0)
      /\ HiddenPart(jobs, stack, 0) /\ jobs \in Seq(GoodJobs) /\ Reacting
  BY DEF Inv, PromisePart
<1>2. /\ np \in Nat /\ nr \in Nat /\ np <= MaxPromises /\ nr <= MaxRecords
      /\ MaxRecords \in Nat /\ jobs \in Seq(Job) /\ stack \in Seq(Frames)
  BY <1>1, Bounds
<1>3. UNCHANGED <<np, nr, records, stack, ran, follows>> /\ Operation
  BY DEF Await
<1>4. PICK h : h = Plain("User")
  OBVIOUS
<1>5. PerformThen(p, h, h, 0, jobs)
  BY <1>4 DEF Await
<1>6. Suits(h, FulfillKinds, 0, nr') /\ Suits(h, RejectKinds, 0, nr')
  <2>1. h \in Handlers /\ h.rec = 0 /\ h.kind = "User" /\ 0 \in 0 .. nr'
    BY <1>2, <1>3, <1>4 DEF Plain, Handlers
  <2> QED
    BY <2>1 DEF Suits, FulfillKinds, RejectKinds
<1>7. np' \in Nat /\ np <= np' /\ np' <= MaxPromises /\ nr' \in Nat /\ nr <= nr' /\ nr' <= MaxRecords
  BY <1>2, <1>3
<1>8. /\ Grows /\ PromisePart(jobs)' /\ PromiseTypes' /\ reg' \in Seq(Promises) /\ state' = state
      /\ Reacted(p, h, h, 0, jobs)
  BY <1>1, <1>5, <1>6, <1>7, ThenPart DEF Reacted
<1>9. Created \subseteq Created'
  BY <1>3 DEF Created
<1>10. Carried(jobs, stack) /\ Longer(jobs, jobs')
  BY <1>1, <1>2, <1>3, <1>8, <1>9, ReactedHolds
<1>11. ControlPart(records, nr, jobs, stack, 0)'
  <2>1. \A i \in 1 .. Len(jobs) : jobs[i].kind = "thenable" => jobs[i].promise \in Created
    BY <1>1 DEF GoodJobs
  <2>2. PICK q1 : q1 = jobs'
    OBVIOUS
  <2>3. ControlPart(records, nr, q1, stack, 0)
    BY <1>1, <1>2, <1>10, <2>1, <2>2, LongerControl
  <2>4. ControlPart(records', nr', jobs', stack', 0) /\ UNCHANGED <<np, state>>
    BY <1>3, <1>8, <2>2, <2>3
  <2> QED
    BY <2>4, ControlKept
<1>12. HiddenPart(jobs, stack, 0)'
  <2>1. \A i \in 1 .. nr' : ~ records'[i].exposed /\ ~ records'[i].alreadyResolved =>
          i \in 1 .. nr /\ ~ records[i].exposed /\ ~ records[i].alreadyResolved /\ i # 0
    BY <1>2, <1>3
  <2> QED
    BY <1>1, <1>9, <1>10, <2>1, HiddenNext
<1>13. /\ records' \in RecordTable /\ stack' \in Seq(Frames)
       /\ follows' \in [Promises -> 0 .. MaxPromises]
  BY <1>1, <1>3 DEF TypeOK, RecordTable
<1>14. Counted
  <2>1. ops \in Nat /\ ran \subseteq Nat /\ np \in 0 .. MaxPromises /\ nr \in 0 .. MaxRecords
    BY <1>1 DEF TypeOK
  <2>2. ops' \in Nat
    BY <1>3, <2>1 DEF Operation
  <2> QED
    BY <1>3, <1>8, <2>1, <2>2 DEF Counted
<1> QED
  BY <1>8, <1>11, <1>12, <1>13, <1>14 DEF Kept

\* The job at the front, and what the rest of the queue still holds.
LEMMA JobFacts ==
  ASSUME Inv, jobs # << >>
  PROVE  /\ Head(jobs) \in GoodJobs /\ Tail(jobs) \in Seq(GoodJobs) /\ Tail(jobs) \in Seq(Job)
         /\ PromisePart(Tail(jobs))
         /\ \A r \in 1 .. nr : ~ records[r].exposed /\ ~ records[r].alreadyResolved =>
              Holds(Head(jobs).reaction, r) \/ HeldAt(r, Tail(jobs), stack)
<1>1. TypeOK /\ PromisePart(jobs) /\ HiddenPart(jobs, stack, 0) /\ jobs \in Seq(GoodJobs)
  BY DEF Inv, PromisePart
<1>2. Head(jobs) \in GoodJobs /\ Tail(jobs) \in Seq(GoodJobs) /\ Len(jobs) \in Nat
  BY <1>1
<1>3. Tail(jobs) \in Seq(Job)
  BY <1>2, GoodTyped, SeqSubset
<1>4. PromisePart(Tail(jobs))
  BY <1>1, <1>2 DEF PromisePart
<1>5. ASSUME NEW r \in 1 .. nr, ~ records[r].exposed, ~ records[r].alreadyResolved,
             ~ Holds(Head(jobs).reaction, r)
      PROVE  HeldAt(r, Tail(jobs), stack)
  <2>1. HeldAt(r, jobs, stack)
    <3>1. nr \in Nat /\ r # 0
      BY <1>1, Bounds
    <3> QED
      BY <1>1, <1>5, <3>1 DEF HiddenPart
  <2>2. CASE \E i \in 1 .. Len(jobs) : Holds(jobs[i].reaction, r)
    <3>1. PICK i \in 1 .. Len(jobs) : Holds(jobs[i].reaction, r)
      BY <2>2
    <3>2. Head(jobs) = jobs[1]
      BY <1>1
    <3>3. i # 1
      BY <1>5, <3>1, <3>2
    <3>4. i - 1 \in 1 .. Len(Tail(jobs)) /\ Tail(jobs)[i - 1] = jobs[i]
      BY <1>1, <1>2, <3>3
    <3> QED
      BY <3>1, <3>4 DEF HeldAt
  <2> QED
    BY <2>1, <2>2 DEF HeldAt
<1> QED
  BY <1>2, <1>3, <1>4, <1>5

\* What a reaction job has when it is taken from the queue.
LEMMA ReactionFacts ==
  ASSUME Inv, NextJob("reaction"), NEW x, x = Head(jobs).reaction
  PROVE  /\ x.id \in Nat /\ x.cap \in 0 .. nr /\ x.handler.rec \in 0 .. nr
         /\ x.handler.kind # "User" => x.cap # 0
         /\ x.handler.kind \in {"Resolve", "Reject"} <=> x.handler.rec # 0
         /\ Head(jobs).argument \in GoodValues(np)
<1>1. jobs # << >> /\ Head(jobs).kind = "reaction"
  BY DEF NextJob
<1>2. Head(jobs) \in GoodJobs
  BY <1>1, JobFacts
<1>3. PICK p \in Created : Delivers(Head(jobs), p)
  BY <1>1, <1>2 DEF GoodJobs
<1>4. PICK kinds : x \in GoodReactions(p, kinds)
  BY <1>3 DEF Delivers
<1>5. Head(jobs).argument \in GoodValues(np)
  <2>1. p \in Promises
    BY Bounds DEF Inv
  <2> QED
    BY <1>3, <2>1 DEF Delivers, Inv, PromisePart
<1>6. x.id \in Nat
  BY <1>4 DEF GoodReactions, Reactions
<1> QED
  BY <1>4, <1>5, <1>6 DEF GoodReactions

\* The functions a reaction job is about to use are the only ones that may be lost.
LEMMA ReactionReady ==
  ASSUME Inv, NextJob("reaction"), NEW x, x = Head(jobs).reaction, NEW s, NEW r0,
         \/ s = << >> /\ r0 = x.cap /\ x.handler.rec = 0
         \/ /\ r0 = x.handler.rec
            /\ \E f \in GoodFrames(np, records, nr) :
                 f.kind \in {"handler", "native"} /\ f.rec = x.cap /\ s = <<f>>
  PROVE  Ready(Tail(jobs), s, r0)
<1>1. stack = << >> /\ jobs # << >> /\ Head(jobs).kind = "reaction"
  BY DEF NextJob
<1>2. TypeOK /\ ControlPart(records, nr, jobs, stack, 0)
  BY DEF Inv
<1>3. nr \in Nat /\ jobs \in Seq(Job)
  BY <1>2, Bounds
<1>4. /\ Tail(jobs) \in Seq(Job) /\ PromisePart(Tail(jobs))
      /\ \A r \in 1 .. nr : ~ records[r].exposed /\ ~ records[r].alreadyResolved =>
           Holds(Head(jobs).reaction, r) \/ HeldAt(r, Tail(jobs), stack)
  BY <1>1, JobFacts
<1>5. PICK s0 : s0 = << >>
  OBVIOUS
<1>6. ControlPart(records, nr, Tail(jobs), s0, 0)
  BY <1>1, <1>2, <1>3, <1>5, TakeReaction
<1>7. CASE s = << >> /\ r0 = x.cap /\ x.handler.rec = 0
  <2>1. HiddenPart(Tail(jobs), s, r0)
    <3>1. \A r \in 1 .. nr : r # r0 => ~ Holds(Head(jobs).reaction, r)
      BY <1>3, <1>7 DEF Holds
    <3> QED
      BY <1>1, <1>4, <1>7, <3>1 DEF HiddenPart
  <2> QED
    BY <1>2, <1>4, <1>5, <1>6, <1>7, <2>1 DEF Ready
<1>8. ASSUME NEW f \in GoodFrames(np, records, nr), f.kind \in {"handler", "native"},
             f.rec = x.cap, s = <<f>>, r0 = x.handler.rec
      PROVE  Ready(Tail(jobs), s, r0)
  <2>1. s = <<f>> \o s0 /\ Len(s) = 1 /\ s[1] = f
    BY <1>5, <1>8
  <2>2. ControlPart(records, nr, Tail(jobs), <<f>> \o s0, 0)
    BY <1>3, <1>4, <1>6, <1>8, PushFrame
  <2>3. HiddenPart(Tail(jobs), s, r0)
    <3> SUFFICES ASSUME NEW r \in 1 .. nr, ~ records[r].exposed, ~ records[r].alreadyResolved, r # r0
                 PROVE  HeldAt(r, Tail(jobs), s)
      BY DEF HiddenPart
    <3>1. CASE r = x.cap
      BY <1>8, <2>1, <3>1 DEF HeldAt
    <3>2. CASE r # x.cap
      <4>1. ~ Holds(Head(jobs).reaction, r)
        BY <1>8, <3>2 DEF Holds
      <4>2. HeldAt(r, Tail(jobs), << >>)
        BY <1>1, <1>4, <4>1
      <4> QED
        BY <4>2 DEF HeldAt
    <3> QED
      BY <3>1, <3>2
  <2> QED
    BY <1>2, <1>4, <2>1, <2>2, <2>3 DEF Ready
<1> QED
  BY <1>7, <1>8

\* A reaction job is run.
LEMMA ReactionJobKeeps ==
  ASSUME Inv, RunReactionJob
  PROVE  Kept /\ Counted
<1>1. NextJob("reaction") /\ UNCHANGED <<np, nr, reg, ops>>
  BY DEF RunReactionJob
<1>2. PICK x : x = Head(jobs).reaction
  OBVIOUS
<1>3. PICK a : a = Head(jobs).argument
  OBVIOUS
<1>4. /\ x.id \in Nat /\ x.cap \in 0 .. nr /\ x.handler.rec \in 0 .. nr
      /\ x.handler.kind # "User" => x.cap # 0
      /\ x.handler.kind \in {"Resolve", "Reject"} <=> x.handler.rec # 0
      /\ a \in GoodValues(np)
  BY <1>1, <1>2, <1>3, ReactionFacts
<1>5. TypeOK /\ nr \in Nat /\ nr <= MaxRecords /\ MaxRecords \in Nat
  BY Bounds DEF Inv
<1>6. PICK q : q = Tail(jobs)
  OBVIOUS
<1>7. Counted
  BY <1>1, <1>2, <1>4, <1>5, CountedKept DEF RunReactionJob
<1>8. PICK f : f = Frame("native", x.cap, Primitive)
  OBVIOUS
<1>9. x.cap # 0 => f \in GoodFrames(np, records, nr) /\ f.kind = "native" /\ f.rec = x.cap
  <2>1. Primitive \in GoodValues(np) /\ Primitive \in Values
    BY PromisesAssumption, PlainValues DEF GoodValues
  <2>2. f \in Frames
    BY <1>4, <1>5, <1>8, <2>1 DEF Frame, Frames
  <2>3. f.kind = "native" /\ f.rec = x.cap /\ f.value = Primitive
    BY <1>8 DEF Frame
  <2> QED
    BY <1>4, <2>1, <2>2, <2>3 DEF GoodFrames
<1>10. PICK cap : cap = x.cap
  OBVIOUS
<1>11. CASE x.handler.kind \in {"Identity", "Thrower"}
  <2>1. cap \in 1 .. nr /\ x.handler.rec = 0
    BY <1>4, <1>5, <1>10, <1>11
  <2>2. PICK s : s = << >>
    OBVIOUS
  <2>3. Ready(q, s, cap)
    BY <1>1, <1>2, <1>6, <1>10, <2>1, <2>2, ReactionReady
  <2>4. CASE x.handler.kind = "Identity"
    <3>1. CallResolve(cap, a, q, s)
      BY <1>2, <1>3, <1>6, <1>10, <2>2, <2>4 DEF RunReactionJob
    <3> QED
      BY <1>1, <1>4, <1>7, <2>1, <2>3, <3>1, ResolveStep
  <2>5. CASE x.handler.kind = "Thrower"
    <3>1. CallReject(cap, a, q) /\ stack' = s
      BY <1>2, <1>3, <1>6, <1>10, <2>2, <2>5 DEF RunReactionJob
    <3> QED
      BY <1>1, <1>4, <1>7, <2>1, <2>3, <3>1, RejectStep
  <2> QED
    BY <1>11, <2>4, <2>5
<1>12. CASE x.handler.kind = "User"
  <2>1. PICK g : g = Frame("handler", cap, a)
    OBVIOUS
  <2>2. g \in GoodFrames(np, records, nr) /\ g.kind = "handler" /\ g.rec = cap
    <3>1. a \in Values
      BY <1>4 DEF GoodValues
    <3>2. g \in Frames
      BY <1>4, <1>5, <1>10, <2>1, <3>1 DEF Frame, Frames
    <3>3. g.kind = "handler" /\ g.rec = cap /\ g.value = a
      BY <2>1 DEF Frame
    <3> QED
      BY <1>4, <1>10, <3>2, <3>3 DEF GoodFrames
  <2>3. PICK s : s = <<g>>
    OBVIOUS
  <2>4. PICK r0 : r0 = x.handler.rec
    OBVIOUS
  <2>5. Ready(q, s, r0)
    BY <1>1, <1>2, <1>6, <1>10, <2>2, <2>3, <2>4, ReactionReady
  <2>6. r0 \notin 1 .. nr
    BY <1>4, <1>12, <2>4
  <2>7. jobs' = q /\ stack' = s /\ KeepPromises /\ UNCHANGED <<records, follows>>
    BY <1>2, <1>3, <1>6, <1>10, <1>12, <2>1, <2>3 DEF RunReactionJob
  <2> QED
    BY <1>1, <1>7, <2>5, <2>6, <2>7, QuietStep
<1>13. CASE x.handler.kind \in {"Resolve", "Reject"}
  <2>1. PICK s : s = <<f>>
    OBVIOUS
  <2>2. PICK r0 \in 1 .. nr : r0 = x.handler.rec
    BY <1>4, <1>5, <1>13
  <2>3. x.cap # 0
    BY <1>4, <1>13
  <2>4. Ready(q, s, r0)
    BY <1>1, <1>2, <1>6, <1>9, <2>1, <2>2, <2>3, ReactionReady
  <2>5. CASE x.handler.kind = "Resolve"
    <3>1. CallResolve(r0, a, q, s)
      BY <1>2, <1>3, <1>6, <1>8, <2>1, <2>2, <2>5 DEF RunReactionJob
    <3> QED
      BY <1>1, <1>4, <1>7, <2>4, <3>1, ResolveStep
  <2>6. CASE x.handler.kind = "Reject"
    <3>1. CallReject(r0, a, q) /\ stack' = s
      BY <1>2, <1>3, <1>6, <1>8, <2>1, <2>2, <2>6 DEF RunReactionJob
    <3> QED
      BY <1>1, <1>4, <1>7, <2>4, <3>1, RejectStep
  <2> QED
    BY <1>13, <2>5, <2>6
<1> QED
  BY <1>2, <1>11, <1>12, <1>13 DEF RunReactionJob

\* A thenable job is taken: nothing that is hidden is lost, and its promise is left to
\* be settled.
LEMMA ThenableFacts ==
  ASSUME Inv, NextJob("thenable"), NEW q, q = Tail(jobs), NEW s, s = << >>, NEW p0,
         p0 = Head(jobs).promise
  PROVE  /\ p0 \in Created /\ state[p0] = "Pending" /\ Head(jobs).argument \in GoodValues(np)
         /\ q \in Seq(GoodJobs) /\ q \in Seq(Job) /\ PromisePart(q)
         /\ ControlPart(records, nr, q, s, p0) /\ HiddenPart(q, s, 0)
<1>1. stack = << >> /\ jobs # << >> /\ Head(jobs).kind = "thenable"
  BY DEF NextJob
<1>2. TypeOK /\ ControlPart(records, nr, jobs, s, 0) /\ 0 \notin Created
  BY <1>1 DEF Inv, Created
<1>3. nr \in Nat /\ jobs \in Seq(Job)
  BY <1>2, Bounds
<1>4. /\ Head(jobs) \in GoodJobs /\ q \in Seq(GoodJobs) /\ q \in Seq(Job) /\ PromisePart(q)
      /\ \A r \in 1 .. nr : ~ records[r].exposed /\ ~ records[r].alreadyResolved =>
           Holds(Head(jobs).reaction, r) \/ HeldAt(r, q, s)
  BY <1>1, JobFacts
<1>5. Head(jobs).reaction = NoReaction /\ p0 \in Created /\ Head(jobs).argument \in GoodValues(np)
  BY <1>1, <1>4 DEF GoodJobs
<1>6. ControlPart(records, nr, q, s, p0) /\ state[p0] = "Pending"
  BY <1>1, <1>2, <1>3, <1>5, TakeThenable
<1>7. HiddenPart(q, s, 0)
  <2>1. \A r \in 1 .. nr : ~ Holds(Head(jobs).reaction, r)
    BY <1>3, <1>5 DEF Holds, NoReaction, Reaction, Plain
  <2> QED
    BY <1>4, <2>1 DEF HiddenPart
<1> QED
  BY <1>4, <1>5, <1>6, <1>7

\* The then method of a script gets new functions.
LEMMA UserThenKeeps ==
  ASSUME Inv, RunThenableJob, Head(jobs).argument.type # "promise"
  PROVE  Kept /\ Counted
<1>1. /\ NextJob("thenable") /\ nr + 1 <= MaxRecords /\ nr' = nr + 1 /\ KeepPromises
      /\ UNCHANGED <<np, reg, ran, follows, ops>>
  <2>1. nr \in Nat /\ MaxRecords \in Nat
    BY Bounds DEF Inv
  <2>2. nr + 2 <= MaxRecords
    BY DEF RunThenableJob, Room
  <2>3. nr + 1 <= MaxRecords
    BY <2>1, <2>2
  <2>4. nr' = nr + 1 /\ KeepPromises /\ UNCHANGED <<np, reg>>
    BY DEF RunThenableJob
  <2> QED
    BY <2>3, <2>4 DEF RunThenableJob
<1>2. PICK q : q = Tail(jobs)
  OBVIOUS
<1>3. PICK s : s = << >>
  OBVIOUS
<1>4. PICK p0 : p0 = Head(jobs).promise
  OBVIOUS
<1>5. /\ p0 \in Created /\ state[p0] = "Pending"
      /\ q \in Seq(GoodJobs) /\ q \in Seq(Job) /\ PromisePart(q)
      /\ ControlPart(records, nr, q, s, p0) /\ HiddenPart(q, s, 0)
  BY <1>1, <1>2, <1>3, <1>4, ThenableFacts
<1>6. /\ TypeOK /\ np \in Nat /\ nr \in Nat /\ np <= MaxPromises /\ nr \in 0 .. MaxRecords
      /\ MaxRecords \in Nat /\ MaxPromises \in Nat /\ records \in RecordTable
      /\ Created \subseteq Promises
  BY Bounds DEF Inv
<1>7. PICK e \in BOOLEAN : e = TRUE
  BY Zenon
<1>8. PICK next : next = MadeIn(records, nr + 1, p0, e)
  OBVIOUS
<1>9. /\ records' = next /\ jobs' = q /\ stack' = <<Frame("then", nr + 1, Primitive)>>
  BY <1>2, <1>4, <1>7, <1>8 DEF RunThenableJob, MadeIn
<1>10. p0 \in 0 .. MaxPromises /\ np \in 0 .. MaxPromises
  BY <1>5, <1>6 DEF Promises
<1>11. /\ next \in RecordTable
       /\ \A i \in 1 .. nr : next[i] = records[i]
       /\ next[nr + 1] = Record(p0, e)
  <2>1. nr \in Nat /\ nr + 1 <= MaxRecords /\ MaxRecords \in Nat /\ records \in RecordTable
    BY <1>1, <1>6
  <2>2. /\ MadeIn(records, nr + 1, p0, e) \in RecordTable
        /\ \A i \in 1 .. nr : MadeIn(records, nr + 1, p0, e)[i] = records[i]
        /\ MadeIn(records, nr + 1, p0, e)[nr + 1] = Record(p0, e)
    BY ONLY <1>10, <2>1, TableMade, e \in BOOLEAN
  <2> QED
    BY <1>8, <2>2
<1>12. next[nr + 1].exposed
  BY <1>7, <1>11 DEF Record
<1>13. ControlPart(next, nr + 1, q, s, 0)
  <2>1. nr + 1 <= MaxRecords
    BY <1>1
  <2> QED
    BY <1>5, <1>6, <1>8, <1>10, <2>1, MakePair
<1>14. PICK f : f = Frame("then", nr + 1, Primitive)
  OBVIOUS
<1>15. f \in Frames /\ f \in GoodFrames(np, next, nr + 1) /\ f.kind = "then"
  <2>1. Primitive \in GoodValues(np) /\ Primitive \in Values
    BY PromisesAssumption, PlainValues DEF GoodValues
  <2>2. f.kind = "then" /\ f.rec = nr + 1 /\ f.value = Primitive
    BY <1>14 DEF Frame
  <2>3. f \in Frames
    BY <1>1, <1>6, <1>14, <2>1 DEF Frame, Frames
  <2> QED
    BY <1>6, <1>12, <2>1, <2>2, <2>3 DEF GoodFrames
<1>16. stack' = <<f>> \o s /\ s \in Seq(Frames)
  BY <1>3, <1>9, <1>14
<1>17. ControlPart(records, nr, jobs, stack, 0)'
  <2>1. nr + 1 \in Nat
    BY <1>6
  <2>2. ControlPart(next, nr + 1, q, <<f>> \o s, 0)
    BY <1>5, <1>13, <1>15, <2>1, PushFrame
  <2>3. ControlPart(records', nr', jobs', stack', 0)
    BY <1>1, <1>9, <1>16, <2>2
  <2>4. UNCHANGED <<np, state>>
    BY <1>1 DEF KeepPromises
  <2> QED
    BY <2>3, <2>4, ControlKept
<1>18. Grows /\ PromisePart(jobs)' /\ PromiseTypes'
  <2>1. np' \in Nat /\ np <= np' /\ np' <= MaxPromises /\ nr' \in Nat /\ nr <= nr' /\ UNCHANGED reg
    BY <1>1, <1>6
  <2> QED
    BY <1>1, <1>5, <1>6, <1>9, <2>1, KeepPart
<1>19. HiddenPart(jobs, stack, 0)'
  <2>1. Carried(q, s)
    <3>1. UNCHANGED <<fulfillReactions, rejectReactions>>
      BY <1>1 DEF KeepPromises
    <3> QED
      BY <1>5, <1>9, <1>15, <1>16, <3>1, CarriedKept
  <2>2. \A i \in 1 .. nr' : ~ records'[i].exposed /\ ~ records'[i].alreadyResolved =>
          i \in 1 .. nr /\ ~ records[i].exposed /\ ~ records[i].alreadyResolved /\ i # 0
    <3>1. \A i \in 1 .. nr' : (i \in 1 .. nr /\ i # 0) \/ i = nr + 1
      BY <1>1, <1>6
    <3> QED
      BY <1>9, <1>11, <1>12, <3>1
  <2>3. Created \subseteq Created'
    BY <1>1 DEF Created
  <2> QED
    BY <1>5, <2>1, <2>2, <2>3, HiddenNext
<1>20. stack' \in Seq(Frames) /\ follows' \in [Promises -> 0 .. MaxPromises]
  BY <1>1, <1>6, <1>15, <1>16 DEF TypeOK
<1>21. Counted
  <2>1. nr' \in 0 .. MaxRecords
    BY <1>1, <1>6
  <2> QED
    BY <1>1, <1>6, <1>10, <2>1 DEF Counted, TypeOK
<1> QED
  BY <1>9, <1>11, <1>17, <1>18, <1>19, <1>20, <1>21 DEF Kept

\* A promise follows another: new functions, the promise that the built-in then makes
\* and its functions, and the reaction.
LEMMA FollowKeeps ==
  ASSUME Inv, RunThenableJob, Head(jobs).argument.type = "promise"
  PROVE  Kept /\ Counted
<1>1. /\ TypeOK /\ np \in Nat /\ nr \in Nat /\ np <= MaxPromises /\ nr \in 0 .. MaxRecords
      /\ MaxRecords \in Nat /\ MaxPromises \in Nat /\ records \in RecordTable
      /\ Created \subseteq Promises
  BY Bounds DEF Inv
<1>2. /\ NextJob("thenable") /\ np < MaxPromises /\ nr + 2 <= MaxRecords
      /\ np' = np + 1 /\ nr' = nr + 2 /\ UNCHANGED <<stack, ran, follows, ops>>
  BY DEF RunThenableJob, Room
<1>3. PICK q : q = Tail(jobs)
  OBVIOUS
<1>4. PICK s : s = << >>
  OBVIOUS
<1>5. PICK p0 : p0 = Head(jobs).promise
  OBVIOUS
<1>6. PICK z : z = Head(jobs).argument.promise
  OBVIOUS
<1>7. /\ p0 \in Created /\ state[p0] = "Pending" /\ z \in Created
      /\ q \in Seq(GoodJobs) /\ q \in Seq(Job) /\ PromisePart(q) /\ Fresh /\ Reacting
      /\ ControlPart(records, nr, q, s, p0) /\ HiddenPart(q, s, 0)
  <2>1. /\ p0 \in Created /\ state[p0] = "Pending" /\ Head(jobs).argument \in GoodValues(np)
        /\ q \in Seq(GoodJobs) /\ q \in Seq(Job) /\ PromisePart(q)
        /\ ControlPart(records, nr, q, s, p0) /\ HiddenPart(q, s, 0)
    BY <1>2, <1>3, <1>4, <1>5, ThenableFacts
  <2>2. z \in Created
    BY <1>6, <2>1 DEF GoodValues, Created
  <2> QED
    BY <2>1, <2>2 DEF PromisePart
<1>8. PICK e \in BOOLEAN : e = FALSE
  BY Zenon
<1>9. p0 \in 0 .. MaxPromises /\ np \in 0 .. MaxPromises
  BY <1>1, <1>7 DEF Promises
<1>10. PICK p1 \in 0 .. MaxPromises : p1 = np + 1
  BY <1>1, <1>2
<1>11. PICK n \in 0 .. MaxRecords : n = nr + 1
  BY <1>1, <1>2
<1>12. n \in Nat /\ n + 1 <= MaxRecords /\ nr + 1 <= MaxRecords /\ n + 1 = nr + 2
  BY <1>1, <1>2, <1>11
<1>13. PICK mid : mid = MadeIn(records, nr + 1, p0, e)
  OBVIOUS
<1>14. mid \in RecordTable /\ \A i \in 1 .. nr : mid[i] = records[i]
  <2>1. /\ MadeIn(records, nr + 1, p0, e) \in RecordTable
        /\ \A i \in 1 .. nr : MadeIn(records, nr + 1, p0, e)[i] = records[i]
    BY ONLY <1>1, <1>9, <1>12, TableMade, e \in BOOLEAN
  <2> QED
    BY <1>13, <2>1
<1>15. records' = MadeIn(mid, n + 1, np + 1, e)
  BY <1>2, <1>5, <1>8, <1>11, <1>12, <1>13 DEF RunThenableJob, MadeIn
<1>16. records' \in RecordTable /\ \A i \in 1 .. nr : records'[i] = records[i]
  <2>1. /\ MadeIn(mid, n + 1, p1, e) \in RecordTable
        /\ \A i \in 1 .. n : MadeIn(mid, n + 1, p1, e)[i] = mid[i]
    BY ONLY <1>1, <1>12, <1>14, TableMade, e \in BOOLEAN, p1 \in 0 .. MaxPromises
  <2>2. 1 .. nr \subseteq 1 .. n
    BY <1>1, <1>11
  <2> QED
    BY <1>10, <1>14, <1>15, <2>1, <2>2
<1>17. PICK onF : onF = [kind |-> "Resolve", rec |-> nr + 1]
  OBVIOUS
<1>18. PICK onR : onR = [kind |-> "Reject", rec |-> nr + 1]
  OBVIOUS
<1>19. PICK cap : cap = nr + 2
  OBVIOUS
<1>20. PerformThen(z, onF, onR, cap, q)
  BY <1>3, <1>6, <1>17, <1>18, <1>19 DEF RunThenableJob
<1>21. Suits(onF, FulfillKinds, cap, nr') /\ Suits(onR, RejectKinds, cap, nr')
  <2>1. cap \in 0 .. nr' /\ cap # 0 /\ nr + 1 \in 0 .. nr' /\ nr + 1 # 0 /\ nr + 1 \in 0 .. MaxRecords
    BY <1>1, <1>2, <1>19
  <2>2. onF \in Handlers /\ onF.rec = nr + 1 /\ onF.kind = "Resolve"
    BY <1>17, <2>1 DEF Handlers
  <2>3. onR \in Handlers /\ onR.rec = nr + 1 /\ onR.kind = "Reject"
    BY <1>18, <2>1 DEF Handlers
  <2> QED
    BY <2>1, <2>2, <2>3 DEF Suits, FulfillKinds, RejectKinds
<1>22. np' \in Nat /\ np <= np' /\ np' <= MaxPromises /\ nr' \in Nat /\ nr <= nr' /\ nr' <= MaxRecords
  BY <1>1, <1>2
<1>23. /\ Grows /\ PromisePart(jobs)' /\ PromiseTypes' /\ reg' \in Seq(Promises) /\ state' = state
       /\ Reacted(z, onF, onR, cap, q)
  BY <1>1, <1>7, <1>20, <1>21, <1>22, ThenPart DEF Reacted
<1>24. Created \subseteq Created'
  BY <1>1, <1>2 DEF Created
<1>25. s \in Seq(Frames) /\ stack' = s
  BY <1>2, <1>4 DEF NextJob
<1>26. /\ Carried(q, s) /\ Longer(q, jobs')
       /\ HeldAt(cap, jobs, stack)' /\ HeldAt(n, jobs, stack)'
  <2>1. /\ Carried(q, s) /\ Longer(q, jobs')
        /\ \A r : r = cap \/ (onF.rec = r /\ onR.rec = r) => HeldAt(r, jobs, stack)'
    BY <1>1, <1>7, <1>23, <1>24, <1>25, ReactedHolds
  <2>2. onF.rec = n /\ onR.rec = n
    BY <1>11, <1>17, <1>18
  <2> QED
    BY <2>1, <2>2
<1>27. ControlPart(records, nr, jobs, stack, 0)'
  <2>1. \A i \in 1 .. Len(q) : q[i].kind = "thenable" => q[i].promise \in Created
    BY <1>7 DEF GoodJobs
  <2>2. PICK q1 : q1 = jobs'
    OBVIOUS
  <2>3. ControlPart(mid, n, q, s, 0)
    <3>1. ControlPart(mid, nr + 1, q, s, 0)
      BY <1>1, <1>7, <1>9, <1>12, <1>13, MakePair
    <3> QED
      BY <1>11, <3>1
  <2>4. Longer(q, q1)
    BY <1>26, <2>2
  <2>5. /\ q1 \in Seq(Job) /\ ControlPart(mid, n, q1, s, 0)
        /\ \A i \in 1 .. Len(q1) : q1[i].kind = "thenable" => q1[i].promise \in Created
    <3>1. q \in Seq(Job) /\ n \in Nat
      BY <1>7, <1>12
    <3> QED
      BY <2>1, <2>3, <2>4, <3>1, LongerControl
  <2>6. state[np + 1] = "Pending"
    <3>1. np + 1 \in Promises \ Created /\ Fresh
      BY <1>1, <1>2, <1>7 DEF Promises, Created
    <3> QED
      BY <3>1 DEF Fresh
  <2>7. PICK s1 : s1 = s
    OBVIOUS
  <2>8. Entered(s, s1, records', n + 1)
    BY <2>7 DEF Entered
  <2>9. np' = np + 1 /\ nr' = n + 1 /\ jobs' = q1 /\ stack' = s1 /\ np < MaxPromises
    BY <1>2, <1>12, <1>25, <2>2, <2>7
  <2> QED
    BY <1>9, <1>12, <1>14, <1>15, <1>23, <2>5, <2>6, <2>8, <2>9, MakePromise
<1>28. HiddenPart(jobs, stack, 0)'
  <2>1. \A i \in 1 .. nr' : ~ records'[i].exposed /\ ~ records'[i].alreadyResolved =>
          \/ i \in 1 .. nr /\ ~ records[i].exposed /\ ~ records[i].alreadyResolved /\ i # 0
          \/ HeldAt(i, jobs, stack)'
    <3>1. \A i \in 1 .. nr' : (i \in 1 .. nr /\ i # 0) \/ i = n \/ i = cap
      BY <1>1, <1>2, <1>11, <1>19
    <3> QED
      BY <1>16, <1>26, <3>1
  <2> QED
    BY <1>7, <1>24, <1>26, <2>1, HiddenNext
<1>29. stack' \in Seq(Frames) /\ follows' \in [Promises -> 0 .. MaxPromises]
  BY <1>1, <1>2, <1>25 DEF TypeOK
<1>30. Counted
  <2>1. np' \in 0 .. MaxPromises /\ nr' \in 0 .. MaxRecords
    BY <1>22, <1>1
  <2> QED
    BY <1>1, <1>2, <1>23, <2>1 DEF Counted, TypeOK
<1> QED
  BY <1>16, <1>23, <1>27, <1>28, <1>29, <1>30 DEF Kept

-----------------------------------------------------------------------------
(* The theorems                                                             *)

\* Init: nothing has been made.
LEMMA InitInv ==
  Init => Inv
<1> SUFFICES ASSUME Init
             PROVE  Inv
  OBVIOUS
<1>1. MaxPromises \in Nat /\ MaxRecords \in Nat /\ 0 \in 0 .. MaxPromises /\ 0 \in 0 .. MaxRecords
  BY PromisesAssumption
<1>2. np = 0 /\ nr = 0 /\ Created = {} /\ 1 .. nr = {} /\ jobs = << >> /\ reg = << >>
  BY DEF Init, Created
<1>3. Primitive \in Values /\ Primitive \in GoodValues(np)
  BY <1>1, PlainValues DEF GoodValues
<1>4. PICK f : f = Frame("prompt", 0, Primitive)
  OBVIOUS
<1>5. f \in Frames /\ f \in GoodFrames(np, records, nr) /\ stack = <<f>>
  <2>1. f.kind = "prompt" /\ f.rec = 0 /\ f.value = Primitive
    BY <1>4 DEF Frame
  <2>2. f \in Frames
    BY <1>1, <1>3, <1>4 DEF Frame, Frames
  <2>3. stack = <<f>>
    BY <1>4 DEF Init
  <2> QED
    BY <1>2, <1>3, <2>1, <2>2, <2>3 DEF GoodFrames
<1>6. TypeOK
  <2>1. records \in RecordTable
    <3>1. Record(0, FALSE) \in [promise : 0 .. MaxPromises, alreadyResolved : BOOLEAN,
                                exposed : BOOLEAN]
      BY <1>1 DEF Record
    <3> QED
      BY <3>1 DEF Init, RecordTable
  <2>2. stack \in Seq(Frames)
    BY <1>5
  <2>3. np \in 0 .. MaxPromises /\ nr \in 0 .. MaxRecords /\ ops \in Nat
    BY <1>1 DEF Init
  <2>4. state \in [Promises -> States] /\ result \in [Promises -> Values]
    BY <1>3 DEF Init, States
  <2>5. /\ fulfillReactions \in [Promises -> Seq(Reactions)]
        /\ rejectReactions \in [Promises -> Seq(Reactions)]
    BY DEF Init
  <2>6. jobs \in Seq(Job) /\ unhandled \subseteq Promises /\ reg \in Seq(Promises) /\ ran \subseteq Nat
    BY DEF Init
  <2>7. follows \in [Promises -> 0 .. MaxPromises]
    BY <1>1 DEF Init
  <2> QED
    BY <2>1, <2>2, <2>3, <2>4, <2>5, <2>6, <2>7 DEF TypeOK, RecordTable
<1>7. PromisePart(jobs)
  <2>1. \A p \in Promises : result[p] \in GoodValues(np)
    BY <1>3 DEF Init
  <2>2. jobs \in Seq(GoodJobs) /\ \A i \in 1 .. Len(reg) : reg[i] \in Created
    BY <1>2
  <2>3. Fresh /\ Reacting /\ Unasked /\ UnhandledExact
    BY <1>2 DEF Init, Fresh, Reacting, Unasked, UnhandledExact
  <2> QED
    BY <2>1, <2>2, <2>3 DEF PromisePart
<1>8. ControlPart(records, nr, jobs, stack, 0)
  BY <1>2, <1>5 DEF ControlPart, OneScript
<1>9. HiddenPart(jobs, stack, 0)
  BY <1>2 DEF HiddenPart
<1> QED
  BY <1>6, <1>7, <1>8, <1>9 DEF Inv

\* Every step of the system keeps the invariant and takes nothing back.
LEMMA NextInv ==
  ASSUME Inv, Next
  PROVE  Inv' /\ Grows
<1>1. ASSUME NewPromise PROVE Kept /\ Counted
  BY <1>1, NewPromiseKeeps
<1>2. ASSUME NEW p \in Created, Await(p) PROVE Kept /\ Counted
  BY <1>2, AwaitKeeps
<1>3. ASSUME NEW p \in Created, NEW call \in ThenCalls, Then(p, call) PROVE Kept /\ Counted
  BY <1>3, ThenKeeps
<1>4. ASSUME NEW r \in 1 .. nr, ScriptRejects(r) PROVE Kept /\ Counted
  BY <1>4, ScriptRejectsKeeps
<1>5. ASSUME NEW r \in 1 .. nr, NEW x \in Resolutions, ScriptResolves(r, x) PROVE Kept /\ Counted
  BY <1>5, ScriptResolvesKeeps
<1>6. ASSUME ScriptEnds \/ CalleeReturns PROVE Kept /\ Counted
  BY <1>6, QuietEnds DEF ScriptEnds, CalleeReturns
<1>7. ASSUME ScriptThrows PROVE Kept /\ Counted
  BY <1>7, RestartKeeps DEF ScriptThrows
<1>8. ASSUME CalleeThrows PROVE Kept /\ Counted
  BY <1>8, CalleeThrowsKeeps
<1>9. ASSUME NEW x \in Resolutions, HandlerReturns(x) PROVE Kept /\ Counted
  BY <1>9, HandlerReturnsKeeps
<1>10. ASSUME HandlerThrows PROVE Kept /\ Counted
  BY <1>10, HandlerThrowsKeeps
<1>11. ASSUME NativeReturns PROVE Kept /\ Counted
  BY <1>11, NativeReturnsKeeps
<1>12. ASSUME GetterEnds PROVE Kept /\ Counted
  BY <1>12, GetterEndsKeeps
<1>13. ASSUME RunReactionJob PROVE Kept /\ Counted
  BY <1>13, ReactionJobKeeps
<1>14. ASSUME RunThenableJob PROVE Kept /\ Counted
  BY <1>14, UserThenKeeps, FollowKeeps
<1>15. ASSUME EvalScript PROVE Kept /\ Counted
  <2>1. stack = << >> \/ Top.kind \in {"prompt", "script"}
    BY <1>15 DEF EvalScript
  <2>2. PICK kind \in {"prompt", "script"} : kind = "script"
    OBVIOUS
  <2> QED
    BY <1>15, <2>1, <2>2, RestartKeeps DEF EvalScript
<1>16. Kept /\ Counted
  BY <1>1, <1>2, <1>3, <1>4, <1>5, <1>6, <1>7, <1>8, <1>9, <1>10, <1>11, <1>12, <1>13, <1>14, <1>15
     DEF Next, Script, FrameEnds, RunJob
<1> QED
  BY <1>16, KeptInv

\* A step that changes nothing keeps it too.
LEMMA StutterInv ==
  ASSUME Inv, UNCHANGED vars
  PROVE  Inv'
<1>1. TypeOK'
  BY DEF vars, Inv, TypeOK
<1>2. PromisePart(jobs)'
  <2>1. TypeOK /\ PromisePart(jobs) /\ KeepPromises /\ UNCHANGED <<np, nr, reg, jobs>>
    BY DEF Inv, vars, KeepPromises
  <2>2. np' \in Nat /\ np <= np' /\ np' <= MaxPromises /\ nr' \in Nat /\ nr <= nr'
    BY <2>1, Bounds
  <2>3. jobs' \in Seq(GoodJobs)
    BY <2>1 DEF PromisePart
  <2> QED
    BY <2>1, <2>2, <2>3, KeepPart
<1>3. ControlPart(records, nr, jobs, stack, 0)'
  BY DEF vars, Inv, ControlPart, Created
<1>4. HiddenPart(jobs, stack, 0)'
  BY DEF vars, Inv, HiddenPart, HeldAt, Created
<1> QED
  BY <1>1, <1>2, <1>3, <1>4 DEF Inv

\* Spec keeps the inductive invariant.
THEOREM PromisesInvariance == Spec => []Inv
<1>1. Init => Inv
  BY InitInv
<1>2. Inv /\ [Next]_vars => Inv'
  BY NextInv, StutterInv
<1> QED
  BY <1>1, <1>2, PTL DEF Spec

\* Every variable has its type in every reachable state.
THEOREM PromisesTypeCorrect == Spec => []TypeOK
<1>1. Inv => TypeOK
  BY DEF Inv
<1> QED
  BY <1>1, PromisesInvariance, PTL

\* A pending promise has exactly one thing that can settle it and a settled one has
\* none, so that PromiseObject::fulfill and reject need not look at m_state.
THEOREM PromisesOneResolver == Spec => []OneResolver
<1>1. ASSUME Inv
      PROVE  OneResolver
  <2>1. TypeOK /\ ControlPart(records, nr, jobs, stack, 0) /\ 0 \notin Created
    BY <1>1 DEF Inv, Created
  <2>2. jobs \in Seq(Job) /\ stack \in Seq(Frames)
    BY <2>1, Bounds
  <2>3. ASSUME NEW p \in Created
        PROVE  /\ Unused(p) = UnusedOf(records, nr, p)
               /\ Adoptions(p) = Positions(jobs, Adopting(p))
               /\ Getters(p) = Positions(stack, Fetching(records, p))
    <3>1. \A i \in 1 .. Len(jobs) : jobs[i] \in Job
      BY <2>2
    <3>2. \A i \in 1 .. Len(stack) : stack[i] \in Frames
      BY <2>2
    <3>3. Adoptions(p) = Positions(jobs, Adopting(p))
      BY <3>1 DEF Adoptions, Positions, Adopting
    <3>4. Getters(p) = Positions(stack, Fetching(records, p))
      BY <3>2 DEF Getters, Positions, Fetching
    <3> QED
      BY <3>3, <3>4 DEF Unused, UnusedOf
  <2>4. ASSUME NEW p \in Created
        PROVE  Cardinality(Unused(p)) + Cardinality(Adoptions(p)) + Cardinality(Getters(p))
                 = IF state[p] = "Pending" THEN 1 ELSE 0
    <3>1. Owners(records, nr, jobs, stack, p) = IF state[p] = "Pending" THEN 1 ELSE 0
      BY <2>1 DEF ControlPart
    <3> QED
      BY <2>3, <3>1 DEF Owners
  <2> QED
    BY <2>4 DEF OneResolver
<1> QED
  BY <1>1, PromisesInvariance, PTL

\* No derived or adopting promise is forgotten: its hidden functions are held by a
\* reaction, a job or a frame until they are used.
THEOREM PromisesHiddenHeld == Spec => []HiddenFunctionsHeld
<1>1. ASSUME Inv
      PROVE  HiddenFunctionsHeld
  <2>1. HiddenPart(jobs, stack, 0) /\ nr \in Nat
    BY <1>1, Bounds DEF Inv
  <2> QED
    BY <2>1 DEF HiddenFunctionsHeld, HiddenPart, HeldAt, Held
<1> QED
  BY <1>1, PromisesInvariance, PTL

\* A queued reaction job carries the outcome of the promise it was made for to a
\* handler of the side on which the promise was settled.
THEOREM PromisesOutcomeDelivered == Spec => []OutcomeDelivered
<1>1. ASSUME Inv
      PROVE  OutcomeDelivered
  <2>1. jobs \in Seq(GoodJobs)
    BY <1>1 DEF Inv, PromisePart
  <2>2. ASSUME NEW i \in 1 .. Len(jobs), jobs[i].kind = "reaction"
        PROVE  /\ jobs[i].argument = result[reg[jobs[i].reaction.id]]
               /\ \/ /\ state[reg[jobs[i].reaction.id]] = "FulFilled"
                     /\ jobs[i].reaction.handler.kind \in {"Identity", "Resolve", "User"}
                  \/ /\ state[reg[jobs[i].reaction.id]] = "Rejected"
                     /\ jobs[i].reaction.handler.kind \in {"Thrower", "Reject", "User"}
    <3>1. jobs[i] \in GoodJobs
      BY <2>1
    <3>2. PICK p \in Created : Delivers(jobs[i], p)
      BY <2>2, <3>1 DEF GoodJobs
    <3>3. reg[jobs[i].reaction.id] = p
      BY <3>2 DEF Delivers, GoodReactions
    <3> QED
      BY <3>2, <3>3 DEF Delivers, GoodReactions, FulfillKinds, RejectKinds
  <2> QED
    BY <2>2 DEF OutcomeDelivered
<1> QED
  BY <1>1, PromisesInvariance, PTL

\* A host that listens to the rejection callbacks knows exactly the rejected promises
\* that then() was never called for.
THEOREM PromisesUnhandledExact == Spec => []UnhandledExact
<1>1. Inv => UnhandledExact
  BY DEF Inv, PromisePart
<1> QED
  BY <1>1, PromisesInvariance, PTL

\* A settled promise keeps its state and its result.
THEOREM PromisesSettledForever == Spec => SettledForever
<1>1. ASSUME Inv, [Next]_vars
      PROVE  [\A p \in Promises : state[p] # "Pending" =>
                state'[p] = state[p] /\ result'[p] = result[p]]_vars
  <2>1. CASE Next
    BY <1>1, <2>1, NextInv DEF Grows
  <2>2. CASE UNCHANGED vars
    BY <2>2
  <2> QED
    BY <1>1, <2>1, <2>2
<1> QED
  BY <1>1, PromisesInvariance, PTL DEF Spec, SettledForever
-----------------------------------------------------------------------------
(* A promise that follows another.  The invariant above says that a pending  *)
(* promise has one thing that can settle it; this one says, for a promise    *)
(* that was last resolved with promise q, which thing that is: a thenable    *)
(* job for q, or functions that only reactions of q can call.                *)

\* q was fulfilled with an object that has to be asked for its then once more.
AskedAgain(q) == state[q] = "FulFilled" /\ result[q].type = "accessor"

\* Reaction x does not resolve its derived promise with r, and calls r only with the
\* outcome of q.
Apart(x, r, q) == x.cap # r /\ (x.handler.rec = r => reg[x.id] = q)

\* Only the reactions of q can call the functions r.
Private(r, q) ==
    /\ ~ records[r].exposed
    /\ \A i \in 1 .. Len(stack) : stack[i].rec # r
    /\ \A i \in 1 .. Len(jobs) : Apart(jobs[i].reaction, r, q)
    /\ \A p \in Promises :
         /\ \A i \in 1 .. Len(fulfillReactions[p]) : Apart(fulfillReactions[p][i], r, q)
         /\ \A i \in 1 .. Len(rejectReactions[p]) : Apart(rejectReactions[p][i], r, q)

\* Whatever can settle p settles it with the outcome of q.
BoundTo(p, q) ==
    /\ \A i \in 1 .. Len(jobs) :
         jobs[i].kind = "thenable" /\ jobs[i].promise = p => jobs[i].argument = PromiseValue(q)
    /\ \A i \in 1 .. Len(stack) : stack[i].kind = "getter" => records[stack[i].rec].promise # p
    /\ \A r \in 1 .. nr :
         records[r].promise = p /\ ~ records[r].alreadyResolved => Private(r, q)

\* p and q ended alike.
Alike(p, q) == state[q] # "Pending" /\ state[p] = state[q] /\ result[p] = result[q]

\* p follows q, as long as q is not to be asked again.
Follows(p, q) ==
    q # 0 =>
      \/ AskedAgain(q)
      \/ state[p] = "Pending" /\ BoundTo(p, q)
      \/ state[p] # "Pending" /\ Alike(p, q)

\* Promises are fulfilled with values that are not thenables, or that turned out not to
\* be when they were asked.
PlainOutcome(p) == state[p] = "FulFilled" => result[p].type \in {"primitive", "accessor"}

Adoption ==
    /\ \A p \in Promises : PlainOutcome(p) /\ Follows(p, follows[p])
    /\ \A p \in Promises \ Created : follows[p] = 0
    /\ \A i \in 1 .. Len(stack) : stack[i].kind = "getter" => stack[i].value.type = "accessor"

\* Where a step finds the reactions, jobs and frames it leaves: p1 is the promise whose
\* functions it calls or makes, if any.
OldJob(j) == \E k \in 1 .. Len(jobs) : j = jobs[k]
OldFrame(f) == \E k \in 1 .. Len(stack) : f = stack[k]
Waiting(x) ==
    \E p \in Promises :
      \/ \E k \in 1 .. Len(fulfillReactions[p]) : x = fulfillReactions[p][k]
      \/ \E k \in 1 .. Len(rejectReactions[p]) : x = rejectReactions[p][k]
NewReaction(x) == x.cap \notin 1 .. nr /\ x.handler.rec \notin 1 .. nr
NewJob(j, p1) ==
    \/ j.kind = "reaction" /\ (Waiting(j.reaction) \/ NewReaction(j.reaction))
    \/ j.kind = "thenable" /\ j.reaction = NoReaction /\ j.promise = p1
NewFrame(f, p1) ==
    \/ f.kind # "getter" /\ f.rec \notin 1 .. nr
    \/ f.kind # "getter" /\ \E k \in 1 .. Len(jobs) : jobs[k].reaction.cap = f.rec
    \/ /\ f.kind = "getter" /\ f.value.type = "accessor"
       /\ f.rec \in 1 .. nr /\ records[f.rec].promise = p1 /\ records'[f.rec].alreadyResolved

\* What a step does to the functions: it makes some for p1 or for new promises.
Functions(p1) ==
    /\ \A r \in 1 .. nr : /\ records'[r].promise = records[r].promise
                          /\ records'[r].exposed = records[r].exposed
                          /\ records[r].alreadyResolved => records'[r].alreadyResolved
    /\ \A r \in 1 .. nr' : r \notin 1 .. nr =>
         records'[r].promise = p1 \/ records'[r].promise \notin Created

\* A step that only p1 is affected by.
Affects(p1) ==
    /\ \A p \in Promises : p # p1 =>
         state'[p] = state[p] /\ result'[p] = result[p] /\ follows'[p] = follows[p]
    /\ Functions(p1)
    /\ \A i \in 1 .. Len(jobs') : OldJob(jobs'[i]) \/ NewJob(jobs'[i], p1)
    /\ \A i \in 1 .. Len(stack') : OldFrame(stack'[i]) \/ NewFrame(stack'[i], p1)
    /\ \A p \in Promises :
         /\ \A i \in 1 .. Len(fulfillReactions'[p]) :
              Waiting(fulfillReactions'[p][i]) \/ NewReaction(fulfillReactions'[p][i])
         /\ \A i \in 1 .. Len(rejectReactions'[p]) :
              Waiting(rejectReactions'[p][i]) \/ NewReaction(rejectReactions'[p][i])

\* A reaction that is found anywhere stays apart.
LEMMA ApartKept ==
  ASSUME Inv, Grows, NEW r \in 1 .. nr, NEW q, Private(r, q), NEW x,
         \/ \E k \in 1 .. Len(jobs) : x = jobs[k].reaction
         \/ Waiting(x)
         \/ NewReaction(x)
  PROVE  Apart(x, r, q)'
<1>1. PICK r1 : r1 = r
  OBVIOUS
<1>2. TypeOK /\ Reacting /\ jobs \in Seq(GoodJobs) /\ nr \in Nat /\ Len(reg) \in Nat
  BY Bounds DEF Inv, PromisePart
<1>3. CASE NewReaction(x)
  BY <1>3 DEF NewReaction, Apart
<1>4. ASSUME Apart(x, r, q), x.handler.rec = r => x.id \in 1 .. Len(reg)
      PROVE  Apart(x, r, q)'
  BY <1>4 DEF Apart, Grows
<1>5. CASE \E k \in 1 .. Len(jobs) : x = jobs[k].reaction
  <2>1. PICK k \in 1 .. Len(jobs) : x = jobs[k].reaction
    BY <1>5
  <2>2. jobs[k] \in GoodJobs
    BY <1>2
  <2>3. Apart(x, r, q)
    BY <2>1 DEF Private
  <2>4. CASE jobs[k].kind = "reaction"
    BY <1>4, <2>1, <2>2, <2>3, <2>4 DEF GoodJobs, Delivers, GoodReactions
  <2>5. CASE jobs[k].kind # "reaction"
    <3>1. x = NoReaction
      BY <2>1, <2>2, <2>5 DEF GoodJobs
    <3>2. x.handler.rec = 0
      BY <3>1 DEF NoReaction, Reaction, Plain
    <3>3. r # 0
      BY <1>2
    <3> QED
      BY <1>4, <2>3, <3>2, <3>3
  <2> QED
    BY <2>4, <2>5
<1>6. CASE Waiting(x)
  <2>1. PICK p \in Promises : \/ \E k \in 1 .. Len(fulfillReactions[p]) : x = fulfillReactions[p][k]
                              \/ \E k \in 1 .. Len(rejectReactions[p]) : x = rejectReactions[p][k]
    BY <1>6 DEF Waiting
  <2>2. /\ fulfillReactions[p] \in Seq(GoodReactions(p, FulfillKinds))
        /\ rejectReactions[p] \in Seq(GoodReactions(p, RejectKinds))
    BY <1>2 DEF Reacting
  <2>3. PICK kinds : x \in GoodReactions(p, kinds)
    BY <2>1, <2>2
  <2>4. x.id \in 1 .. Len(reg)
    BY <2>3 DEF GoodReactions
  <2>5. Apart(x, r, q)
    BY <2>1 DEF Private
  <2> QED
    BY <1>4, <2>4, <2>5
<1> QED
  BY <1>3, <1>5, <1>6

\* Functions that only the reactions of q can call stay so.
LEMMA PrivateKept ==
  ASSUME Inv, Grows, NEW p1, Affects(p1), NEW r \in 1 .. nr, NEW q, Private(r, q),
         ~ records'[r].alreadyResolved
  PROVE  Private(r, q)'
<1>1. ~ records'[r].exposed
  BY DEF Private, Affects, Functions
<1>2. ASSUME NEW i \in 1 .. Len(stack') PROVE stack'[i].rec # r
  <2>1. OldFrame(stack'[i]) \/ NewFrame(stack'[i], p1)
    BY DEF Affects
  <2>2. CASE OldFrame(stack'[i])
    BY <2>2 DEF OldFrame, Private
  <2>3. CASE NewFrame(stack'[i], p1)
    BY <2>3 DEF NewFrame, Private, Apart
  <2> QED
    BY <2>1, <2>2, <2>3
<1>3. ASSUME NEW i \in 1 .. Len(jobs') PROVE Apart(jobs[i].reaction, r, q)'
  <2>1. OldJob(jobs'[i]) \/ NewJob(jobs'[i], p1)
    BY DEF Affects
  <2>2. PICK x : x = jobs'[i].reaction
    OBVIOUS
  <2>3. CASE OldJob(jobs'[i])
    <3>1. \E k \in 1 .. Len(jobs) : x = jobs[k].reaction
      BY <2>2, <2>3 DEF OldJob
    <3>2. Apart(x, r, q)'
      BY <3>1, ApartKept
    <3> QED
      BY <2>2, <3>2 DEF Apart
  <2>4. CASE NewJob(jobs'[i], p1)
    <3>1. Waiting(x) \/ NewReaction(x) \/ x = NoReaction
      BY <2>2, <2>4 DEF NewJob
    <3>2. NewReaction(NoReaction)
      BY Bounds DEF NewReaction, NoReaction, Reaction, Plain
    <3>3. Apart(x, r, q)'
      BY <3>1, <3>2, ApartKept
    <3> QED
      BY <2>2, <3>3 DEF Apart
  <2> QED
    BY <2>1, <2>3, <2>4
<1>4. ASSUME NEW p \in Promises, NEW i \in 1 .. Len(fulfillReactions'[p])
      PROVE  Apart(fulfillReactions[p][i], r, q)'
  <2>1. PICK x : x = fulfillReactions'[p][i]
    OBVIOUS
  <2>2. Waiting(x) \/ NewReaction(x)
    BY <2>1 DEF Affects
  <2>3. Apart(x, r, q)'
    BY <2>2, ApartKept
  <2> QED
    BY <2>1, <2>3 DEF Apart
<1>5. ASSUME NEW p \in Promises, NEW i \in 1 .. Len(rejectReactions'[p])
      PROVE  Apart(rejectReactions[p][i], r, q)'
  <2>1. PICK x : x = rejectReactions'[p][i]
    OBVIOUS
  <2>2. Waiting(x) \/ NewReaction(x)
    BY <2>1 DEF Affects
  <2>3. Apart(x, r, q)'
    BY <2>2, ApartKept
  <2> QED
    BY <2>1, <2>3 DEF Apart
<1> QED
  BY <1>1, <1>2, <1>3, <1>4, <1>5 DEF Private

\* What can settle a promise other than p1 stays bound.
LEMMA BoundKept ==
  ASSUME Inv, Grows, NEW p1, Affects(p1), NEW p \in Created, p # p1, NEW q, BoundTo(p, q)
  PROVE  BoundTo(p, q)'
<1>1. TypeOK /\ ControlPart(records, nr, jobs, stack, 0) /\ jobs \in Seq(Job) /\ nr \in Nat
  BY Bounds DEF Inv
<1>2. \A i \in 1 .. Len(stack) : stack[i].kind = "getter" => stack[i].rec \in 1 .. nr
  BY <1>1, ControlFacts
<1>3. ASSUME NEW i \in 1 .. Len(jobs'), jobs'[i].kind = "thenable", jobs'[i].promise = p
      PROVE  jobs'[i].argument = PromiseValue(q)
  <2>1. OldJob(jobs'[i]) \/ NewJob(jobs'[i], p1)
    BY DEF Affects
  <2>2. OldJob(jobs'[i])
    BY <1>3, <2>1 DEF NewJob
  <2> QED
    BY <1>3, <2>2 DEF OldJob, BoundTo
<1>4. ASSUME NEW i \in 1 .. Len(stack'), stack'[i].kind = "getter"
      PROVE  records'[stack'[i].rec].promise # p
  <2>1. OldFrame(stack'[i]) \/ NewFrame(stack'[i], p1)
    BY DEF Affects
  <2>2. CASE OldFrame(stack'[i])
    <3>1. PICK k \in 1 .. Len(stack) : stack'[i] = stack[k]
      BY <2>2 DEF OldFrame
    <3>2. stack[k].rec \in 1 .. nr /\ records[stack[k].rec].promise # p
      BY <1>2, <1>4, <3>1 DEF BoundTo
    <3> QED
      BY <3>1, <3>2 DEF Affects, Functions
  <2>3. CASE NewFrame(stack'[i], p1)
    BY <1>4, <2>3 DEF NewFrame, Affects, Functions
  <2> QED
    BY <2>1, <2>2, <2>3
<1>5. ASSUME NEW r \in 1 .. nr', records'[r].promise = p, ~ records'[r].alreadyResolved
      PROVE  Private(r, q)'
  <2>1. r \in 1 .. nr
    BY <1>5 DEF Affects, Functions
  <2>2. records[r].promise = p /\ ~ records[r].alreadyResolved
    BY <1>5, <2>1 DEF Affects, Functions
  <2>3. Private(r, q)
    BY <2>1, <2>2 DEF BoundTo
  <2> QED
    BY <1>5, <2>1, <2>3, PrivateKept
<1> QED
  BY <1>3, <1>4, <1>5 DEF BoundTo

\* A promise that was asked again stays so, and promises that ended alike do.
LEMMA OutcomesStay ==
  ASSUME Grows, NEW p \in Promises, NEW q \in Promises
  PROVE  /\ AskedAgain(q) => AskedAgain(q)'
         /\ state[p] # "Pending" /\ Alike(p, q) => state'[p] # "Pending" /\ Alike(p, q)'
  BY DEF Grows, AskedAgain, Alike

\* The invariant is kept if p1 ends like the promise it follows or stays bound to it.
LEMMA AdoptionKept ==
  ASSUME Inv, Grows, np' \in Nat, Adoption, NEW p1 \in Created \cup {0}, Affects(p1),
         p1 # 0 => PlainOutcome(p1)' /\ Follows(p1, follows[p1])'
  PROVE  Adoption'
<1>1. /\ TypeOK /\ Created \subseteq Promises /\ 0 \notin Promises
      /\ follows \in [Promises -> 0 .. MaxPromises] /\ MaxPromises \in Nat
  <2>1. TypeOK
    BY DEF Inv
  <2> QED
    BY <2>1, Bounds DEF TypeOK, Promises
<1>2. ASSUME NEW p \in Promises PROVE PlainOutcome(p)'
  <2>1. PlainOutcome(p)
    BY DEF Adoption
  <2> QED
    BY <1>1, <2>1 DEF Affects, PlainOutcome
<1>3. ASSUME NEW p \in Promises PROVE Follows(p, follows[p])'
  <2>1. CASE p = p1
    BY <1>1, <2>1
  <2>2. CASE p # p1
    <3>1. PICK q \in 0 .. MaxPromises : q = follows[p]
      BY <1>1
    <3>2. follows'[p] = q /\ state'[p] = state[p]
      BY <2>2, <3>1 DEF Affects
    <3>3. Follows(p, q)
      BY <3>1 DEF Adoption
    <3>4. Follows(p, q)'
      <4>1. CASE q = 0
        BY <4>1 DEF Follows
      <4>2. CASE q # 0
        <5>1. q \in Promises
          BY <1>1, <4>2 DEF Promises
        <5>2. p \in Created
          BY <3>1, <4>2 DEF Adoption
        <5>3. CASE AskedAgain(q)
          BY <5>1, <5>3, OutcomesStay DEF Follows
        <5>4. CASE state[p] = "Pending" /\ BoundTo(p, q)
          <6>1. BoundTo(p, q)'
            BY <2>2, <5>2, <5>4, BoundKept
          <6> QED
            BY <3>2, <5>4, <6>1 DEF Follows
        <5>5. CASE state[p] # "Pending" /\ Alike(p, q)
          BY <5>1, <5>5, OutcomesStay DEF Follows
        <5> QED
          BY <3>3, <4>2, <5>3, <5>4, <5>5 DEF Follows
      <4> QED
        BY <4>1, <4>2
    <3> QED
      BY <3>2, <3>4 DEF Follows
  <2> QED
    BY <2>1, <2>2
<1>4. ASSUME NEW p \in Promises \ Created' PROVE follows'[p] = 0
  <2>1. p \notin Created
    <3>1. np \in Nat /\ np <= np' /\ p \in Nat
      BY <1>1, Bounds DEF Promises, Grows
    <3> QED
      BY <3>1 DEF Created
  <2>2. p # p1
    BY <1>1, <2>1
  <2> QED
    BY <2>1, <2>2 DEF Adoption, Affects
<1>5. ASSUME NEW i \in 1 .. Len(stack'), stack'[i].kind = "getter"
      PROVE  stack'[i].value.type = "accessor"
  <2>1. OldFrame(stack'[i]) \/ NewFrame(stack'[i], p1)
    BY DEF Affects
  <2> QED
    BY <1>5, <2>1 DEF OldFrame, NewFrame, Adoption
<1> QED
  BY <1>2, <1>3, <1>4, <1>5 DEF Adoption

\* Nothing can settle p: all functions for it are used, no job is to adopt a thenable for
\* it and no getter runs for it.
Unowned(recs, n, q, s, p) ==
    /\ \A r \in 1 .. n : recs[r].promise = p => recs[r].alreadyResolved
    /\ \A i \in 1 .. Len(q) : ~ (q[i].kind = "thenable" /\ q[i].promise = p)
    /\ \A i \in 1 .. Len(s) : s[i].kind = "getter" => recs[s[i].rec].promise # p

\* That is so for a promise about to be settled.
LEMMA NoOwners ==
  ASSUME NEW recs, NEW n \in Nat, NEW q \in Seq(Job), NEW s, NEW p \in Created,
         ControlPart(recs, n, q, s, p)
  PROVE  Unowned(recs, n, q, s, p)
<1>1. s \in Seq(Frames)
  BY ControlFacts
<1>2. /\ Cardinality(UnusedOf(recs, n, p)) \in Nat
      /\ Cardinality(Positions(q, Adopting(p))) \in Nat
      /\ Cardinality(Positions(s, Fetching(recs, p))) \in Nat
  BY <1>1, CountsTyped
<1>3. Owners(recs, n, q, s, p) = 0
  BY DEF ControlPart
<1>4. /\ Cardinality(UnusedOf(recs, n, p)) = 0
      /\ Cardinality(Positions(q, Adopting(p))) = 0
      /\ Cardinality(Positions(s, Fetching(recs, p))) = 0
  BY <1>2, <1>3 DEF Owners
<1>5. UnusedOf(recs, n, p) = {}
  BY <1>4, UnusedFinite, FS_EmptySet
<1>6. Positions(q, Adopting(p)) = {}
  BY <1>4, PositionsFinite, FS_EmptySet
<1>7. Positions(s, Fetching(recs, p)) = {}
  BY <1>1, <1>4, PositionsFinite, FS_EmptySet
<1>8. \A i \in 1 .. Len(q) : q[i] \in Job
  OBVIOUS
<1>9. \A i \in 1 .. Len(s) : s[i] \in Frames
  BY <1>1
<1>10. \A r \in 1 .. n : recs[r].promise = p => recs[r].alreadyResolved
  BY <1>5 DEF UnusedOf
<1>11. \A i \in 1 .. Len(q) : ~ (q[i].kind = "thenable" /\ q[i].promise = p)
  BY <1>6, <1>8 DEF Positions, Adopting
<1>12. \A i \in 1 .. Len(s) : s[i].kind = "getter" => recs[s[i].rec].promise # p
  BY <1>7, <1>9 DEF Positions, Fetching
<1> QED
  BY <1>10, <1>11, <1>12 DEF Unowned

\* Using a pair changes nothing else.
LEMMA UseAffects ==
  ASSUME Inv, NEW r \in 1 .. nr, ~ records[r].alreadyResolved, records' = Used(r), nr' = nr, NEW p1
  PROVE  /\ Functions(p1)
         /\ \A i \in 1 .. nr : records'[i].alreadyResolved <=> records[i].alreadyResolved \/ i = r
<1>1. nr \in 0 .. MaxRecords /\ records \in RecordTable /\ 1 .. nr \subseteq Records
  BY Bounds DEF Inv
<1>2. records' = UsedIn(records, r)
  BY DEF Used, UsedIn
<1>4. PICK next : next = records'
  OBVIOUS
<1>5. next = UsedIn(records, r)
  BY <1>2, <1>4
<1>6. /\ \A i \in Records : next[i].promise = records[i].promise /\ next[i].exposed = records[i].exposed
      /\ \A i \in Records : next[i].alreadyResolved <=> records[i].alreadyResolved \/ i = r
  BY <1>1, <1>5, PairUsed
<1> QED
  BY <1>1, <1>4, <1>6 DEF Functions

\* The first use of a pair: its promise is pending, and nothing else can settle it.
LEMMA FirstCall ==
  ASSUME Inv, NEW r \in 1 .. nr, ~ records[r].alreadyResolved, NEW p1, p1 = records[r].promise
  PROVE  /\ p1 \in Created /\ p1 \in Promises /\ state[p1] = "Pending"
         /\ \A i \in 1 .. nr : records[i].promise = p1 => records[i].alreadyResolved \/ i = r
         /\ \A i \in 1 .. Len(jobs) : ~ (jobs[i].kind = "thenable" /\ jobs[i].promise = p1)
         /\ \A i \in 1 .. Len(stack) : stack[i].kind = "getter" => records[stack[i].rec].promise # p1
<1>1. /\ nr \in 0 .. MaxRecords /\ nr \in Nat /\ records \in RecordTable /\ 1 .. nr \subseteq Records
      /\ jobs \in Seq(Job) /\ ControlPart(records, nr, jobs, stack, 0) /\ 0 \notin Created
      /\ Created \subseteq Promises
  BY Bounds DEF Inv, Created
<1>2. PICK next : next = UsedIn(records, r)
  OBVIOUS
<1>3. ControlPart(next, nr, jobs, stack, p1) /\ p1 \in Created /\ state[p1] = "Pending"
  BY <1>1, <1>2, TakePair
<1>4. /\ \A i \in Records : next[i].promise = records[i].promise
      /\ \A i \in Records : next[i].alreadyResolved <=> records[i].alreadyResolved \/ i = r
  BY <1>1, <1>2, PairUsed
<1>5. /\ \A i \in 1 .. nr : next[i].promise = p1 => next[i].alreadyResolved
      /\ \A i \in 1 .. Len(jobs) : ~ (jobs[i].kind = "thenable" /\ jobs[i].promise = p1)
      /\ \A i \in 1 .. Len(stack) : stack[i].kind = "getter" => next[stack[i].rec].promise # p1
  <2>1. Unowned(next, nr, jobs, stack, p1)
    BY <1>1, <1>3, NoOwners
  <2> QED
    BY <2>1 DEF Unowned
<1>6. \A i \in 1 .. Len(stack) : stack[i].kind = "getter" => stack[i].rec \in 1 .. nr
  BY <1>1, ControlFacts
<1> QED
  BY <1>1, <1>3, <1>4, <1>5, <1>6

\* A stack of frames that were there, or that will call no functions, new ones or those
\* of a job.
Known(s) ==
    \A i \in 1 .. Len(s) :
      \/ OldFrame(s[i])
      \/ /\ s[i].kind # "getter"
         /\ s[i].rec \notin 1 .. nr \/ \E k \in 1 .. Len(jobs) : jobs[k].reaction.cap = s[i].rec

\* Reactions that stay where they are are waiting.
LEMMA ReactionsStay ==
  ASSUME UNCHANGED <<fulfillReactions, rejectReactions>>, NEW p \in Promises
  PROVE  /\ \A i \in 1 .. Len(fulfillReactions'[p]) : Waiting(fulfillReactions'[p][i])
         /\ \A i \in 1 .. Len(rejectReactions'[p]) : Waiting(rejectReactions'[p][i])
  BY DEF Waiting

\* fulfill and reject affect their promise only.
LEMMA SettleAffects ==
  ASSUME Inv, NEW p1 \in Created, NEW v, NEW q \in Seq(Job), \A i \in 1 .. Len(q) : OldJob(q[i]),
         Fulfill(p1, v, q) \/ Reject(p1, v, q), Functions(p1), Known(stack'), UNCHANGED follows
  PROVE  /\ Affects(p1) /\ result'[p1] = v
         /\ Fulfill(p1, v, q) => state'[p1] = "FulFilled"
         /\ Reject(p1, v, q) => state'[p1] = "Rejected"
<1>1. /\ p1 \in Promises /\ state \in [Promises -> States] /\ result \in [Promises -> Values]
      /\ fulfillReactions \in [Promises -> Seq(Reactions)]
      /\ rejectReactions \in [Promises -> Seq(Reactions)]
  BY Bounds DEF Inv, TypeOK
<1>2. PICK R \in Seq(Reactions) : /\ jobs' = Triggered(q, R, v)
                                  /\ R = fulfillReactions[p1] \/ R = rejectReactions[p1]
  BY <1>1 DEF Fulfill, Reject
<1>3. ASSUME NEW i \in 1 .. Len(jobs') PROVE OldJob(jobs'[i]) \/ NewJob(jobs'[i], p1)
  <2>1. PICK t : t = [k \in 1 .. Len(R) |-> ReactionJob(R[k], v)]
    OBVIOUS
  <2>2. t \in Seq({t[k] : k \in 1 .. Len(R)}) /\ Len(t) = Len(R) /\ \A k \in 1 .. Len(R) : t[k] = ReactionJob(R[k], v)
    BY <2>1
  <2>3. jobs' = q \o t
    BY <1>2, <2>1 DEF Triggered
  <2>4. \/ i \in 1 .. Len(q) /\ jobs'[i] = q[i]
        \/ \E k \in 1 .. Len(R) : jobs'[i] = t[k]
    <3>1. Len(q) \in Nat /\ Len(t) \in Nat /\ i \in 1 .. Len(q \o t)
      BY <2>2, <2>3
    <3> QED
      BY ONLY <2>2, <2>3, <3>1, q \in Seq(Job)
  <2>5. ASSUME NEW k \in 1 .. Len(R), jobs'[i] = t[k] PROVE NewJob(jobs'[i], p1)
    <3>1. Waiting(R[k])
      BY <1>1, <1>2 DEF Waiting
    <3>2. jobs'[i].kind = "reaction" /\ jobs'[i].reaction = R[k]
      <4>1. PICK j, x : j = jobs'[i] /\ x = R[k]
        OBVIOUS
      <4>2. j = ReactionJob(x, v)
        BY <2>2, <2>5, <4>1
      <4>3. j.kind = "reaction" /\ j.reaction = x
        BY ONLY <4>2 DEF ReactionJob
      <4> QED
        BY <4>1, <4>3
    <3> QED
      BY <3>1, <3>2 DEF NewJob
  <2> QED
    BY <2>4, <2>5
<1>4. ASSUME NEW p \in Promises
      PROVE  /\ \A i \in 1 .. Len(fulfillReactions'[p]) : Waiting(fulfillReactions'[p][i])
             /\ \A i \in 1 .. Len(rejectReactions'[p]) : Waiting(rejectReactions'[p][i])
  <2>1. /\ fulfillReactions'[p] = fulfillReactions[p] \/ fulfillReactions'[p] = << >>
        /\ rejectReactions'[p] = rejectReactions[p] \/ rejectReactions'[p] = << >>
    BY <1>1 DEF Fulfill, Reject, ClearReactions
  <2> QED
    BY <2>1 DEF Waiting
<1>5. /\ \A p \in Promises : p # p1 => state'[p] = state[p] /\ result'[p] = result[p]
      /\ result'[p1] = v
      /\ Fulfill(p1, v, q) => state'[p1] = "FulFilled"
      /\ Reject(p1, v, q) => state'[p1] = "Rejected"
  BY <1>1 DEF Fulfill, Reject
<1>6. \A i \in 1 .. Len(stack') : OldFrame(stack'[i]) \/ NewFrame(stack'[i], p1)
  BY DEF Known, NewFrame
<1> QED
  BY <1>3, <1>4, <1>5, <1>6 DEF Affects

\* A step that moves no promise.
LEMMA QuietAffects ==
  ASSUME NEW p1, KeepPromises, Functions(p1), UNCHANGED follows,
         \A i \in 1 .. Len(jobs') : OldJob(jobs'[i]) \/ NewJob(jobs'[i], p1),
         \A i \in 1 .. Len(stack') : OldFrame(stack'[i]) \/ NewFrame(stack'[i], p1)
  PROVE  Affects(p1)
<1>1. ASSUME NEW p \in Promises
      PROVE  /\ \A i \in 1 .. Len(fulfillReactions'[p]) : Waiting(fulfillReactions'[p][i])
             /\ \A i \in 1 .. Len(rejectReactions'[p]) : Waiting(rejectReactions'[p][i])
  BY ReactionsStay DEF KeepPromises
<1> QED
  BY <1>1 DEF Affects, KeepPromises

\* If the promise of unused functions r follows another, they are called with its outcome.
Rightful(r, out, v) ==
    ~ records[r].alreadyResolved =>
      \/ follows[records[r].promise] = 0
      \/ AskedAgain(follows[records[r].promise])
      \/ state[follows[records[r].promise]] = out /\ result[follows[records[r].promise]] = v

\* A call of functions that are used up.
LEMMA IdleCall ==
  ASSUME Inv, Grows, np' \in Nat, Adoption, NEW q, \A i \in 1 .. Len(q) : OldJob(q[i]),
         jobs' = q, Known(stack'), KeepPromises, UNCHANGED <<np, nr, records, follows>>
  PROVE  Adoption'
<1>1. PICK p1 \in Created \cup {0} : p1 = 0
  OBVIOUS
<1>2. Functions(p1)
  BY DEF Functions
<1>3. \A i \in 1 .. Len(jobs') : OldJob(jobs'[i])
  OBVIOUS
<1>4. \A i \in 1 .. Len(stack') : OldFrame(stack'[i]) \/ NewFrame(stack'[i], p1)
  BY DEF Known, NewFrame
<1>5. Affects(p1)
  BY <1>2, <1>3, <1>4, QuietAffects
<1> QED
  BY <1>1, <1>5, AdoptionKept

\* Functions are used for the first time and settle their promise.
LEMMA SettlingCall ==
  ASSUME Inv, Grows, np' \in Nat, Adoption, NEW r \in 1 .. nr, ~ records[r].alreadyResolved,
         records' = Used(r), NEW p1, p1 = records[r].promise, NEW v, NEW q \in Seq(Job),
         \A i \in 1 .. Len(q) : OldJob(q[i]), Known(stack'), UNCHANGED <<np, nr, follows>>,
         \/ Fulfill(p1, v, q) /\ Rightful(r, "FulFilled", v) /\ v.type \in {"primitive", "accessor"}
         \/ /\ Reject(p1, v, q)
            /\ \/ Rightful(r, "Rejected", v)
               \/ follows[p1] = 0 \/ AskedAgain(follows[p1])
  PROVE  Adoption'
<1>1. p1 \in Created /\ p1 \in Promises
  BY FirstCall
<1>2. Functions(p1)
  BY UseAffects
<1>3. /\ Affects(p1) /\ result'[p1] = v
      /\ Fulfill(p1, v, q) => state'[p1] = "FulFilled"
      /\ Reject(p1, v, q) => state'[p1] = "Rejected"
  BY <1>1, <1>2, SettleAffects
<1>4. PlainOutcome(p1)'
  BY <1>3 DEF PlainOutcome
<1>5. PICK q1 : q1 = follows[p1]
  OBVIOUS
<1>6. q1 \in 0 .. MaxPromises /\ MaxPromises \in Nat
  BY <1>1, <1>5, Bounds DEF Inv, TypeOK
<1>7. Follows(p1, q1)'
  <2>1. CASE q1 = 0
    BY <2>1 DEF Follows
  <2>2. CASE q1 # 0
    <3>1. q1 \in Promises
      BY <1>6, <2>2 DEF Promises
    <3>2. CASE AskedAgain(q1)
      BY <3>1, <3>2, OutcomesStay DEF Follows
    <3>3. CASE ~ AskedAgain(q1)
      <4>1. \/ Fulfill(p1, v, q) /\ state[q1] = "FulFilled" /\ result[q1] = v
            \/ Reject(p1, v, q) /\ state[q1] = "Rejected" /\ result[q1] = v
        BY <1>5, <2>2, <3>3 DEF Rightful
      <4>2. state'[q1] = state[q1] /\ result'[q1] = result[q1]
        BY <3>1, <4>1 DEF Grows
      <4>3. state'[p1] # "Pending" /\ Alike(p1, q1)'
        BY <1>3, <4>1, <4>2 DEF Alike
      <4> QED
        BY <4>3 DEF Follows
    <3> QED
      BY <3>2, <3>3
  <2> QED
    BY <2>1, <2>2
<1>8. Follows(p1, follows[p1])'
  BY <1>5, <1>7 DEF Follows
<1> QED
  BY <1>1, <1>3, <1>4, <1>8, AdoptionKept

\* promiseRejectFunctions.
LEMMA RejectCall ==
  ASSUME Inv, Grows, np' \in Nat, Adoption, NEW r \in 1 .. nr, NEW v, NEW q \in Seq(Job),
         \A i \in 1 .. Len(q) : OldJob(q[i]), CallReject(r, v, q), Known(stack'),
         UNCHANGED <<np, nr>>, Rightful(r, "Rejected", v)
  PROVE  Adoption'
<1>1. CASE records[r].alreadyResolved
  <2>1. jobs' = q /\ KeepPromises /\ UNCHANGED <<records, follows>>
    BY <1>1 DEF CallReject
  <2> QED
    BY <2>1, IdleCall
<1>2. CASE ~ records[r].alreadyResolved
  <2>1. PICK p1 : p1 = records[r].promise
    OBVIOUS
  <2>2. records' = Used(r) /\ Reject(p1, v, q) /\ UNCHANGED follows
    BY <1>2, <2>1 DEF CallReject
  <2> QED
    BY <1>2, <2>1, <2>2, SettlingCall
<1> QED
  BY <1>1, <1>2

\* A promise starts to follow another: the thenable job is the one thing that can settle it.
LEMMA AdoptCall ==
  ASSUME Inv, Grows, np' \in Nat, Adoption, NEW r \in 1 .. nr, ~ records[r].alreadyResolved,
         records' = Used(r), NEW p1, p1 = records[r].promise, NEW q \in Seq(Job),
         \A i \in 1 .. Len(q) : OldJob(q[i]), Known(stack'), UNCHANGED <<np, nr>>,
         NEW x \in Values, Adopt(p1, x, q),
         x = PromiseValue(x.promise) \/ x.promise = 0
  PROVE  Adoption'
<1>1. /\ p1 \in Created /\ p1 \in Promises /\ state[p1] = "Pending"
      /\ \A i \in 1 .. nr : records[i].promise = p1 => records[i].alreadyResolved \/ i = r
      /\ \A i \in 1 .. Len(jobs) : ~ (jobs[i].kind = "thenable" /\ jobs[i].promise = p1)
      /\ \A i \in 1 .. Len(stack) : stack[i].kind = "getter" => records[stack[i].rec].promise # p1
  BY FirstCall
<1>2. /\ Functions(p1)
      /\ \A i \in 1 .. nr : records'[i].alreadyResolved <=> records[i].alreadyResolved \/ i = r
  BY UseAffects
<1>3. PICK j : j = ThenableJob(p1, x)
  OBVIOUS
<1>4. j.kind = "thenable" /\ j.promise = p1 /\ j.reaction = NoReaction /\ j.argument = x
  BY <1>3 DEF ThenableJob
<1>5. PICK q1 : q1 = x.promise
  OBVIOUS
<1>6. jobs' = Append(q, j) /\ KeepPromises /\ follows' = [follows EXCEPT ![p1] = q1]
  BY <1>3, <1>5 DEF Adopt
<1>7. Len(q) \in Nat /\ Len(jobs') = Len(q) + 1
  BY <1>6
<1>8. \A i \in 1 .. Len(jobs') : (i \in 1 .. Len(q) /\ jobs'[i] = q[i]) \/ jobs'[i] = j
  BY <1>6, <1>7
<1>9. \A i \in 1 .. Len(jobs') : OldJob(jobs'[i]) \/ NewJob(jobs'[i], p1)
  BY <1>4, <1>8 DEF NewJob
<1>10. \A i \in 1 .. Len(stack') : OldFrame(stack'[i]) \/ NewFrame(stack'[i], p1)
  BY DEF Known, NewFrame
<1>11. follows \in [Promises -> 0 .. MaxPromises]
  BY DEF Inv, TypeOK
<1>12. Affects(p1)
  <2>1. ASSUME NEW p \in Promises
        PROVE  /\ \A i \in 1 .. Len(fulfillReactions'[p]) : Waiting(fulfillReactions'[p][i])
               /\ \A i \in 1 .. Len(rejectReactions'[p]) : Waiting(rejectReactions'[p][i])
    BY <1>6, ReactionsStay DEF KeepPromises
  <2>2. \A p \in Promises : p # p1 =>
          state'[p] = state[p] /\ result'[p] = result[p] /\ follows'[p] = follows[p]
    BY <1>6, <1>11 DEF KeepPromises
  <2> QED
    BY <1>2, <1>9, <1>10, <2>1, <2>2 DEF Affects
<1>13. PlainOutcome(p1)'
  BY <1>1, <1>6 DEF PlainOutcome, KeepPromises
<1>14. Follows(p1, q1)'
  <2>1. CASE q1 = 0
    BY <2>1 DEF Follows
  <2>2. CASE q1 # 0
    <3>1. x = PromiseValue(q1)
      BY <1>5, <2>2
    <3>2. ASSUME NEW i \in 1 .. Len(jobs'), jobs'[i].kind = "thenable", jobs'[i].promise = p1
          PROVE  jobs'[i].argument = PromiseValue(q1)
      <4>1. ~ OldJob(jobs'[i])
        BY <1>1, <3>2 DEF OldJob
      <4> QED
        BY <1>4, <1>8, <3>1, <4>1
    <3>3. ASSUME NEW i \in 1 .. Len(stack'), stack'[i].kind = "getter"
          PROVE  records'[stack'[i].rec].promise # p1
      <4>1. PICK k \in 1 .. Len(stack) : stack'[i] = stack[k]
        BY <3>3 DEF Known, OldFrame
      <4>2. stack[k].rec \in 1 .. nr
        BY <3>3, <4>1, Bounds, ControlFacts DEF Inv
      <4> QED
        BY <1>1, <1>2, <3>3, <4>1, <4>2 DEF Functions
    <3>4. \A i \in 1 .. nr' : records'[i].promise = p1 => records'[i].alreadyResolved
      BY <1>1, <1>2 DEF Functions
    <3>5. BoundTo(p1, q1)'
      BY <3>2, <3>3, <3>4 DEF BoundTo
    <3>6. state'[p1] = "Pending"
      BY <1>1, <1>6 DEF KeepPromises
    <3> QED
      BY <3>5, <3>6 DEF Follows
  <2> QED
    BY <2>1, <2>2
<1>15. follows'[p1] = q1
  BY <1>1, <1>6, <1>11
<1>16. Follows(p1, follows[p1])'
  BY <1>14, <1>15 DEF Follows
<1> QED
  BY <1>1, <1>12, <1>13, <1>16, AdoptionKept

\* An object with an accessor is asked for its then: the promise is not bound any more.
LEMMA FetchCall ==
  ASSUME Inv, Grows, np' \in Nat, Adoption, NEW r \in 1 .. nr, ~ records[r].alreadyResolved,
         records' = Used(r), NEW q, \A i \in 1 .. Len(q) : OldJob(q[i]), jobs' = q,
         NEW s \in Seq(Frames), Known(s), NEW x, x.type = "accessor",
         NEW f \in Frames, f = Frame("getter", r, x), stack' = <<f>> \o s,
         KeepPromises, UNCHANGED <<np, nr, follows>>, Rightful(r, "FulFilled", x)
  PROVE  Adoption'
<1>1. PICK p1 : p1 = records[r].promise
  OBVIOUS
<1>2. p1 \in Created /\ p1 \in Promises
  BY <1>1, FirstCall
<1>3. /\ Functions(p1)
      /\ \A i \in 1 .. nr : records'[i].alreadyResolved <=> records[i].alreadyResolved \/ i = r
  BY UseAffects
<1>4. f.kind = "getter" /\ f.rec = r /\ f.value = x
  BY DEF Frame
<1>5. NewFrame(f, p1)
  BY <1>1, <1>3, <1>4 DEF NewFrame
<1>6. \A i \in 1 .. Len(stack') : stack'[i] = f \/ \E k \in 1 .. Len(s) : stack'[i] = s[k]
  <2>1. Len(s) \in Nat /\ Len(stack') = Len(s) + 1
    OBVIOUS
  <2>2. ASSUME NEW i \in 1 .. Len(stack'), i # 1
        PROVE  i - 1 \in 1 .. Len(s) /\ stack'[i] = s[i - 1]
    BY <2>1, <2>2
  <2>3. stack'[1] = f
    BY <2>1
  <2> QED
    BY <2>2, <2>3
<1>7. \A i \in 1 .. Len(stack') : OldFrame(stack'[i]) \/ NewFrame(stack'[i], p1)
  <2>1. \A k \in 1 .. Len(s) : OldFrame(s[k]) \/ NewFrame(s[k], p1)
    BY DEF Known, NewFrame
  <2> QED
    BY <1>5, <1>6, <2>1
<1>8. \A i \in 1 .. Len(jobs') : OldJob(jobs'[i])
  OBVIOUS
<1>9. Affects(p1)
  BY <1>3, <1>7, <1>8, QuietAffects
<1>10. PICK q1 : q1 = follows[p1]
  OBVIOUS
<1>11. q1 \in 0 .. MaxPromises /\ MaxPromises \in Nat
  BY <1>2, <1>10, Bounds DEF Inv, TypeOK
<1>12. q1 = 0 \/ AskedAgain(q1)
  BY <1>1, <1>10 DEF Rightful, AskedAgain
<1>13. Follows(p1, q1)'
  <2>1. q1 # 0 => q1 \in Promises
    BY <1>11 DEF Promises
  <2> QED
    BY <1>2, <1>12, <2>1, OutcomesStay DEF Follows
<1>14. Follows(p1, follows[p1])'
  BY <1>10, <1>13 DEF Follows
<1>15. PlainOutcome(p1)'
  BY <1>2 DEF KeepPromises, PlainOutcome, Adoption
<1> QED
  BY <1>2, <1>9, <1>14, <1>15, AdoptionKept

\* What the functions may be called with: the value of a script, or a result.
Resolving(x) ==
    /\ x \in Values
    /\ x.type = "promise" => x = PromiseValue(x.promise)
    /\ x.type = "thenable" => x.promise = 0

\* promiseResolveFunctions.
LEMMA ResolveCall ==
  ASSUME Inv, Grows, np' \in Nat, Adoption, NEW r \in 1 .. nr, NEW x, Resolving(x),
         NEW q \in Seq(Job), \A i \in 1 .. Len(q) : OldJob(q[i]), NEW s \in Seq(Frames), Known(s),
         CallResolve(r, x, q, s), UNCHANGED <<np, nr>>, Rightful(r, "FulFilled", x)
  PROVE  Adoption'
<1>1. CASE records[r].alreadyResolved
  <2>1. jobs' = q /\ stack' = s /\ KeepPromises /\ UNCHANGED <<records, follows>>
    BY <1>1 DEF CallResolve
  <2> QED
    BY <2>1, IdleCall
<1>2. CASE ~ records[r].alreadyResolved
  <2>1. PICK p1 : p1 = records[r].promise
    OBVIOUS
  <2>2. /\ records' = Used(r)
        /\ \/ x = PromiseValue(p1) /\ Reject(p1, Error, q) /\ stack' = s /\ UNCHANGED follows
           \/ x.type = "primitive" /\ Fulfill(p1, x, q) /\ stack' = s /\ UNCHANGED follows
           \/ x.type \in {"promise", "thenable"} /\ Adopt(p1, x, q) /\ stack' = s
           \/ /\ x.type = "accessor" /\ stack' = <<Frame("getter", r, x)>> \o s
              /\ jobs' = q /\ KeepPromises /\ UNCHANGED follows
    BY <1>2, <2>1 DEF CallResolve
  <2>3. CASE x = PromiseValue(p1) /\ Reject(p1, Error, q) /\ stack' = s /\ UNCHANGED follows
    <3>1. x.type = "promise"
      BY <2>3 DEF PromiseValue
    <3>2. follows[p1] = 0 \/ AskedAgain(follows[p1])
      <4>1. SUFFICES ASSUME follows[p1] # 0, state[follows[p1]] = "FulFilled", result[follows[p1]] = x
                     PROVE  FALSE
        BY <1>2, <2>1 DEF Rightful
      <4>2. follows[p1] \in Promises
        <5>1. p1 \in Promises
          BY <1>2, <2>1, FirstCall
        <5>2. follows[p1] \in 0 .. MaxPromises /\ MaxPromises \in Nat
          BY <5>1, PromisesAssumption DEF Inv, TypeOK
        <5> QED
          BY <4>1, <5>2 DEF Promises
      <4> QED
        BY <3>1, <4>1, <4>2 DEF Adoption, PlainOutcome
    <3> QED
      BY <1>2, <2>1, <2>2, <2>3, <3>2, SettlingCall
  <2>4. CASE x.type = "primitive" /\ Fulfill(p1, x, q) /\ stack' = s /\ UNCHANGED follows
    BY <1>2, <2>1, <2>2, <2>4, SettlingCall
  <2>5. CASE x.type \in {"promise", "thenable"} /\ Adopt(p1, x, q) /\ stack' = s
    BY <1>2, <2>1, <2>2, <2>5, AdoptCall DEF Resolving
  <2>6. CASE /\ x.type = "accessor" /\ stack' = <<Frame("getter", r, x)>> \o s
             /\ jobs' = q /\ KeepPromises /\ UNCHANGED follows
    <3>1. PICK f : f = Frame("getter", r, x)
      OBVIOUS
    <3>2. r \in 0 .. MaxRecords
      BY Bounds DEF Inv
    <3>3. f \in Frames
      BY <3>1, <3>2 DEF Frame, Frames, Resolving
    <3> QED
      BY <1>2, <2>2, <2>6, <3>1, <3>3, FetchCall
  <2> QED
    BY <2>2, <2>3, <2>4, <2>5, <2>6
<1> QED
  BY <1>1, <1>2

\* The rest of the queue and of the stack.
LEMMA RestKnown ==
  ASSUME Inv
  PROVE  /\ jobs \in Seq(Job) /\ stack \in Seq(Frames)
         /\ \A i \in 1 .. Len(jobs) : OldJob(jobs[i])
         /\ Known(stack)
         /\ jobs # << >> => /\ Tail(jobs) \in Seq(Job) /\ Head(jobs) = jobs[1] /\ 1 \in 1 .. Len(jobs)
                            /\ \A i \in 1 .. Len(Tail(jobs)) : OldJob(Tail(jobs)[i])
         /\ stack # << >> => /\ Tail(stack) \in Seq(Frames) /\ Top = stack[1] /\ 1 \in 1 .. Len(stack)
                             /\ Known(Tail(stack))
<1>1. jobs \in Seq(Job) /\ stack \in Seq(Frames)
  BY Bounds DEF Inv
<1>2. \A i \in 1 .. Len(jobs) : OldJob(jobs[i])
  BY DEF OldJob
<1>3. Known(stack)
  BY DEF Known, OldFrame
<1>4. ASSUME NEW T, NEW s \in Seq(T), s # << >>
      PROVE  /\ Tail(s) \in Seq(T) /\ Head(s) = s[1] /\ 1 \in 1 .. Len(s)
             /\ \A i \in 1 .. Len(Tail(s)) : \E k \in 1 .. Len(s) : Tail(s)[i] = s[k]
  <2>1. /\ Tail(s) \in Seq(T) /\ Len(s) \in Nat /\ Len(s) # 0 /\ Head(s) = s[1]
        /\ Len(Tail(s)) = Len(s) - 1
        /\ \A i \in 1 .. Len(Tail(s)) : Tail(s)[i] = s[i + 1]
    BY ONLY <1>4, SMTT(30)
  <2>2. \A i \in 1 .. Len(Tail(s)) : i + 1 \in 1 .. Len(s)
    BY <2>1
  <2> QED
    BY <2>1, <2>2
<1>5. jobs # << >> => /\ Tail(jobs) \in Seq(Job) /\ Head(jobs) = jobs[1] /\ 1 \in 1 .. Len(jobs)
                      /\ \A i \in 1 .. Len(Tail(jobs)) : OldJob(Tail(jobs)[i])
  BY <1>1, <1>4 DEF OldJob
<1>6. stack # << >> => /\ Tail(stack) \in Seq(Frames) /\ Top = stack[1] /\ 1 \in 1 .. Len(stack)
                       /\ Known(Tail(stack))
  BY <1>1, <1>4 DEF Top, Known, OldFrame
<1> QED
  BY <1>1, <1>2, <1>3, <1>5, <1>6

\* Functions that a script, a frame or a capability has are not those of a promise that
\* follows another.
LEMMA SharedRightful ==
  ASSUME Inv, Adoption, NEW r \in 1 .. nr, NEW out, NEW v,
         \/ records[r].exposed
         \/ \E i \in 1 .. Len(stack) : stack[i].rec = r
         \/ \E i \in 1 .. Len(jobs) : jobs[i].reaction.cap = r
  PROVE  Rightful(r, out, v)
<1> SUFFICES ASSUME ~ records[r].alreadyResolved, follows[records[r].promise] # 0
             PROVE  AskedAgain(follows[records[r].promise])
  BY DEF Rightful
<1>1. PICK p1 : p1 = records[r].promise
  OBVIOUS
<1>2. p1 \in Promises /\ state[p1] = "Pending"
  BY <1>1, FirstCall
<1>3. Follows(p1, follows[p1])
  BY <1>2 DEF Adoption
<1>4. AskedAgain(follows[p1]) \/ BoundTo(p1, follows[p1])
  BY <1>1, <1>2, <1>3 DEF Follows
<1>5. ~ Private(r, follows[p1])
  BY DEF Private, Apart
<1> QED
  BY <1>1, <1>4, <1>5 DEF BoundTo

\* A reaction job calls the functions of a promise that follows another with its outcome.
LEMMA JobRightful ==
  ASSUME Inv, Adoption, NEW j \in GoodJobs, \E i \in 1 .. Len(jobs) : j = jobs[i],
         j.kind = "reaction", NEW r \in 1 .. nr, r = j.reaction.handler.rec
  PROVE  /\ j.reaction.handler.kind = "Resolve" => Rightful(r, "FulFilled", j.argument)
         /\ j.reaction.handler.kind = "Reject" => Rightful(r, "Rejected", j.argument)
<1>1. PICK p \in Created : Delivers(j, p)
  BY DEF GoodJobs
<1>2. /\ j.argument = result[p] /\ reg[j.reaction.id] = p
      /\ j.reaction.handler.kind = "Resolve" => state[p] = "FulFilled"
      /\ j.reaction.handler.kind = "Reject" => state[p] = "Rejected"
  BY <1>1 DEF Delivers, GoodReactions, FulfillKinds, RejectKinds
<1>3. ASSUME ~ records[r].alreadyResolved, follows[records[r].promise] # 0,
             ~ AskedAgain(follows[records[r].promise])
      PROVE  follows[records[r].promise] = p
  <2>1. PICK p1 : p1 = records[r].promise
    OBVIOUS
  <2>2. p1 \in Promises /\ state[p1] = "Pending"
    BY <1>3, <2>1, FirstCall
  <2>3. Follows(p1, follows[p1])
    BY <2>2 DEF Adoption
  <2>4. BoundTo(p1, follows[p1])
    BY <1>3, <2>1, <2>2, <2>3 DEF Follows
  <2>5. Private(r, follows[p1])
    BY <1>3, <2>1, <2>4 DEF BoundTo
  <2>6. Apart(j.reaction, r, follows[p1])
    BY <2>5 DEF Private
  <2> QED
    BY <1>2, <2>1, <2>6 DEF Apart
<1> QED
  BY <1>2, <1>3 DEF Rightful

\* What scripts resolve with.
LEMMA ScriptValues ==
  ASSUME Inv
  PROVE  \A x \in Resolutions : Resolving(x)
<1> SUFFICES ASSUME NEW x \in Resolutions PROVE Resolving(x)
  OBVIOUS
<1>1. x \in Values
  BY ResolutionsGood DEF Inv, GoodValues
<1>2. CASE x = Primitive
  BY <1>1, <1>2 DEF Resolving, Primitive
<1>3. ASSUME NEW p \in Created, x = PromiseValue(p) PROVE Resolving(x)
  <2>1. x.type = "promise" /\ x.promise = p
    BY <1>3 DEF PromiseValue
  <2> QED
    BY <1>1, <1>3, <2>1 DEF Resolving
<1>4. ASSUME NEW o \in Objects, x = ObjectValue(o) PROVE Resolving(x)
  <2>1. x.type = o /\ x.promise = 0 /\ o # "promise"
    BY <1>4, PromisesAssumption DEF ObjectValue
  <2> QED
    BY <1>1, <2>1 DEF Resolving
<1> QED
  BY <1>2, <1>3, <1>4 DEF Resolutions

\* The job of a fulfilled promise.
LEMMA JobValue ==
  ASSUME Inv, Adoption, NEW j \in GoodJobs, j.kind = "reaction",
         j.reaction.handler.kind \in {"Identity", "Resolve"}
  PROVE  Resolving(j.argument)
<1>1. PICK p \in Created : Delivers(j, p)
  BY DEF GoodJobs
<1>2. p \in Promises
  BY Bounds DEF Inv
<1>3. j.argument = result[p] /\ state[p] = "FulFilled"
  BY <1>1 DEF Delivers, GoodReactions, RejectKinds
<1>4. result[p] \in Values /\ result[p].type \in {"primitive", "accessor"}
  BY <1>2, <1>3 DEF Adoption, PlainOutcome, Inv, TypeOK
<1> QED
  BY <1>3, <1>4 DEF Resolving

\* Script code calls functions it was handed.
LEMMA ScriptAdoption ==
  ASSUME Inv, Grows, np' \in Nat, Adoption, NEW r \in 1 .. nr,
         ScriptRejects(r) \/ \E x \in Resolutions : ScriptResolves(r, x)
  PROVE  Adoption'
<1>1. /\ jobs \in Seq(Job) /\ stack \in Seq(Frames) /\ \A i \in 1 .. Len(jobs) : OldJob(jobs[i])
      /\ Known(stack)
  BY RestKnown
<1>2. records[r].exposed /\ UNCHANGED <<np, nr>>
  BY DEF ScriptRejects, ScriptResolves
<1>3. \A out, v : Rightful(r, out, v)
  BY <1>2, SharedRightful
<1>4. CASE ScriptRejects(r)
  <2>1. CallReject(r, Error, jobs) /\ Known(stack')
    BY <1>1, <1>4 DEF ScriptRejects
  <2> QED
    BY <1>1, <1>2, <1>3, <2>1, RejectCall
<1>5. ASSUME NEW x \in Resolutions, ScriptResolves(r, x) PROVE Adoption'
  <2>1. CallResolve(r, x, jobs, stack)
    BY <1>5 DEF ScriptResolves
  <2>2. Resolving(x)
    BY ScriptValues
  <2> QED
    BY <1>1, <1>2, <1>3, <2>1, <2>2, ResolveCall
<1> QED
  BY <1>4, <1>5

\* Scripts, executors and then methods end or start without a call.
LEMMA QuietAdoption ==
  ASSUME Inv, Grows, np' \in Nat, Adoption,
         ScriptEnds \/ ScriptThrows \/ CalleeReturns \/ EvalScript
  PROVE  Adoption'
<1>1. \A i \in 1 .. Len(jobs) : OldJob(jobs[i])
  BY RestKnown
<1>2. jobs' = jobs /\ KeepPromises /\ UNCHANGED <<np, nr, records, follows>>
  BY DEF ScriptEnds, ScriptThrows, CalleeReturns, EvalScript
<1>3. Known(stack')
  <2>1. CASE ScriptEnds \/ CalleeReturns
    BY <2>1, RestKnown DEF ScriptEnds, CalleeReturns
  <2>2. CASE ScriptThrows \/ EvalScript
    <3>1. PICK f : stack' = <<f>> /\ f.rec = 0 /\ f.kind # "getter"
      <4>1. PICK kind \in {"script", "prompt"} : stack' = <<Frame(kind, 0, Primitive)>>
        BY <2>2 DEF ScriptThrows, EvalScript
      <4> QED
        BY <4>1 DEF Frame
    <3>2. \A i \in 1 .. Len(stack') : stack'[i] = f
      BY <3>1
    <3> QED
      BY <3>1, <3>2 DEF Known
  <2> QED
    BY <2>1, <2>2
<1> QED
  BY <1>1, <1>2, <1>3, IdleCall

\* A frame ends with a call of its functions.
LEMMA FrameAdoption ==
  ASSUME Inv, Grows, np' \in Nat, Adoption,
         CalleeThrows \/ HandlerThrows \/ NativeReturns \/ \E x \in Resolutions : HandlerReturns(x)
  PROVE  Adoption'
<1>1. stack # << >> /\ UNCHANGED <<np, nr>>
  BY DEF CalleeThrows, HandlerThrows, NativeReturns, HandlerReturns
<1>2. PICK s : s = Tail(stack)
  OBVIOUS
<1>3. /\ jobs \in Seq(Job) /\ \A i \in 1 .. Len(jobs) : OldJob(jobs[i])
      /\ s \in Seq(Frames) /\ Known(s) /\ Top = stack[1] /\ 1 \in 1 .. Len(stack)
  BY <1>1, <1>2, RestKnown
<1>4. Top \in GoodFrames(np, records, nr)
  BY <1>1, TopFacts
<1>5. PICK r \in 0 .. nr : r = Top.rec
  BY <1>4 DEF GoodFrames
<1>6. r # 0 => r \in 1 .. nr
  BY Bounds DEF Inv
<1>7. r # 0 => \A out, v : Rightful(r, out, v)
  BY <1>3, <1>5, <1>6, SharedRightful
<1>8. CASE CalleeThrows \/ (HandlerThrows /\ r # 0)
  <2>1. r # 0
    BY <1>4, <1>5, <1>8 DEF GoodFrames, CalleeThrows
  <2>2. CallReject(r, Error, jobs) /\ Known(stack')
    BY <1>2, <1>3, <1>5, <1>8, <2>1 DEF CalleeThrows, HandlerThrows
  <2> QED
    BY <1>1, <1>3, <1>6, <1>7, <2>1, <2>2, RejectCall
<1>9. CASE NativeReturns
  <2>1. r # 0
    BY <1>4, <1>5, <1>9 DEF GoodFrames, NativeReturns
  <2>2. CallResolve(r, Primitive, jobs, s)
    BY <1>2, <1>5, <1>9 DEF NativeReturns
  <2>3. Resolving(Primitive)
    BY ScriptValues DEF Resolutions
  <2> QED
    BY <1>1, <1>3, <1>6, <1>7, <2>1, <2>2, <2>3, ResolveCall
<1>10. ASSUME NEW x \in Resolutions, HandlerReturns(x), r # 0 PROVE Adoption'
  <2>1. CallResolve(r, x, jobs, s)
    BY <1>2, <1>5, <1>10 DEF HandlerReturns
  <2>2. Resolving(x)
    BY ScriptValues
  <2> QED
    BY <1>1, <1>3, <1>6, <1>7, <1>10, <2>1, <2>2, ResolveCall
<1>11. CASE r = 0 /\ (HandlerThrows \/ \E x \in Resolutions : HandlerReturns(x))
  <2>1. jobs' = jobs /\ stack' = s /\ KeepPromises /\ UNCHANGED <<records, follows>>
    BY <1>2, <1>5, <1>11 DEF HandlerThrows, HandlerReturns
  <2> QED
    BY <1>1, <1>3, <2>1, IdleCall
<1> QED
  BY <1>8, <1>9, <1>10, <1>11

\* The promise a getter runs for is pending.
LEMMA GetterPending ==
  ASSUME Inv, stack # << >>, Top.kind = "getter", NEW p1, p1 = records[Top.rec].promise
  PROVE  p1 \in Created /\ p1 \in Promises /\ state[p1] = "Pending"
<1>1. jobs \in Seq(Job) /\ Top = stack[1] /\ 1 \in 1 .. Len(stack)
  BY RestKnown
<1>2. ControlPart(records, nr, jobs, stack, 0) /\ nr \in Nat
  BY Bounds DEF Inv
<1>3. p1 \in Created /\ p1 \in Promises
  BY <1>1, <1>2, Bounds, ControlFacts DEF Inv
<1> SUFFICES ASSUME state[p1] # "Pending" PROVE FALSE
  BY <1>3
<1>4. ControlPart(records, nr, jobs, stack, p1)
  <2>1. 0 \notin Created
    BY DEF Created
  <2>2. \A p \in Created : (state[p] = "Pending" /\ p # 0) <=> (state[p] = "Pending" /\ p # p1)
    BY <2>1
  <2> QED
    BY <1>2, <2>2 DEF ControlPart
<1>5. Unowned(records, nr, jobs, stack, p1)
  BY <1>1, <1>2, <1>3, <1>4, NoOwners
<1> QED
  BY <1>1, <1>5 DEF Unowned

\* A getter ends: a promise it runs for is not bound to another.
LEMMA GetterAdoption ==
  ASSUME Inv, Grows, np' \in Nat, Adoption, GetterEnds
  PROVE  Adoption'
<1>1. stack # << >> /\ Top.kind = "getter" /\ UNCHANGED <<np, nr, records, follows>>
  BY DEF GetterEnds
<1>2. /\ jobs \in Seq(Job) /\ \A i \in 1 .. Len(jobs) : OldJob(jobs[i])
      /\ Known(Tail(stack)) /\ Top = stack[1] /\ 1 \in 1 .. Len(stack)
  BY <1>1, RestKnown
<1>3. PICK p1 : p1 = records[Top.rec].promise
  OBVIOUS
<1>4. p1 \in Created /\ p1 \in Promises /\ state[p1] = "Pending"
  BY <1>1, <1>3, GetterPending
<1>5. PICK q1 : q1 = follows[p1]
  OBVIOUS
<1>6. q1 = 0 \/ AskedAgain(q1)
  <2>1. Follows(p1, q1)
    BY <1>4, <1>5 DEF Adoption
  <2>2. ~ BoundTo(p1, q1)
    BY <1>1, <1>2, <1>3 DEF BoundTo
  <2> QED
    BY <1>4, <2>1, <2>2 DEF Follows
<1>7. Follows(p1, follows[p1])'
  <2>1. q1 # 0 => q1 \in Promises
    <3>1. q1 \in 0 .. MaxPromises /\ MaxPromises \in Nat
      BY <1>4, <1>5, Bounds DEF Inv, TypeOK
    <3> QED
      BY <3>1 DEF Promises
  <2>2. Follows(p1, q1)'
    BY <1>4, <1>6, <2>1, OutcomesStay DEF Follows
  <2> QED
    BY <1>1, <1>5, <2>2 DEF Follows
<1>8. PICK v : v = Top.value
  OBVIOUS
<1>9. v.type = "accessor"
  BY <1>1, <1>2, <1>8 DEF Adoption
<1>10. Known(stack')
  BY <1>2 DEF GetterEnds
<1>11. Functions(p1)
  BY <1>1 DEF Functions
<1>12. CASE jobs' = Append(jobs, ThenableJob(p1, v)) /\ KeepPromises
  <2>1. PICK j : j = ThenableJob(p1, v)
    OBVIOUS
  <2>2. NewJob(j, p1)
    BY <2>1 DEF NewJob, ThenableJob
  <2>3. \A i \in 1 .. Len(jobs') : (i \in 1 .. Len(jobs) /\ jobs'[i] = jobs[i]) \/ jobs'[i] = j
    <3>1. jobs' = Append(jobs, j) /\ Len(jobs) \in Nat
      BY <1>2, <1>12, <2>1
    <3> QED
      BY ONLY <3>1, <1>2
  <2>4. \A i \in 1 .. Len(jobs') : OldJob(jobs'[i]) \/ NewJob(jobs'[i], p1)
    BY <1>2, <2>2, <2>3
  <2>5. \A i \in 1 .. Len(stack') : OldFrame(stack'[i]) \/ NewFrame(stack'[i], p1)
    BY <1>10 DEF Known, NewFrame
  <2>6. Affects(p1)
    BY <1>1, <1>11, <1>12, <2>4, <2>5, QuietAffects
  <2>7. PlainOutcome(p1)'
    BY <1>4, <1>12 DEF PlainOutcome, KeepPromises
  <2> QED
    BY <1>4, <1>7, <2>6, <2>7, AdoptionKept
<1>13. ASSUME NEW w, Fulfill(p1, w, jobs) \/ Reject(p1, w, jobs),
              Fulfill(p1, w, jobs) => w.type = "accessor"
       PROVE  Adoption'
  <2>1. /\ Affects(p1) /\ result'[p1] = w
        /\ Fulfill(p1, w, jobs) => state'[p1] = "FulFilled"
        /\ Reject(p1, w, jobs) => state'[p1] = "Rejected"
    BY <1>1, <1>2, <1>4, <1>10, <1>11, <1>13, SettleAffects
  <2>2. PlainOutcome(p1)'
    BY <1>13, <2>1 DEF PlainOutcome
  <2> QED
    BY <1>4, <1>7, <2>1, <2>2, AdoptionKept
<1>14. \/ jobs' = Append(jobs, ThenableJob(p1, v)) /\ KeepPromises
       \/ Fulfill(p1, v, jobs) \/ Reject(p1, Error, jobs)
  BY <1>3, <1>8 DEF GetterEnds
<1>15. CASE Fulfill(p1, v, jobs)
  BY <1>9, <1>13, <1>15
<1>16. CASE Reject(p1, Error, jobs)
  <2>1. ~ Fulfill(p1, Error, jobs)
    <3>1. state \in [Promises -> States]
      BY DEF Inv, TypeOK
    <3>2. state'[p1] = "Rejected"
      BY <1>4, <1>16, <3>1 DEF Reject
    <3>3. Fulfill(p1, Error, jobs) => state'[p1] = "FulFilled"
      BY <1>4, <3>1 DEF Fulfill
    <3> QED
      BY <3>2, <3>3
  <2> QED
    BY <1>13, <1>16, <2>1
<1> QED
  BY <1>12, <1>14, <1>15, <1>16

\* The reactions that then() makes have new functions, if any.
LEMMA ThenAffects ==
  ASSUME Inv, NEW p \in Created, NEW onF, NEW onR, NEW cap, NEW q \in Seq(Job),
         \A i \in 1 .. Len(q) : OldJob(q[i]), PerformThen(p, onF, onR, cap, q),
         cap \notin 1 .. nr, onF.rec \notin 1 .. nr, onR.rec \notin 1 .. nr,
         NEW p1, Functions(p1), Known(stack'), UNCHANGED follows
  PROVE  Affects(p1)
<1>1. /\ p \in Promises
      /\ fulfillReactions \in [Promises -> Seq(Reactions)]
      /\ rejectReactions \in [Promises -> Seq(Reactions)]
  BY Bounds DEF Inv, TypeOK
<1>2. PICK xF, xR : xF = Reaction(Len(reg) + 1, onF, cap) /\ xR = Reaction(Len(reg) + 1, onR, cap)
  OBVIOUS
<1>3. NewReaction(xF) /\ NewReaction(xR)
  BY <1>2 DEF NewReaction, Reaction
<1>4. UNCHANGED <<state, result>>
  BY DEF PerformThen
<1>5. ASSUME NEW f \in Seq(Reactions), NEW x, NEW i \in 1 .. Len(Append(f, x))
      PROVE  (i \in 1 .. Len(f) /\ Append(f, x)[i] = f[i]) \/ Append(f, x)[i] = x
  <2>1. Len(f) \in Nat /\ Len(Append(f, x)) = Len(f) + 1
    OBVIOUS
  <2> QED
    BY <2>1
<1>6. \A pp \in Promises :
        /\ fulfillReactions'[pp] = fulfillReactions[pp] \/ fulfillReactions'[pp] = Append(fulfillReactions[pp], xF)
        /\ rejectReactions'[pp] = rejectReactions[pp] \/ rejectReactions'[pp] = Append(rejectReactions[pp], xR)
  BY <1>1, <1>2 DEF PerformThen
<1>7. ASSUME NEW pp \in Promises, NEW i \in 1 .. Len(fulfillReactions'[pp])
      PROVE  Waiting(fulfillReactions'[pp][i]) \/ NewReaction(fulfillReactions'[pp][i])
  <2>1. PICK f \in Seq(Reactions) : f = fulfillReactions[pp]
    BY <1>1
  <2>2. (i \in 1 .. Len(f) /\ fulfillReactions'[pp][i] = f[i]) \/ fulfillReactions'[pp][i] = xF
    BY <1>5, <1>6, <2>1
  <2>3. \A k \in 1 .. Len(f) : Waiting(f[k])
    BY <2>1 DEF Waiting
  <2> QED
    BY <1>3, <2>2, <2>3
<1>8. ASSUME NEW pp \in Promises, NEW i \in 1 .. Len(rejectReactions'[pp])
      PROVE  Waiting(rejectReactions'[pp][i]) \/ NewReaction(rejectReactions'[pp][i])
  <2>1. PICK f \in Seq(Reactions) : f = rejectReactions[pp]
    BY <1>1
  <2>2. (i \in 1 .. Len(f) /\ rejectReactions'[pp][i] = f[i]) \/ rejectReactions'[pp][i] = xR
    BY <1>5, <1>6, <2>1
  <2>3. \A k \in 1 .. Len(f) : Waiting(f[k])
    BY <2>1 DEF Waiting
  <2> QED
    BY <1>3, <2>2, <2>3
<1>9. ASSUME NEW i \in 1 .. Len(jobs') PROVE OldJob(jobs'[i]) \/ NewJob(jobs'[i], p1)
  <2>1. CASE jobs' = q
    BY <2>1
  <2>2. ASSUME NEW x \in {xF, xR}, jobs' = Append(q, ReactionJob(x, result[p]))
        PROVE  OldJob(jobs'[i]) \/ NewJob(jobs'[i], p1)
    <3>1. PICK j : j = ReactionJob(x, result[p])
      OBVIOUS
    <3>2. jobs' = Append(q, j) /\ Len(q) \in Nat
      BY <2>2, <3>1
    <3>3. (i \in 1 .. Len(q) /\ jobs'[i] = q[i]) \/ jobs'[i] = j
      BY ONLY <3>2, q \in Seq(Job), i \in 1 .. Len(jobs')
    <3>4. NewJob(j, p1)
      BY <1>3, <3>1 DEF NewJob, ReactionJob
    <3> QED
      BY <3>3, <3>4
  <2> QED
    BY <1>2, <2>1, <2>2 DEF PerformThen
<1>10. \A i \in 1 .. Len(stack') : OldFrame(stack'[i]) \/ NewFrame(stack'[i], p1)
  BY DEF Known, NewFrame
<1> QED
  BY <1>4, <1>7, <1>8, <1>9, <1>10 DEF Affects

\* A pair for a new promise.
LEMMA NewPair ==
  ASSUME Inv, NEW e, np < MaxPromises, nr + 1 <= MaxRecords, nr' = nr + 1,
         records' = [records EXCEPT ![nr + 1] = Record(np + 1, e)], NEW p1
  PROVE  Functions(p1)
<1>1. np \in Nat /\ nr \in Nat /\ MaxRecords \in Nat /\ records \in RecordTable /\ 1 .. nr \subseteq Records
  BY Bounds DEF Inv
<1>2. \A r \in 1 .. nr : records'[r] = records[r]
  BY <1>1 DEF RecordTable
<1>3. nr + 1 \in Records
  BY <1>1 DEF Records
<1>4. records'[nr + 1].promise = np + 1
  BY <1>1, <1>3 DEF RecordTable, Record
<1>5. \A r \in 1 .. nr' : r \notin 1 .. nr => r = nr + 1
  BY <1>1
<1>6. np + 1 \notin Created
  BY <1>1 DEF Created
<1> QED
  BY <1>2, <1>4, <1>5, <1>6 DEF Functions

\* Scripts make promises and reactions.
LEMMA MakingAdoption ==
  ASSUME Inv, Grows, np' \in Nat, Adoption,
         \/ NewPromise
         \/ \E p \in Created : Await(p) \/ \E call \in ThenCalls : Then(p, call)
  PROVE  Adoption'
<1>1. PICK p1 \in Created \cup {0} : p1 = 0
  OBVIOUS
<1>2. /\ jobs \in Seq(Job) /\ stack \in Seq(Frames) /\ \A i \in 1 .. Len(jobs) : OldJob(jobs[i])
      /\ Known(stack)
  BY RestKnown
<1>3. nr \in Nat /\ 0 \notin 1 .. nr /\ nr + 1 \notin 1 .. nr
  BY Bounds DEF Inv
<1>4. CASE NewPromise
  <2>1. /\ np < MaxPromises /\ nr + 1 <= MaxRecords /\ nr' = nr + 1
        /\ records' = [records EXCEPT ![nr + 1] = Record(np + 1, TRUE)]
        /\ jobs' = jobs /\ KeepPromises /\ UNCHANGED follows
    BY <1>4 DEF NewPromise, Room
  <2>2. Functions(p1)
    BY <2>1, NewPair
  <2>3. PICK f : f = Frame("executor", nr + 1, Primitive)
    OBVIOUS
  <2>4. f.kind = "executor" /\ f.rec = nr + 1
    BY <2>3 DEF Frame
  <2>5. stack' = <<f>> \o stack
    BY <1>4, <2>3 DEF NewPromise
  <2>6. \A i \in 1 .. Len(stack') : stack'[i] = f \/ \E k \in 1 .. Len(stack) : stack'[i] = stack[k]
    <3>1. Len(stack) \in Nat /\ Len(stack') = Len(stack) + 1 /\ stack'[1] = f
      BY <1>2, <2>5
    <3>2. \A i \in 1 .. Len(stack') : i # 1 => i - 1 \in 1 .. Len(stack) /\ stack'[i] = stack[i - 1]
      BY <1>2, <2>5, <3>1
    <3> QED
      BY <3>1, <3>2
  <2>7. \A i \in 1 .. Len(stack') : OldFrame(stack'[i]) \/ NewFrame(stack'[i], p1)
    BY <1>3, <2>4, <2>6 DEF OldFrame, NewFrame
  <2>8. \A i \in 1 .. Len(jobs') : OldJob(jobs'[i])
    BY <1>2, <2>1
  <2>9. Affects(p1)
    BY <2>1, <2>2, <2>7, <2>8, QuietAffects
  <2> QED
    BY <1>1, <2>9, AdoptionKept
<1>5. ASSUME NEW p \in Created, Await(p) PROVE Adoption'
  <2>1. PICK h : h = Plain("User")
    OBVIOUS
  <2>2. PICK cap : cap = 0
    OBVIOUS
  <2>3. h.rec \notin 1 .. nr /\ cap \notin 1 .. nr
    BY <1>3, <2>1, <2>2 DEF Plain
  <2>4. PerformThen(p, h, h, cap, jobs) /\ UNCHANGED <<np, nr, records, stack, follows>>
    BY <1>5, <2>1, <2>2 DEF Await
  <2>5. Functions(p1) /\ Known(stack')
    BY <1>2, <2>4 DEF Functions
  <2>6. Affects(p1)
    BY <1>2, <2>3, <2>4, <2>5, ThenAffects
  <2> QED
    BY <1>1, <2>6, AdoptionKept
<1>6. ASSUME NEW p \in Created, NEW call \in ThenCalls, Then(p, call) PROVE Adoption'
  <2>1. PICK onF, onR : onF = HandlerFor(call[1], "Identity") /\ onR = HandlerFor(call[2], "Thrower")
    OBVIOUS
  <2>2. PICK cap : cap = nr + 1
    OBVIOUS
  <2>3. onF.rec \notin 1 .. nr /\ onR.rec \notin 1 .. nr /\ cap \notin 1 .. nr
    BY <1>3, <2>1, <2>2 DEF HandlerFor, Plain
  <2>4. /\ PerformThen(p, onF, onR, cap, jobs) /\ UNCHANGED <<stack, follows>>
        /\ np < MaxPromises /\ nr + 1 <= MaxRecords /\ nr' = nr + 1
        /\ records' = [records EXCEPT ![nr + 1] = Record(np + 1, FALSE)]
    BY <1>6, <2>1, <2>2 DEF Then, Room
  <2>5. Functions(p1)
    BY <2>4, NewPair
  <2>6. Known(stack')
    BY <1>2, <2>4
  <2>7. Affects(p1)
    BY <1>2, <2>3, <2>4, <2>5, <2>6, ThenAffects
  <2> QED
    BY <1>1, <2>7, AdoptionKept
<1> QED
  BY <1>4, <1>5, <1>6

\* A reaction job runs.
LEMMA ReactionAdoption ==
  ASSUME Inv, Grows, np' \in Nat, Adoption, RunReactionJob
  PROVE  Adoption'
<1>1. NextJob("reaction") /\ UNCHANGED <<np, nr>>
  BY DEF RunReactionJob
<1>2. jobs # << >> /\ Head(jobs).kind = "reaction"
  BY <1>1 DEF NextJob
<1>3. PICK j : j = Head(jobs)
  OBVIOUS
<1>4. PICK q : q = Tail(jobs)
  OBVIOUS
<1>5. j \in GoodJobs /\ j.kind = "reaction"
  BY <1>2, <1>3, JobFacts
<1>6. /\ q \in Seq(Job) /\ \A i \in 1 .. Len(q) : OldJob(q[i])
      /\ j = jobs[1] /\ 1 \in 1 .. Len(jobs)
  BY <1>2, <1>3, <1>4, RestKnown
<1>7. PICK x : x = j.reaction
  OBVIOUS
<1>8. PICK cap \in 0 .. nr : cap = x.cap
  BY <1>1, <1>3, <1>7, ReactionFacts
<1>9. /\ x.handler.rec \in 0 .. nr
      /\ x.handler.kind # "User" => cap # 0
      /\ x.handler.kind \in {"Resolve", "Reject"} <=> x.handler.rec # 0
      /\ j.argument \in Values
  BY <1>1, <1>3, <1>7, <1>8, ReactionFacts DEF GoodValues
<1>10. cap # 0 => cap \in 1 .. nr /\ \A out, v : Rightful(cap, out, v)
  <2>1. cap # 0 => cap \in 1 .. nr
    BY Bounds DEF Inv
  <2> QED
    BY <1>6, <1>7, <1>8, <2>1, SharedRightful
<1>11. PICK a : a = j.argument
  OBVIOUS
<1>12. PICK s0 : s0 = << >>
  OBVIOUS
<1>13. s0 \in Seq(Frames) /\ Known(s0)
  BY <1>12 DEF Known
<1>14. \A f : f.rec = cap /\ f.kind # "getter" => Known(<<f>>)
  <2> SUFFICES ASSUME NEW f, f.rec = cap, f.kind # "getter" PROVE Known(<<f>>)
    OBVIOUS
  <2>1. \A i \in 1 .. Len(<<f>>) : <<f>>[i] = f
    OBVIOUS
  <2>2. \E k \in 1 .. Len(jobs) : jobs[k].reaction.cap = f.rec
    BY <1>6, <1>7, <1>8
  <2> QED
    BY <2>1, <2>2 DEF Known
<1>15. CASE x.handler.kind = "Identity"
  <2>1. CallResolve(cap, a, q, s0)
    BY <1>3, <1>4, <1>7, <1>8, <1>11, <1>12, <1>15 DEF RunReactionJob
  <2>2. Resolving(a)
    BY <1>5, <1>7, <1>11, <1>15, JobValue
  <2> QED
    BY <1>1, <1>6, <1>9, <1>10, <1>13, <1>15, <2>1, <2>2, ResolveCall
<1>16. CASE x.handler.kind = "Thrower"
  <2>1. CallReject(cap, a, q) /\ stack' = s0
    BY <1>3, <1>4, <1>7, <1>8, <1>11, <1>12, <1>16 DEF RunReactionJob
  <2> QED
    BY <1>1, <1>6, <1>9, <1>10, <1>13, <1>16, <2>1, RejectCall
<1>17. CASE x.handler.kind = "User"
  <2>1. PICK f : f = Frame("handler", cap, a)
    OBVIOUS
  <2>2. /\ stack' = <<f>> /\ jobs' = q /\ KeepPromises /\ UNCHANGED <<records, follows>>
    BY <1>3, <1>4, <1>7, <1>8, <1>11, <1>17, <2>1 DEF RunReactionJob
  <2>3. f.rec = cap /\ f.kind # "getter"
    BY <2>1 DEF Frame
  <2>4. Known(stack')
    BY <1>14, <2>2, <2>3
  <2> QED
    BY <1>1, <1>6, <2>2, <2>4, IdleCall
<1>18. CASE x.handler.kind \in {"Resolve", "Reject"}
  <2>1. PICK r \in 1 .. nr : r = x.handler.rec
    <3>1. nr \in Nat
      BY Bounds DEF Inv
    <3> QED
      BY <1>9, <1>18, <3>1
  <2>2. PICK f : f = Frame("native", cap, Primitive)
    OBVIOUS
  <2>3. f.rec = cap /\ f.kind # "getter" /\ f \in Frames
    <3>1. Primitive \in Values
      BY PromisesAssumption, PlainValues DEF GoodValues
    <3>2. cap \in 0 .. MaxRecords
      BY Bounds DEF Inv
    <3> QED
      BY <2>2, <3>1, <3>2 DEF Frame, Frames
  <2>4. PICK s : s = <<f>>
    OBVIOUS
  <2>5. s \in Seq(Frames) /\ Known(s)
    BY <1>14, <2>3, <2>4
  <2>6. /\ x.handler.kind = "Resolve" => Rightful(r, "FulFilled", a)
        /\ x.handler.kind = "Reject" => Rightful(r, "Rejected", a)
    BY <1>5, <1>6, <1>7, <1>11, <2>1, JobRightful
  <2>7. CASE x.handler.kind = "Resolve"
    <3>1. CallResolve(r, a, q, s)
      BY <1>3, <1>4, <1>7, <1>8, <1>11, <2>1, <2>2, <2>4, <2>7 DEF RunReactionJob
    <3>2. Resolving(a)
      BY <1>5, <1>7, <1>11, <2>7, JobValue
    <3> QED
      BY <1>1, <1>6, <2>5, <2>6, <2>7, <3>1, <3>2, ResolveCall
  <2>8. CASE x.handler.kind = "Reject"
    <3>1. CallReject(r, a, q) /\ stack' = s
      BY <1>3, <1>4, <1>7, <1>8, <1>11, <2>1, <2>2, <2>4, <2>8 DEF RunReactionJob
    <3> QED
      BY <1>1, <1>6, <2>5, <2>6, <2>8, <3>1, RejectCall
  <2> QED
    BY <1>18, <2>7, <2>8
<1> QED
  BY <1>3, <1>7, <1>15, <1>16, <1>17, <1>18 DEF RunReactionJob

\* The functions of what there is are among those made.
LEMMA NothingHolds ==
  ASSUME Inv, NEW r, r \notin 0 .. nr
  PROVE  /\ \A i \in 1 .. Len(jobs) : jobs[i].reaction.cap # r /\ jobs[i].reaction.handler.rec # r
         /\ \A x : Waiting(x) => x.cap # r /\ x.handler.rec # r
<1>1. jobs \in Seq(GoodJobs) /\ Reacting /\ nr \in Nat
  BY Bounds DEF Inv, PromisePart
<1>2. ASSUME NEW i \in 1 .. Len(jobs)
      PROVE  jobs[i].reaction.cap # r /\ jobs[i].reaction.handler.rec # r
  <2>1. PICK j \in GoodJobs : j = jobs[i]
    BY <1>1
  <2>2. CASE j.kind = "reaction"
    <3>1. PICK p \in Created : Delivers(j, p)
      BY <2>2 DEF GoodJobs
    <3> QED
      BY <2>1, <3>1 DEF Delivers, GoodReactions
  <2>3. CASE j.kind # "reaction"
    <3>1. j.reaction = NoReaction
      BY <2>3 DEF GoodJobs
    <3> QED
      BY <1>1, <2>1, <3>1 DEF NoReaction, Reaction, Plain
  <2> QED
    BY <2>2, <2>3
<1>3. ASSUME NEW x, Waiting(x) PROVE x.cap # r /\ x.handler.rec # r
  <2>1. PICK p \in Promises : \/ \E k \in 1 .. Len(fulfillReactions[p]) : x = fulfillReactions[p][k]
                              \/ \E k \in 1 .. Len(rejectReactions[p]) : x = rejectReactions[p][k]
    BY <1>3 DEF Waiting
  <2>2. /\ fulfillReactions[p] \in Seq(GoodReactions(p, FulfillKinds))
        /\ rejectReactions[p] \in Seq(GoodReactions(p, RejectKinds))
    BY <1>1 DEF Reacting
  <2>3. PICK kinds : x \in GoodReactions(p, kinds)
    BY <2>1, <2>2
  <2> QED
    BY <2>3 DEF GoodReactions
<1> QED
  BY <1>2, <1>3

\* A script's then method gets new functions: the promise is not bound to another.
LEMMA UserThenAdoption ==
  ASSUME Inv, Grows, np' \in Nat, Adoption, RunThenableJob, Head(jobs).argument.type # "promise"
  PROVE  Adoption'
<1>1. PICK j : j = Head(jobs)
  OBVIOUS
<1>2. PICK p1 : p1 = j.promise
  OBVIOUS
<1>3. /\ NextJob("thenable") /\ jobs # << >> /\ j.kind = "thenable" /\ j.argument.type # "promise"
      /\ nr + 2 <= MaxRecords /\ nr' = nr + 1 /\ KeepPromises /\ UNCHANGED follows
      /\ records' = [records EXCEPT ![nr + 1] = Record(p1, TRUE)]
      /\ stack' = <<Frame("then", nr + 1, Primitive)>> /\ jobs' = Tail(jobs)
  BY <1>1, <1>2 DEF RunThenableJob, NextJob, Room
<1>4. p1 \in Created /\ state[p1] = "Pending"
  BY <1>1, <1>2, <1>3, ThenableFacts
<1>5. /\ Tail(jobs) \in Seq(Job) /\ \A i \in 1 .. Len(Tail(jobs)) : OldJob(Tail(jobs)[i])
      /\ j = jobs[1] /\ 1 \in 1 .. Len(jobs)
  BY <1>1, <1>3, RestKnown
<1>6. /\ nr \in Nat /\ MaxRecords \in Nat /\ records \in RecordTable /\ 1 .. nr \subseteq Records
      /\ p1 \in Promises /\ MaxPromises \in Nat /\ follows \in [Promises -> 0 .. MaxPromises]
  <2>1. follows \in [Promises -> 0 .. MaxPromises] /\ TypeOK
    BY DEF Inv, TypeOK
  <2> QED
    BY <1>4, <2>1, Bounds
<1>7. Functions(p1)
  <2>1. PICK n \in Records : n = nr + 1
    BY <1>3, <1>6 DEF Records
  <2>2. PICK w : w = Record(p1, TRUE)
    OBVIOUS
  <2>3. records' = [records EXCEPT ![n] = w]
    BY <1>3, <2>1, <2>2
  <2>4. n \notin 1 .. nr
    BY <1>6, <2>1
  <2>5. \A r \in 1 .. nr : records'[r] = records[r]
    BY ONLY <1>6, <2>3, <2>4 DEF RecordTable
  <2>6. records'[nr + 1].promise = p1
    <3>1. records'[n] = w
      BY ONLY <1>6, <2>3, n \in Records DEF RecordTable
    <3>2. w.promise = p1
      BY <2>2 DEF Record
    <3> QED
      BY <2>1, <3>1, <3>2
  <2>7. \A r \in 1 .. nr' : r \notin 1 .. nr => r = nr + 1
    BY <1>3, <1>6
  <2> QED
    BY <2>5, <2>6, <2>7 DEF Functions
<1>8. \A i \in 1 .. Len(stack') : OldFrame(stack'[i]) \/ NewFrame(stack'[i], p1)
  <2>1. PICK f : f = Frame("then", nr + 1, Primitive)
    OBVIOUS
  <2>2. f.kind = "then" /\ f.rec = nr + 1
    BY <2>1 DEF Frame
  <2>3. \A i \in 1 .. Len(stack') : stack'[i] = f
    BY <1>3, <2>1
  <2> QED
    BY <1>6, <2>2, <2>3 DEF NewFrame
<1>9. \A i \in 1 .. Len(jobs') : OldJob(jobs'[i])
  BY <1>3, <1>5
<1>10. Affects(p1)
  BY <1>3, <1>7, <1>8, <1>9, QuietAffects
<1>11. PICK q1 : q1 = follows[p1]
  OBVIOUS
<1>12. q1 = 0 \/ AskedAgain(q1)
  <2>1. Follows(p1, q1)
    BY <1>6, <1>11 DEF Adoption
  <2>2. ~ BoundTo(p1, q1)
    <3>1. PromiseValue(q1).type = "promise"
      BY DEF PromiseValue
    <3> QED
      BY <1>2, <1>3, <1>5, <3>1 DEF BoundTo
  <2> QED
    BY <1>4, <2>1, <2>2 DEF Follows
<1>13. Follows(p1, follows[p1])'
  <2>1. q1 # 0 => q1 \in Promises
    BY <1>6, <1>11 DEF Promises
  <2>2. Follows(p1, q1)'
    BY <1>6, <1>12, <2>1, OutcomesStay DEF Follows
  <2> QED
    BY <1>3, <1>11, <2>2 DEF Follows
<1>14. PlainOutcome(p1)'
  BY <1>3, <1>4 DEF PlainOutcome, KeepPromises
<1> QED
  BY <1>4, <1>10, <1>13, <1>14, AdoptionKept

\* A promise calls then on the one it follows: only the reactions it makes there have the
\* new functions.
LEMMA FollowAdoption ==
  ASSUME Inv, Grows, np' \in Nat, Adoption, RunThenableJob, Head(jobs).argument.type = "promise"
  PROVE  Adoption'
<1>1. PICK j : j = Head(jobs)
  OBVIOUS
<1>2. PICK p1 : p1 = j.promise
  OBVIOUS
<1>3. PICK z : z = j.argument.promise
  OBVIOUS
<1>4. PICK q : q = Tail(jobs)
  OBVIOUS
<1>5. PICK onF, onR, cap : /\ onF = [kind |-> "Resolve", rec |-> nr + 1]
                           /\ onR = [kind |-> "Reject", rec |-> nr + 1]
                           /\ cap = nr + 2
  OBVIOUS
<1>6. /\ NextJob("thenable") /\ nr + 2 <= MaxRecords /\ np < MaxPromises /\ nr' = nr + 2
      /\ UNCHANGED <<stack, follows>>
      /\ records' = [records EXCEPT ![nr + 1] = Record(p1, FALSE), ![nr + 2] = Record(np + 1, FALSE)]
  BY <1>1, <1>2 DEF RunThenableJob, Room
<1>7. PerformThen(z, onF, onR, cap, q)
  BY <1>1, <1>3, <1>4, <1>5 DEF RunThenableJob
<1>8. /\ jobs # << >> /\ stack = << >> /\ j.kind = "thenable" /\ j.argument.type = "promise"
  BY <1>1, <1>6 DEF NextJob
<1>9. /\ q \in Seq(Job) /\ \A i \in 1 .. Len(q) : OldJob(q[i])
      /\ j = jobs[1] /\ 1 \in 1 .. Len(jobs)
  BY <1>1, <1>4, <1>8, RestKnown
<1>10. PICK s : s = << >>
  OBVIOUS
<1>11. /\ p1 \in Created /\ state[p1] = "Pending" /\ j.argument \in GoodValues(np)
       /\ ControlPart(records, nr, q, s, p1)
  BY <1>1, <1>2, <1>4, <1>6, <1>10, ThenableFacts
<1>12. /\ nr \in Nat /\ np \in Nat /\ MaxRecords \in Nat /\ records \in RecordTable
       /\ 1 .. nr \subseteq Records /\ p1 \in Promises /\ MaxPromises \in Nat
       /\ Len(reg) \in Nat /\ reg \in Seq(Promises)
       /\ follows \in [Promises -> 0 .. MaxPromises]
  <2>1. follows \in [Promises -> 0 .. MaxPromises] /\ TypeOK /\ reg \in Seq(Promises)
    BY DEF Inv, TypeOK
  <2> QED
    BY <1>11, <2>1, Bounds
<1>13. z \in Created
  BY <1>3, <1>8, <1>11 DEF GoodValues, Created
<1>14. Unowned(records, nr, q, s, p1)
  BY <1>9, <1>11, <1>12, NoOwners
<1>15. /\ \A r \in 1 .. nr : records'[r] = records[r]
       /\ records'[nr + 1] = Record(p1, FALSE) /\ records'[nr + 2] = Record(np + 1, FALSE)
  <2>1. PICK n1 \in Records, n2 \in Records : n1 = nr + 1 /\ n2 = nr + 2
    BY <1>6, <1>12 DEF Records
  <2>2. n1 # n2 /\ n1 \notin 1 .. nr /\ n2 \notin 1 .. nr
    BY <1>12, <2>1
  <2>3. PICK w1, w2 : w1 = Record(p1, FALSE) /\ w2 = Record(np + 1, FALSE)
    OBVIOUS
  <2>4. records' = [records EXCEPT ![n1] = w1, ![n2] = w2]
    BY <1>6, <2>1, <2>3
  <2>5. /\ \A r \in 1 .. nr : records'[r] = records[r]
        /\ records'[n1] = w1 /\ records'[n2] = w2
    BY ONLY <1>12, <2>2, <2>4, n1 \in Records, n2 \in Records DEF RecordTable
  <2> QED
    BY <2>1, <2>3, <2>5
<1>16. \A r \in 1 .. nr' : r \in 1 .. nr \/ r = nr + 1 \/ r = nr + 2
  BY <1>6, <1>12
<1>17. Functions(p1)
  <2>1. np + 1 \notin Created
    BY <1>12 DEF Created
  <2> QED
    BY <1>15, <1>16, <2>1 DEF Functions, Record
<1>18. Known(stack')
  BY <1>6, <1>8 DEF Known
<1>19. cap \notin 1 .. nr /\ onF.rec \notin 1 .. nr /\ onR.rec \notin 1 .. nr
  BY <1>5, <1>12
<1>20. Affects(p1)
  BY <1>6, <1>7, <1>9, <1>13, <1>17, <1>18, <1>19, ThenAffects
<1>21. state' = state /\ result' = result /\ reg' = Append(reg, z)
  BY <1>7 DEF PerformThen
<1>22. PlainOutcome(p1)'
  BY <1>11, <1>21 DEF PlainOutcome
<1>23. PICK q1 : q1 = follows[p1]
  OBVIOUS
<1>24. Follows(p1, q1)
  BY <1>12, <1>23 DEF Adoption
<1>25. Follows(p1, q1)'
  <2>1. q1 # 0 => q1 \in Promises
    BY <1>12, <1>23 DEF Promises
  <2>2. CASE q1 = 0 \/ AskedAgain(q1)
    BY <1>12, <2>1, <2>2, OutcomesStay DEF Follows
  <2>3. CASE q1 # 0 /\ BoundTo(p1, q1)
    <3>1. z = q1
      <4>1. j.argument = PromiseValue(q1)
        BY <1>2, <1>8, <1>9, <2>3 DEF BoundTo
      <4> QED
        BY <1>3, <4>1 DEF PromiseValue
    <3>2. PICK id : id = Len(reg) + 1
      OBVIOUS
    <3>3. reg'[id] = q1
      BY <1>12, <1>21, <3>1, <3>2
    <3>4. PICK r : r = nr + 1
      OBVIOUS
    <3>5. r \notin 0 .. nr
      BY <1>12, <3>4
    <3>6. /\ \A i \in 1 .. Len(jobs) : jobs[i].reaction.cap # r /\ jobs[i].reaction.handler.rec # r
          /\ \A x : Waiting(x) => x.cap # r /\ x.handler.rec # r
      BY <3>5, NothingHolds
    <3>7. PICK xF, xR : xF = Reaction(id, onF, cap) /\ xR = Reaction(id, onR, cap)
      OBVIOUS
    <3>8. xF.id = id /\ xR.id = id /\ xF.cap # r /\ xR.cap # r
      BY <1>5, <1>12, <3>4, <3>7 DEF Reaction
    <3>9. /\ Apart(xF, r, q1)' /\ Apart(xR, r, q1)'
          /\ \A x : Waiting(x) => Apart(x, r, q1)'
          /\ \A i \in 1 .. Len(q) : q[i].reaction.cap # r /\ q[i].reaction.handler.rec # r
      BY <1>9, <3>3, <3>6, <3>8 DEF Apart, OldJob
    <3>10. Private(r, q1)'
      <4>1. PerformThen(z, onF, onR, cap, q) /\ z \in Promises
        BY <1>7, <2>1, <2>3, <3>1
      <4>2. /\ fulfillReactions \in [Promises -> Seq(Reactions)]
            /\ rejectReactions \in [Promises -> Seq(Reactions)]
        BY DEF Inv, TypeOK
      <4>3. \A pp \in Promises :
              /\ fulfillReactions'[pp] = fulfillReactions[pp] \/ fulfillReactions'[pp] = Append(fulfillReactions[pp], xF)
              /\ rejectReactions'[pp] = rejectReactions[pp] \/ rejectReactions'[pp] = Append(rejectReactions[pp], xR)
        BY <3>2, <3>7, <4>1, <4>2 DEF PerformThen
      <4>4. ASSUME NEW f \in Seq(Reactions), NEW x, NEW i \in 1 .. Len(Append(f, x))
            PROVE  (i \in 1 .. Len(f) /\ Append(f, x)[i] = f[i]) \/ Append(f, x)[i] = x
        <5>1. Len(f) \in Nat /\ Len(Append(f, x)) = Len(f) + 1
          OBVIOUS
        <5> QED
          BY <5>1
      <4>5. ASSUME NEW pp \in Promises, NEW i \in 1 .. Len(fulfillReactions'[pp])
            PROVE  Apart(fulfillReactions[pp][i], r, q1)'
        <5>1. PICK f \in Seq(Reactions) : f = fulfillReactions[pp]
          BY <4>2
        <5>2. (i \in 1 .. Len(f) /\ fulfillReactions'[pp][i] = f[i]) \/ fulfillReactions'[pp][i] = xF
          BY <4>3, <4>4, <5>1
        <5>3. \A k \in 1 .. Len(f) : Waiting(f[k])
          BY <5>1 DEF Waiting
        <5> QED
          BY <3>9, <5>2, <5>3 DEF Apart
      <4>6. ASSUME NEW pp \in Promises, NEW i \in 1 .. Len(rejectReactions'[pp])
            PROVE  Apart(rejectReactions[pp][i], r, q1)'
        <5>1. PICK f \in Seq(Reactions) : f = rejectReactions[pp]
          BY <4>2
        <5>2. (i \in 1 .. Len(f) /\ rejectReactions'[pp][i] = f[i]) \/ rejectReactions'[pp][i] = xR
          BY <4>3, <4>4, <5>1
        <5>3. \A k \in 1 .. Len(f) : Waiting(f[k])
          BY <5>1 DEF Waiting
        <5> QED
          BY <3>9, <5>2, <5>3 DEF Apart
      <4>7. ASSUME NEW i \in 1 .. Len(jobs') PROVE Apart(jobs[i].reaction, r, q1)'
        <5>1. CASE jobs' = q
          BY <3>9, <5>1 DEF Apart
        <5>2. ASSUME NEW x \in {xF, xR}, jobs' = Append(q, ReactionJob(x, result[z]))
              PROVE  Apart(jobs[i].reaction, r, q1)'
          <6>1. PICK k : k = ReactionJob(x, result[z])
            OBVIOUS
          <6>2. jobs' = Append(q, k) /\ Len(q) \in Nat
            BY <1>9, <5>2, <6>1
          <6>3. (i \in 1 .. Len(q) /\ jobs'[i] = q[i]) \/ jobs'[i] = k
            BY ONLY <1>9, <6>2, i \in 1 .. Len(jobs')
          <6>4. k.reaction = x
            BY <6>1 DEF ReactionJob
          <6> QED
            BY <3>9, <6>3, <6>4 DEF Apart
        <5> QED
          BY <3>2, <3>7, <4>1, <5>1, <5>2 DEF PerformThen
      <4>8. ~ records'[r].exposed
        BY <1>15, <3>4 DEF Record
      <4>9. \A i \in 1 .. Len(stack') : stack'[i].rec # r
        BY <1>6, <1>8
      <4> QED
        BY <4>5, <4>6, <4>7, <4>8, <4>9 DEF Private
    <3>11. ASSUME NEW i \in 1 .. Len(jobs'), jobs'[i].kind = "thenable", jobs'[i].promise = p1
           PROVE  FALSE
      <4>1. \/ jobs' = q
            \/ \E x, v : jobs' = Append(q, ReactionJob(x, v))
        BY <1>7 DEF PerformThen
      <4>2. CASE jobs' = q
        BY <1>14, <3>11, <4>2 DEF Unowned
      <4>3. ASSUME NEW k, k.kind = "reaction", jobs' = Append(q, k) PROVE FALSE
        <5>1. (i \in 1 .. Len(q) /\ jobs'[i] = q[i]) \/ jobs'[i] = k
          <6>1. Len(q) \in Nat
            BY <1>9
          <6> QED
            BY ONLY <1>9, <4>3, <6>1, i \in 1 .. Len(jobs')
        <5> QED
          BY <1>14, <3>11, <4>3, <5>1 DEF Unowned
      <4> QED
        BY <4>1, <4>2, <4>3 DEF ReactionJob
    <3>12. ASSUME NEW k \in 1 .. nr', records'[k].promise = p1, ~ records'[k].alreadyResolved
           PROVE  Private(k, q1)'
      <4>1. k \notin 1 .. nr
        BY <1>14, <1>15, <3>12 DEF Unowned
      <4>2. k # nr + 2
        BY <1>11, <1>12, <1>15, <3>12 DEF Record, Created
      <4> QED
        BY <1>16, <3>4, <3>10, <4>1, <4>2
    <3>13. \A i \in 1 .. Len(stack') : stack'[i].kind # "getter"
      BY <1>6, <1>8
    <3>14. BoundTo(p1, q1)'
      BY <3>11, <3>12, <3>13 DEF BoundTo
    <3> QED
      BY <1>11, <1>21, <3>14 DEF Follows
  <2> QED
    BY <1>11, <1>24, <2>2, <2>3 DEF Follows
<1>26. Follows(p1, follows[p1])'
  BY <1>6, <1>23, <1>25 DEF Follows
<1> QED
  BY <1>11, <1>20, <1>22, <1>26, AdoptionKept

\* Every step keeps what is known of promises that follow others.
LEMMA NextAdoption ==
  ASSUME Inv, Adoption, Next
  PROVE  Adoption'
<1>1. Grows /\ np' \in Nat
  <2>1. Inv' /\ Grows
    BY NextInv
  <2>2. np' \in 0 .. MaxPromises
    BY <2>1 DEF Inv, TypeOK
  <2> QED
    BY <2>1, <2>2
<1>2. CASE Script
  BY <1>1, <1>2, MakingAdoption, ScriptAdoption DEF Script
<1>3. CASE FrameEnds
  BY <1>1, <1>3, QuietAdoption, FrameAdoption, GetterAdoption DEF FrameEnds
<1>4. CASE RunJob
  BY <1>1, <1>4, ReactionAdoption, UserThenAdoption, FollowAdoption DEF RunJob
<1>5. CASE EvalScript
  BY <1>1, <1>5, QuietAdoption
<1> QED
  BY <1>2, <1>3, <1>4, <1>5 DEF Next

\* In the initial state nothing follows anything.
LEMMA InitAdoption ==
  Init => Adoption
<1> SUFFICES ASSUME Init PROVE Adoption
  OBVIOUS
<1>1. \A p \in Promises : state[p] = "Pending" /\ follows[p] = 0
  BY DEF Init
<1>2. \A i \in 1 .. Len(stack) : stack[i].kind # "getter"
  <2>1. PICK f : f = Frame("prompt", 0, Primitive)
    OBVIOUS
  <2>2. stack = <<f>> /\ f.kind = "prompt"
    BY <2>1 DEF Init, Frame
  <2> QED
    BY <2>2
<1> QED
  BY <1>1, <1>2 DEF Adoption, PlainOutcome, Follows

\* Promises that follow others: what can settle them is bound to those, and they end alike.
THEOREM PromisesAdoption == Spec => []Adoption
<1>1. Init => Adoption
  BY InitAdoption
<1>2. Inv /\ Adoption /\ [Next]_vars => Adoption'
  <2>1. Inv /\ Adoption /\ Next => Adoption'
    BY NextAdoption
  <2>2. Adoption /\ UNCHANGED vars => Adoption'
    BY DEF vars, Adoption, PlainOutcome, Follows, AskedAgain, BoundTo, Alike, Private, Apart, Created
  <2> QED
    BY <2>1, <2>2
<1> QED
  BY <1>1, <1>2, PromisesInvariance, PTL DEF Spec

\* A promise that was last resolved with promise q settles after q and like q, unless the
\* value of q is an object that has to be asked for its then again (promiseResolveFunctions
\* and PromiseResolveThenableJob::run).
THEOREM PromisesAdoptOutcome == Spec => []AdoptsOutcome
<1>1. ASSUME Inv, Adoption PROVE AdoptsOutcome
  <2> SUFFICES ASSUME NEW p \in Created, follows[p] # 0, state[p] # "Pending"
               PROVE  /\ state[follows[p]] # "Pending"
                      /\ result[follows[p]].type # "accessor" =>
                           state[p] = state[follows[p]] /\ result[p] = result[follows[p]]
    BY DEF AdoptsOutcome
  <2>1. p \in Promises
    BY <1>1, Bounds DEF Inv
  <2>2. Follows(p, follows[p])
    BY <1>1, <2>1 DEF Adoption
  <2> QED
    BY <2>2 DEF Follows, AskedAgain, Alike
<1> QED
  BY <1>1, PromisesInvariance, PromisesAdoption, PTL
-----------------------------------------------------------------------------
(* The order of reactions, with q for the job queue and rn for the reactions *)
(* whose job was run.                                                        *)

QueuedIn(id, q) == \E i \in 1 .. Len(q) : q[i].reaction.id = id

\* The reactions of a settled promise have been taken from it.
Cleared ==
    \A p \in Promises :
      state[p] # "Pending" => fulfillReactions[p] = << >> /\ rejectReactions[p] = << >>

\* Both reactions of a call have its number, and the calls come one after the other.
Numbered ==
    \A p \in Promises : \A k \in 1 .. Len(fulfillReactions[p]) :
      /\ rejectReactions[p][k].id = fulfillReactions[p][k].id
      /\ \A i \in 1 .. k - 1 : fulfillReactions[p][i].id < fulfillReactions[p][k].id

\* The jobs of one promise are queued in the order of the calls.
Ordered(q) ==
    \A i, k \in 1 .. Len(q) :
      (i < k /\ q[i].kind = "reaction" /\ q[k].kind = "reaction"
         /\ reg[q[i].reaction.id] = reg[q[k].reaction.id])
        => q[i].reaction.id < q[k].reaction.id

\* Nothing is lost: a reaction that has not run is queued or waits.
Complete(q, rn) == \A id \in 1 .. Len(reg) : id \in rn \/ QueuedIn(id, q) \/ Waits(id)

\* Nothing is run twice: a queued reaction has not run, nor has one that waits.
Once(q, rn) ==
    /\ \A i \in 1 .. Len(q) : q[i].reaction.id \notin rn
    /\ \A p \in Promises : \A k \in 1 .. Len(fulfillReactions[p]) : fulfillReactions[p][k].id \notin rn

\* Nothing is overtaken by what has run.
RanFirst(rn) ==
    /\ rn \subseteq 1 .. Len(reg)
    /\ \A i \in rn : \A j \in 1 .. i : reg[j] = reg[i] => j \in rn

InOrder(q, rn) ==
    Cleared /\ Numbered /\ Ordered(q) /\ Complete(q, rn) /\ Once(q, rn) /\ RanFirst(rn)

\* What the numbers of reactions say.
LEMMA NumberFacts ==
  ASSUME Inv, NEW q \in Seq(GoodJobs)
  PROVE  /\ \A i \in 1 .. Len(q) : q[i].kind = "reaction" =>
              /\ q[i].reaction.id \in 1 .. Len(reg) /\ reg[q[i].reaction.id] \in Promises
              /\ state[reg[q[i].reaction.id]] # "Pending"
         /\ \A i \in 1 .. Len(q) : q[i].kind # "reaction" => q[i].reaction.id = 0
         /\ \A p \in Promises :
              /\ fulfillReactions[p] \in Seq(Reactions) /\ rejectReactions[p] \in Seq(Reactions)
              /\ Len(fulfillReactions[p]) \in Nat /\ Len(fulfillReactions[p]) = Len(rejectReactions[p])
              /\ \A k \in 1 .. Len(fulfillReactions[p]) :
                   fulfillReactions[p][k].id \in 1 .. Len(reg) /\ reg[fulfillReactions[p][k].id] = p
         /\ Len(reg) \in Nat /\ reg \in Seq(Promises) /\ Len(q) \in Nat
<1>1. TypeOK /\ Reacting /\ Created \subseteq Promises /\ Len(reg) \in Nat
  BY Bounds DEF Inv, PromisePart
<1>2. ASSUME NEW i \in 1 .. Len(q), q[i].kind = "reaction"
      PROVE  /\ q[i].reaction.id \in 1 .. Len(reg) /\ reg[q[i].reaction.id] \in Promises
             /\ state[reg[q[i].reaction.id]] # "Pending"
  <2>1. PICK j \in GoodJobs : j = q[i]
    OBVIOUS
  <2>2. PICK p \in Created : Delivers(j, p)
    BY <1>2, <2>1 DEF GoodJobs
  <2>3. j.reaction.id \in 1 .. Len(reg) /\ reg[j.reaction.id] = p /\ state[p] # "Pending"
    BY <2>2 DEF Delivers, GoodReactions
  <2> QED
    BY <1>1, <2>1, <2>3
<1>3. ASSUME NEW i \in 1 .. Len(q), q[i].kind # "reaction" PROVE q[i].reaction.id = 0
  <2>1. PICK j \in GoodJobs : j = q[i]
    OBVIOUS
  <2>2. j.reaction = NoReaction
    BY <1>3, <2>1 DEF GoodJobs
  <2> QED
    BY <2>1, <2>2 DEF NoReaction, Reaction
<1>4. ASSUME NEW p \in Promises
      PROVE  /\ fulfillReactions[p] \in Seq(Reactions) /\ rejectReactions[p] \in Seq(Reactions)
             /\ Len(fulfillReactions[p]) \in Nat /\ Len(fulfillReactions[p]) = Len(rejectReactions[p])
             /\ \A k \in 1 .. Len(fulfillReactions[p]) :
                  fulfillReactions[p][k].id \in 1 .. Len(reg) /\ reg[fulfillReactions[p][k].id] = p
  <2>1. fulfillReactions[p] \in Seq(Reactions) /\ rejectReactions[p] \in Seq(Reactions)
    BY <1>1 DEF TypeOK
  <2>2. /\ fulfillReactions[p] \in Seq(GoodReactions(p, FulfillKinds))
        /\ Len(fulfillReactions[p]) = Len(rejectReactions[p])
    BY <1>1 DEF Reacting
  <2>3. \A k \in 1 .. Len(fulfillReactions[p]) : fulfillReactions[p][k] \in GoodReactions(p, FulfillKinds)
    BY <2>2
  <2> QED
    BY <2>1, <2>2, <2>3 DEF GoodReactions
<1>5. reg \in Seq(Promises) /\ Len(q) \in Nat
  BY <1>1 DEF TypeOK
<1> QED
  BY <1>1, <1>2, <1>3, <1>4, <1>5

\* The promises and the reactions do not change.
LEMMA OrderKept ==
  ASSUME NEW q, NEW rn, InOrder(q, rn), jobs' = q, ran' = rn,
         UNCHANGED <<state, fulfillReactions, rejectReactions, reg>>
  PROVE  InOrder(jobs, ran)'
  BY DEF InOrder, Cleared, Numbered, Ordered, Complete, Once, RanFirst, QueuedIn, Waits

\* A thenable job is queued.
LEMMA OrderQueued ==
  ASSUME Inv, NEW q \in Seq(GoodJobs), NEW rn, InOrder(q, rn), NEW j, j.kind = "thenable",
         j.reaction.id = 0, jobs' = Append(q, j), ran' = rn,
         UNCHANGED <<state, fulfillReactions, rejectReactions, reg>>
  PROVE  InOrder(jobs, ran)'
<1>1. Cleared /\ Numbered /\ Ordered(q) /\ Complete(q, rn) /\ Once(q, rn) /\ RanFirst(rn)
  BY DEF InOrder
<1>2. Cleared' /\ Numbered' /\ RanFirst(ran)'
  BY <1>1 DEF Cleared, Numbered, RanFirst
<1>3. Len(q) \in Nat /\ Len(jobs') = Len(q) + 1 /\ 0 \notin rn
  BY <1>1 DEF RanFirst
<1>4. \A i \in 1 .. Len(jobs') : (i \in 1 .. Len(q) /\ jobs'[i] = q[i]) \/ jobs'[i] = j
  BY <1>3
<1>5. \A i \in 1 .. Len(q) : i \in 1 .. Len(jobs') /\ jobs'[i] = q[i]
  BY <1>3
<1>6. Ordered(jobs)'
  BY <1>1, <1>4 DEF Ordered
<1>7. Complete(jobs, ran)'
  BY <1>1, <1>5 DEF Complete, QueuedIn, Waits
<1>8. Once(jobs, ran)'
  BY <1>1, <1>3, <1>4 DEF Once
<1> QED
  BY <1>2, <1>6, <1>7, <1>8 DEF InOrder

\* The job at the front is taken; the reaction it is for, if any, has run.
LEMMA OrderTaken ==
  ASSUME Inv, InOrder(jobs, ran), jobs # << >>, NEW q, q = Tail(jobs), NEW rn,
         \/ Head(jobs).kind = "reaction" /\ rn = ran \cup {Head(jobs).reaction.id}
         \/ Head(jobs).kind # "reaction" /\ rn = ran
  PROVE  InOrder(q, rn)
<1>1. Cleared /\ Numbered /\ Ordered(jobs) /\ Complete(jobs, ran) /\ Once(jobs, ran) /\ RanFirst(ran)
  BY DEF InOrder
<1>2. jobs \in Seq(GoodJobs)
  BY DEF Inv, PromisePart
<1>3. PICK js \in Seq(GoodJobs) : js = jobs
  BY <1>2
<1>4. /\ Len(js) \in Nat /\ Len(js) # 0 /\ q \in Seq(GoodJobs) /\ Head(js) = js[1]
      /\ Len(q) = Len(js) - 1
      /\ \A i \in 1 .. Len(q) : q[i] = js[i + 1]
  <2>1. js # << >> /\ q = Tail(js)
    BY <1>3
  <2> QED
    BY ONLY <2>1, js \in Seq(GoodJobs), SMTT(30)
<1>5. PICK j : j = jobs[1]
  OBVIOUS
<1>6. /\ Len(jobs) \in Nat /\ Head(jobs) = j /\ Len(q) \in Nat /\ 1 \in 1 .. Len(jobs)
      /\ \A i \in 1 .. Len(q) : i + 1 \in 1 .. Len(jobs) /\ q[i] = jobs[i + 1]
      /\ \A i \in 1 .. Len(jobs) : i = 1 \/ (i - 1 \in 1 .. Len(q) /\ q[i - 1] = jobs[i])
  BY <1>3, <1>4, <1>5
<1>7. /\ \A i \in 1 .. Len(jobs) : jobs[i].kind = "reaction" =>
           /\ jobs[i].reaction.id \in 1 .. Len(reg) /\ reg[jobs[i].reaction.id] \in Promises
           /\ state[reg[jobs[i].reaction.id]] # "Pending"
      /\ \A i \in 1 .. Len(jobs) : jobs[i].kind # "reaction" => jobs[i].reaction.id = 0
      /\ \A p \in Promises : \A k \in 1 .. Len(fulfillReactions[p]) :
           fulfillReactions[p][k].id \in 1 .. Len(reg) /\ reg[fulfillReactions[p][k].id] = p
      /\ Len(reg) \in Nat
  BY <1>2, NumberFacts
<1>8. Ordered(q)
  <2>1. \A i, k \in 1 .. Len(q) : i < k => i + 1 < k + 1
    BY <1>6
  <2> QED
    BY <1>1, <1>6, <2>1 DEF Ordered
<1>9. PICK id : id = j.reaction.id
  OBVIOUS
<1>10. ran \subseteq rn /\ \A m \in rn : m \in ran \/ (m = id /\ j.kind = "reaction")
  BY <1>6, <1>9
<1>11. Complete(q, rn)
  <2> SUFFICES ASSUME NEW m \in 1 .. Len(reg), m \notin rn, ~ Waits(m) PROVE QueuedIn(m, q)
    BY DEF Complete
  <2>1. PICK i \in 1 .. Len(jobs) : jobs[i].reaction.id = m
    BY <1>1, <1>10 DEF Complete, QueuedIn
  <2>2. i # 1
    <3>1. SUFFICES ASSUME m = id PROVE FALSE
      BY <1>5, <1>9, <2>1
    <3>2. m # 0
      BY <1>7
    <3> QED
      BY <1>5, <1>6, <1>7, <1>9, <3>1, <3>2
  <2> QED
    BY <1>6, <2>1, <2>2 DEF QueuedIn
<1>12. j.kind = "reaction" => id \in 1 .. Len(reg) /\ reg[id] \in Promises /\ state[reg[id]] # "Pending"
  BY <1>5, <1>6, <1>7, <1>9
<1>13. Once(q, rn)
  <2>1. ASSUME NEW i \in 1 .. Len(q) PROVE q[i].reaction.id \notin rn
    <3>1. q[i] = jobs[i + 1] /\ i + 1 \in 1 .. Len(jobs) /\ 1 < i + 1
      BY <1>6
    <3>2. q[i].reaction.id \notin ran
      BY <1>1, <3>1 DEF Once
    <3>3. ASSUME j.kind = "reaction", q[i].reaction.id = id PROVE FALSE
      <4>1. q[i].kind = "reaction"
        BY <1>7, <1>12, <3>1, <3>3
      <4>2. id \in Nat /\ id < id
        BY <1>1, <1>5, <1>6, <1>9, <1>12, <3>1, <3>3, <4>1 DEF Ordered
      <4> QED
        BY <4>2
    <3> QED
      BY <1>10, <3>2, <3>3
  <2>2. ASSUME NEW p \in Promises, NEW k \in 1 .. Len(fulfillReactions[p])
        PROVE  fulfillReactions[p][k].id \notin rn
    <3>1. fulfillReactions[p][k].id \notin ran /\ reg[fulfillReactions[p][k].id] = p
      BY <1>1, <1>7 DEF Once
    <3>2. ASSUME j.kind = "reaction", fulfillReactions[p][k].id = id PROVE FALSE
      <4>1. state[p] # "Pending"
        BY <1>12, <3>1, <3>2
      <4>2. fulfillReactions[p] = << >>
        BY <1>1, <4>1 DEF Cleared
      <4> QED
        BY <4>2
    <3> QED
      BY <1>10, <3>1, <3>2
  <2> QED
    BY <2>1, <2>2 DEF Once
<1>14. RanFirst(rn)
  <2>1. rn \subseteq 1 .. Len(reg)
    BY <1>1, <1>10, <1>12 DEF RanFirst
  <2>2. ASSUME NEW m \in rn, NEW k \in 1 .. m, reg[k] = reg[m], k \notin rn PROVE FALSE
    <3>1. m = id /\ j.kind = "reaction"
      BY <1>1, <1>10, <2>2 DEF RanFirst
    <3>2. m \in 1 .. Len(reg) /\ k \in 1 .. Len(reg) /\ k \in Nat /\ m \in Nat /\ k <= m
      BY <1>7, <2>1
    <3>3. ~ Waits(k)
      <4>1. fulfillReactions[reg[k]] = << >>
        BY <1>1, <1>12, <2>2, <3>1 DEF Cleared
      <4> QED
        BY <4>1 DEF Waits
    <3>4. PICK i \in 1 .. Len(q) : q[i].reaction.id = k
      BY <1>11, <2>2, <3>2, <3>3 DEF Complete, QueuedIn
    <3>5. q[i] = jobs[i + 1] /\ i + 1 \in 1 .. Len(jobs) /\ 1 < i + 1
      BY <1>6
    <3>6. jobs[i + 1].kind = "reaction"
      BY <1>7, <3>2, <3>4, <3>5
    <3>7. id < k
      BY <1>1, <1>5, <1>6, <1>9, <2>2, <3>1, <3>4, <3>5, <3>6 DEF Ordered
    <3> QED
      BY <3>1, <3>2, <3>7
  <2> QED
    BY <2>1, <2>2 DEF RanFirst
<1> QED
  BY <1>1, <1>8, <1>11, <1>13, <1>14 DEF InOrder

\* A promise is settled: its reactions are queued behind q, in their order.
LEMMA OrderSettled ==
  ASSUME Inv, NEW q \in Seq(GoodJobs), NEW rn, InOrder(q, rn), NEW p1 \in Promises,
         state[p1] = "Pending", NEW v, Fulfill(p1, v, q) \/ Reject(p1, v, q), reg' = reg, ran' = rn
  PROVE  InOrder(jobs, ran)'
<1>1. Cleared /\ Numbered /\ Ordered(q) /\ Complete(q, rn) /\ Once(q, rn) /\ RanFirst(rn)
  BY DEF InOrder
<1>2. /\ \A i \in 1 .. Len(q) : q[i].kind = "reaction" =>
           /\ q[i].reaction.id \in 1 .. Len(reg) /\ reg[q[i].reaction.id] \in Promises
           /\ state[reg[q[i].reaction.id]] # "Pending"
      /\ \A i \in 1 .. Len(q) : q[i].kind # "reaction" => q[i].reaction.id = 0
      /\ \A p \in Promises :
           /\ fulfillReactions[p] \in Seq(Reactions) /\ rejectReactions[p] \in Seq(Reactions)
           /\ Len(fulfillReactions[p]) \in Nat /\ Len(fulfillReactions[p]) = Len(rejectReactions[p])
           /\ \A k \in 1 .. Len(fulfillReactions[p]) :
                fulfillReactions[p][k].id \in 1 .. Len(reg) /\ reg[fulfillReactions[p][k].id] = p
      /\ Len(reg) \in Nat /\ Len(q) \in Nat
  BY NumberFacts
<1>3. PICK R \in Seq(Reactions) : /\ jobs' = Triggered(q, R, v)
                                  /\ R = fulfillReactions[p1] \/ R = rejectReactions[p1]
  BY <1>2 DEF Fulfill, Reject
<1>4. PICK n \in Nat, m \in Nat : n = Len(R) /\ m = Len(q)
  BY <1>2
<1>5. /\ n = Len(fulfillReactions[p1])
      /\ \A i \in 1 .. n : R[i].id = fulfillReactions[p1][i].id
  BY <1>1, <1>2, <1>3, <1>4 DEF Numbered
<1>6. /\ \A i \in 1 .. n : R[i].id \in 1 .. Len(reg) /\ reg[R[i].id] = p1 /\ R[i].id \notin rn
      /\ \A i, k \in 1 .. n : i < k => R[i].id < R[k].id
  <2>1. \A i \in 1 .. n : R[i].id \in 1 .. Len(reg) /\ reg[R[i].id] = p1 /\ R[i].id \notin rn
    BY <1>1, <1>2, <1>5 DEF Once
  <2>2. \A i, k \in 1 .. n : i < k => i \in 1 .. k - 1
    OBVIOUS
  <2> QED
    BY <1>1, <1>5, <2>1, <2>2 DEF Numbered
<1>7. PICK t : t = [i \in 1 .. n |-> ReactionJob(R[i], v)]
  OBVIOUS
<1>8. \A i \in 1 .. n : t[i].kind = "reaction" /\ t[i].reaction.id = R[i].id
  BY <1>7 DEF ReactionJob
<1>9. /\ Len(jobs') = m + n
      /\ \A i \in 1 .. m : i \in 1 .. Len(jobs') /\ jobs'[i] = q[i]
      /\ \A i \in 1 .. n : m + i \in 1 .. Len(jobs') /\ jobs'[m + i] = t[i]
      /\ \A i \in 1 .. Len(jobs') : i \in 1 .. m \/ i - m \in 1 .. n
  <2>1. jobs' = q \o t /\ m = Len(q)
    BY <1>3, <1>4, <1>7 DEF Triggered
  <2>2. t \in Seq({t[k] : k \in 1 .. n}) /\ Len(t) = n
    BY <1>7
  <2>3. /\ Len(jobs') = m + n
        /\ \A i \in 1 .. m + n : jobs'[i] = IF i <= m THEN q[i] ELSE t[i - m]
    <3>1. Len(q \o t) = Len(q) + Len(t)
      BY ONLY <2>2, q \in Seq(GoodJobs)
    <3>2. Len(q \o t) = m + n
      BY ONLY <2>1, <2>2, <3>1
    <3>3. \A i \in 1 .. m + n : (q \o t)[i] = IF i <= m THEN q[i] ELSE t[i - m]
      BY ONLY <2>1, <2>2, n \in Nat, m \in Nat, q \in Seq(GoodJobs)
    <3> QED
      BY ONLY <2>1, <3>2, <3>3
  <2>4. \A i \in 1 .. m : i \in 1 .. m + n /\ i <= m
    OBVIOUS
  <2>5. \A i \in 1 .. n : m + i \in 1 .. m + n /\ ~ (m + i <= m) /\ (m + i) - m = i
    OBVIOUS
  <2>6. \A i \in 1 .. m + n : i \in 1 .. m \/ i - m \in 1 .. n
    OBVIOUS
  <2> QED
    BY ONLY <2>3, <2>4, <2>5, <2>6
<1>10. \A i \in 1 .. Len(jobs') : \/ i \in 1 .. m /\ jobs'[i] = q[i]
                                  \/ /\ i - m \in 1 .. n /\ jobs'[i].kind = "reaction"
                                     /\ jobs'[i].reaction.id = R[i - m].id
  <2>1. ASSUME NEW i \in 1 .. Len(jobs'), i \notin 1 .. m
        PROVE  i - m \in 1 .. n /\ jobs'[i] = t[i - m]
    <3>1. PICK k \in 1 .. n : i = m + k
      BY <1>9, <2>1
    <3> QED
      BY <1>9, <3>1
  <2> QED
    BY <1>8, <1>9, <2>1
<1>11. /\ state'[p1] # "Pending"
       /\ \A p \in Promises : p # p1 => state'[p] = state[p]
       /\ fulfillReactions'[p1] = << >> /\ rejectReactions'[p1] = << >>
       /\ \A p \in Promises : p # p1 => /\ fulfillReactions'[p] = fulfillReactions[p]
                                        /\ rejectReactions'[p] = rejectReactions[p]
  <2>1. /\ state \in [Promises -> States]
        /\ fulfillReactions \in [Promises -> Seq(Reactions)]
        /\ rejectReactions \in [Promises -> Seq(Reactions)]
    BY DEF Inv, TypeOK
  <2>2. PICK out \in {"FulFilled", "Rejected"} : state' = [state EXCEPT ![p1] = out]
    BY DEF Fulfill, Reject
  <2>3. /\ fulfillReactions' = [fulfillReactions EXCEPT ![p1] = << >>]
        /\ rejectReactions' = [rejectReactions EXCEPT ![p1] = << >>]
    BY DEF Fulfill, Reject, ClearReactions
  <2>4. state'[p1] # "Pending" /\ \A p \in Promises : p # p1 => state'[p] = state[p]
    BY <2>1, <2>2
  <2>5. /\ fulfillReactions'[p1] = << >> /\ rejectReactions'[p1] = << >>
        /\ \A p \in Promises : p # p1 => /\ fulfillReactions'[p] = fulfillReactions[p]
                                         /\ rejectReactions'[p] = rejectReactions[p]
    BY <2>1, <2>3
  <2> QED
    BY <2>4, <2>5
<1>12. Cleared' /\ Numbered'
  <2>1. Cleared'
    BY <1>1, <1>11 DEF Cleared
  <2> SUFFICES ASSUME NEW p \in Promises, NEW k \in 1 .. Len(fulfillReactions'[p])
               PROVE  /\ rejectReactions'[p][k].id = fulfillReactions'[p][k].id
                      /\ \A i \in 1 .. k - 1 : fulfillReactions'[p][i].id < fulfillReactions'[p][k].id
    BY <2>1 DEF Numbered
  <2>2. p # p1
    BY <1>11
  <2> QED
    BY <1>1, <1>11, <2>2 DEF Numbered
<1>13. Ordered(jobs)'
  <2> SUFFICES ASSUME NEW i \in 1 .. Len(jobs'), NEW k \in 1 .. Len(jobs'), i < k,
                      jobs'[i].kind = "reaction", jobs'[k].kind = "reaction",
                      reg[jobs'[i].reaction.id] = reg[jobs'[k].reaction.id]
               PROVE  jobs'[i].reaction.id < jobs'[k].reaction.id
    BY DEF Ordered
  <2>1. CASE i \in 1 .. m /\ k \in 1 .. m
    BY <1>1, <1>4, <1>9, <2>1 DEF Ordered
  <2>2. CASE i \in 1 .. m /\ k \notin 1 .. m
    <3>1. state[reg[jobs'[i].reaction.id]] # "Pending"
      BY <1>2, <1>4, <1>9, <2>2
    <3>2. reg[jobs'[k].reaction.id] = p1
      BY <1>6, <1>10, <2>2
    <3> QED
      BY <3>1, <3>2
  <2>3. CASE i \notin 1 .. m
    <3>1. k \notin 1 .. m /\ i - m < k - m
      BY <1>9, <2>3
    <3> QED
      BY <1>6, <1>10, <2>3, <3>1
  <2> QED
    BY <2>1, <2>2, <2>3
<1>14. Complete(jobs, ran)'
  <2> SUFFICES ASSUME NEW id \in 1 .. Len(reg), id \notin rn
               PROVE  QueuedIn(id, jobs)' \/ Waits(id)'
    BY DEF Complete
  <2>1. QueuedIn(id, q) \/ Waits(id)
    BY <1>1 DEF Complete
  <2>2. CASE QueuedIn(id, q)
    BY <1>4, <1>9, <2>2 DEF QueuedIn
  <2>3. CASE Waits(id)
    <3>1. PICK k \in 1 .. Len(fulfillReactions[reg[id]]) : fulfillReactions[reg[id]][k].id = id
      BY <2>3 DEF Waits
    <3>2. reg[id] \in Promises
      BY DEF Inv, TypeOK
    <3>3. CASE reg[id] = p1
      <4>1. k \in 1 .. n /\ R[k].id = id
        BY <1>5, <3>1, <3>3
      <4> QED
        BY <1>8, <1>9, <4>1 DEF QueuedIn
    <3>4. CASE reg[id] # p1
      <4>1. fulfillReactions'[reg[id]] = fulfillReactions[reg[id]]
        BY <1>11, <3>2, <3>4
      <4> QED
        BY <3>1, <4>1 DEF Waits
    <3> QED
      BY <3>3, <3>4
  <2> QED
    BY <2>1, <2>2, <2>3
<1>15. Once(jobs, ran)'
  <2>1. \A i \in 1 .. Len(jobs') : jobs'[i].reaction.id \notin rn
    BY <1>1, <1>4, <1>6, <1>10 DEF Once
  <2>2. \A p \in Promises : \A k \in 1 .. Len(fulfillReactions'[p]) : fulfillReactions'[p][k].id \notin rn
    BY <1>1, <1>11 DEF Once
  <2> QED
    BY <2>1, <2>2 DEF Once
<1>16. RanFirst(ran)'
  BY <1>1 DEF RanFirst
<1> QED
  BY <1>12, <1>13, <1>14, <1>15, <1>16 DEF InOrder

\* then() makes the reaction with the next number: it waits behind those of its promise,
\* or its job is queued behind q.
LEMMA OrderThen ==
  ASSUME Inv, NEW q \in Seq(GoodJobs), NEW rn, InOrder(q, rn), NEW p1 \in Promises,
         NEW onF, NEW onR, NEW cap, PerformThen(p1, onF, onR, cap, q), ran' = rn
  PROVE  InOrder(jobs, ran)'
<1>1. Cleared /\ Numbered /\ Ordered(q) /\ Complete(q, rn) /\ Once(q, rn) /\ RanFirst(rn)
  BY DEF InOrder
<1>2. /\ \A i \in 1 .. Len(q) : q[i].kind = "reaction" =>
           /\ q[i].reaction.id \in 1 .. Len(reg) /\ reg[q[i].reaction.id] \in Promises
           /\ state[reg[q[i].reaction.id]] # "Pending"
      /\ \A i \in 1 .. Len(q) : q[i].kind # "reaction" => q[i].reaction.id = 0
      /\ \A p \in Promises :
           /\ fulfillReactions[p] \in Seq(Reactions) /\ rejectReactions[p] \in Seq(Reactions)
           /\ Len(fulfillReactions[p]) \in Nat /\ Len(fulfillReactions[p]) = Len(rejectReactions[p])
           /\ \A k \in 1 .. Len(fulfillReactions[p]) :
                fulfillReactions[p][k].id \in 1 .. Len(reg) /\ reg[fulfillReactions[p][k].id] = p
      /\ reg \in Seq(Promises) /\ Len(q) \in Nat
  BY NumberFacts
<1>3. PICK n \in Nat : n = Len(reg)
  BY <1>2
<1>4. /\ Len(reg') = n + 1 /\ reg'[n + 1] = p1 /\ \A i \in 1 .. n : reg'[i] = reg[i]
      /\ state' = state
  <2>1. reg' = Append(reg, p1) /\ state' = state
    BY DEF PerformThen
  <2> QED
    BY <1>2, <1>3, <2>1
<1>5. /\ \A i \in 1 .. Len(q) : q[i].reaction.id \in 0 .. n
      /\ \A i \in 1 .. n : i \in 1 .. n + 1
      /\ \A i \in 1 .. n + 1 : i \in 1 .. n \/ i = n + 1
      /\ n + 1 \notin 1 .. n /\ n + 1 \notin 0 .. n
  <2>1. 0 \in 0 .. n /\ \A i \in 1 .. n : i \in 0 .. n
    OBVIOUS
  <2> QED
    BY <1>2, <1>3, <2>1
<1>6. RanFirst(rn)' /\ n + 1 \notin rn
  <2>1. rn \subseteq 1 .. n
    BY <1>1, <1>3 DEF RanFirst
  <2>2. \A i \in rn : \A j \in 1 .. i : j \in 1 .. n
    BY <2>1
  <2>3. rn \subseteq 1 .. n + 1
    BY <1>5, <2>1
  <2>4. \A i \in rn : \A j \in 1 .. i : reg'[j] = reg'[i] => j \in rn
    BY <1>1, <1>4, <2>1, <2>2 DEF RanFirst
  <2> QED
    BY <1>4, <1>5, <2>1, <2>3, <2>4 DEF RanFirst
<1>7. \A id \in 1 .. n : id \in rn \/ QueuedIn(id, q) \/ Waits(id)
  BY <1>1, <1>3 DEF Complete
<1>8. PICK xF, xR : xF = Reaction(n + 1, onF, cap) /\ xR = Reaction(n + 1, onR, cap)
  OBVIOUS
<1>9. xF.id = n + 1 /\ xR.id = n + 1
  BY <1>8 DEF Reaction
<1>10. CASE state[p1] = "Pending"
  <2>1. /\ jobs' = q
        /\ fulfillReactions' = [fulfillReactions EXCEPT ![p1] = Append(@, xF)]
        /\ rejectReactions' = [rejectReactions EXCEPT ![p1] = Append(@, xR)]
    BY <1>3, <1>8, <1>10 DEF PerformThen
  <2>2. PICK f \in Seq(Reactions), g \in Seq(Reactions) : f = fulfillReactions[p1] /\ g = rejectReactions[p1]
    BY <1>2
  <2>3. PICK m \in Nat : m = Len(f) /\ m = Len(g)
    BY <1>2, <2>2
  <2>4. PICK f2, g2 : f2 = Append(f, xF) /\ g2 = Append(g, xR)
    OBVIOUS
  <2>5. /\ Len(f2) = m + 1 /\ f2[m + 1] = xF /\ g2[m + 1] = xR
        /\ \A i \in 1 .. m : f2[i] = f[i] /\ g2[i] = g[i]
    <3>1. ASSUME NEW h \in Seq(Reactions), NEW x
          PROVE  /\ Len(Append(h, x)) = Len(h) + 1 /\ Append(h, x)[Len(h) + 1] = x
                 /\ \A i \in 1 .. Len(h) : Append(h, x)[i] = h[i]
      BY ONLY <3>1
    <3>2. Len(f2) = m + 1 /\ f2[m + 1] = xF /\ \A i \in 1 .. m : f2[i] = f[i]
      <4>1. /\ Len(f2) = Len(f) + 1 /\ f2[Len(f) + 1] = xF
            /\ \A i \in 1 .. Len(f) : f2[i] = f[i]
        BY <2>4, <3>1, Zenon
      <4> QED
        BY <2>3, <4>1
    <3>3. g2[m + 1] = xR /\ \A i \in 1 .. m : g2[i] = g[i]
      <4>1. g2[Len(g) + 1] = xR /\ \A i \in 1 .. Len(g) : g2[i] = g[i]
        BY <2>4, <3>1, Zenon
      <4> QED
        BY <2>3, <4>1
    <3> QED
      BY <3>2, <3>3
  <2>6. /\ fulfillReactions'[p1] = f2 /\ rejectReactions'[p1] = g2
        /\ \A p \in Promises : p # p1 => /\ fulfillReactions'[p] = fulfillReactions[p]
                                         /\ rejectReactions'[p] = rejectReactions[p]
    <3>1. /\ fulfillReactions \in [Promises -> Seq(Reactions)]
          /\ rejectReactions \in [Promises -> Seq(Reactions)]
      BY DEF Inv, TypeOK
    <3>2. /\ fulfillReactions' = [fulfillReactions EXCEPT ![p1] = f2]
          /\ rejectReactions' = [rejectReactions EXCEPT ![p1] = g2]
      BY <2>1, <2>2, <2>4
    <3> QED
      BY ONLY <3>1, <3>2, p1 \in Promises
  <2>7. /\ \A k \in 1 .. m : f[k].id \in 1 .. n /\ g[k].id = f[k].id /\ f[k].id \notin rn
        /\ \A k \in 1 .. m : \A i \in 1 .. k - 1 : f[i].id < f[k].id
    BY <1>1, <1>2, <1>3, <2>2, <2>3 DEF Numbered, Once
  <2>8. \A k \in 1 .. m + 1 : k \in 1 .. m \/ k = m + 1
    OBVIOUS
  <2>9. \A k \in 1 .. m + 1 : f2[k].id \in 1 .. n + 1 /\ g2[k].id = f2[k].id /\ f2[k].id \notin rn
    BY <1>5, <1>6, <1>9, <2>5, <2>7, <2>8
  <2>10. ASSUME NEW k \in 1 .. m + 1, NEW i \in 1 .. k - 1 PROVE f2[i].id < f2[k].id
    <3>1. i \in 1 .. m
      OBVIOUS
    <3>2. CASE k \in 1 .. m
      BY <2>5, <2>7, <3>1, <3>2
    <3>3. CASE k = m + 1
      <4>1. f2[i].id \in 1 .. n /\ f2[k].id = n + 1
        BY <1>9, <2>5, <2>7, <3>1, <3>3
      <4> QED
        BY <4>1
    <3> QED
      BY <2>8, <3>2, <3>3
  <2>11. Cleared'
    BY <1>1, <1>4, <1>10, <2>6 DEF Cleared
  <2>12. Numbered'
    <3> SUFFICES ASSUME NEW p \in Promises, NEW k \in 1 .. Len(fulfillReactions'[p])
                 PROVE  /\ rejectReactions'[p][k].id = fulfillReactions'[p][k].id
                        /\ \A i \in 1 .. k - 1 : fulfillReactions'[p][i].id < fulfillReactions'[p][k].id
      BY DEF Numbered
    <3>1. CASE p = p1
      BY <2>5, <2>6, <2>9, <2>10, <3>1
    <3>2. CASE p # p1
      BY <1>1, <2>6, <3>2 DEF Numbered
    <3> QED
      BY <3>1, <3>2
  <2>13. Ordered(jobs)'
    <3>1. \A i \in 1 .. Len(q) : q[i].kind = "reaction" => reg'[q[i].reaction.id] = reg[q[i].reaction.id]
      BY <1>2, <1>3, <1>4
    <3> QED
      BY <1>1, <2>1, <3>1 DEF Ordered
  <2>14. Complete(jobs, ran)'
    <3> SUFFICES ASSUME NEW id \in 1 .. n + 1, id \notin rn PROVE QueuedIn(id, jobs)' \/ Waits(id)'
      BY <1>4 DEF Complete
    <3>1. CASE id = n + 1
      <4>1. reg'[id] = p1 /\ m + 1 \in 1 .. m + 1
        BY <1>4, <3>1
      <4> QED
        BY <1>9, <2>5, <2>6, <3>1, <4>1 DEF Waits
    <3>2. CASE id \in 1 .. n /\ QueuedIn(id, q)
      BY <2>1, <3>2 DEF QueuedIn
    <3>3. CASE id \in 1 .. n /\ Waits(id)
      <4>1. PICK k \in 1 .. Len(fulfillReactions[reg[id]]) : fulfillReactions[reg[id]][k].id = id
        BY <3>3 DEF Waits
      <4>2. reg'[id] = reg[id] /\ reg[id] \in Promises
        BY <1>2, <1>3, <1>4, <3>3
      <4>3. CASE reg[id] = p1
        <5>1. k \in 1 .. m /\ f[k].id = id
          BY <2>2, <2>3, <4>1, <4>3
        <5>2. k \in 1 .. m + 1 /\ f2[k].id = id
          BY <2>5, <5>1
        <5> QED
          BY <2>5, <2>6, <4>2, <4>3, <5>2 DEF Waits
      <4>4. CASE reg[id] # p1
        BY <2>6, <4>1, <4>2, <4>4 DEF Waits
      <4> QED
        BY <4>3, <4>4
    <3> QED
      BY <1>5, <1>7, <3>1, <3>2, <3>3
  <2>15. Once(jobs, ran)'
    <3>1. \A i \in 1 .. Len(jobs') : jobs'[i].reaction.id \notin rn
      BY <1>1, <2>1 DEF Once
    <3>2. ASSUME NEW p \in Promises, NEW k \in 1 .. Len(fulfillReactions'[p])
          PROVE  fulfillReactions'[p][k].id \notin rn
      <4>1. CASE p = p1
        BY <2>5, <2>6, <2>9, <4>1
      <4>2. CASE p # p1
        BY <1>1, <2>6, <4>2 DEF Once
      <4> QED
        BY <4>1, <4>2
    <3> QED
      BY <3>1, <3>2 DEF Once
  <2> QED
    BY <1>6, <2>11, <2>12, <2>13, <2>14, <2>15 DEF InOrder, RanFirst
<1>11. CASE state[p1] # "Pending"
  <2>1. PICK x \in {xF, xR} : /\ jobs' = Append(q, ReactionJob(x, result[p1]))
                              /\ UNCHANGED <<fulfillReactions, rejectReactions>>
    BY <1>3, <1>8, <1>11 DEF PerformThen
  <2>2. PICK j : j = ReactionJob(x, result[p1])
    OBVIOUS
  <2>3. j.kind = "reaction" /\ j.reaction.id = n + 1
    BY <1>9, <2>1, <2>2 DEF ReactionJob
  <2>4. PICK m \in Nat : m = Len(q)
    BY <1>2
  <2>5. Len(jobs') = m + 1 /\ jobs'[m + 1] = j /\ \A i \in 1 .. m : jobs'[i] = q[i]
    <3>1. jobs' = Append(q, j)
      BY <2>1, <2>2
    <3> QED
      BY ONLY <2>4, <3>1, q \in Seq(GoodJobs)
  <2>6. /\ \A i \in 1 .. m : i \in 1 .. m + 1
        /\ \A i \in 1 .. m + 1 : i \in 1 .. m \/ i = m + 1
        /\ m + 1 \in 1 .. m + 1
    OBVIOUS
  <2>7. Cleared' /\ Numbered'
    BY <1>1, <1>4, <2>1 DEF Cleared, Numbered
  <2>8. Ordered(jobs)'
    <3> SUFFICES ASSUME NEW i \in 1 .. m + 1, NEW k \in 1 .. m + 1, i < k,
                        jobs'[i].kind = "reaction", jobs'[k].kind = "reaction",
                        reg'[jobs'[i].reaction.id] = reg'[jobs'[k].reaction.id]
                 PROVE  jobs'[i].reaction.id < jobs'[k].reaction.id
      BY <2>5 DEF Ordered
    <3>1. i \in 1 .. m
      OBVIOUS
    <3>2. jobs'[i] = q[i] /\ q[i].kind = "reaction" /\ q[i].reaction.id \in 1 .. n
      BY <1>2, <1>3, <2>4, <2>5, <3>1
    <3>3. CASE k \in 1 .. m
      <4>1. jobs'[k] = q[k] /\ q[k].kind = "reaction" /\ q[k].reaction.id \in 1 .. n
        BY <1>2, <1>3, <2>4, <2>5, <3>3
      <4>2. reg[q[i].reaction.id] = reg[q[k].reaction.id]
        BY <1>4, <3>2, <4>1
      <4> QED
        BY <1>1, <2>4, <3>1, <3>2, <3>3, <4>1, <4>2 DEF Ordered
    <3>4. CASE k = m + 1
      <4>1. jobs'[k].reaction.id = n + 1
        BY <2>3, <2>5, <3>4
      <4>2. jobs'[i].reaction.id \in 1 .. n
        BY <3>2
      <4> QED
        BY <4>1, <4>2
    <3> QED
      BY <2>6, <3>3, <3>4
  <2>9. Complete(jobs, ran)'
    <3> SUFFICES ASSUME NEW id \in 1 .. n + 1, id \notin rn PROVE QueuedIn(id, jobs)' \/ Waits(id)'
      BY <1>4 DEF Complete
    <3>1. CASE id = n + 1
      BY <2>3, <2>5, <2>6, <3>1 DEF QueuedIn
    <3>2. CASE id \in 1 .. n /\ QueuedIn(id, q)
      BY <2>4, <2>5, <2>6, <3>2 DEF QueuedIn
    <3>3. CASE id \in 1 .. n /\ Waits(id)
      BY <1>4, <2>1, <3>3 DEF Waits
    <3> QED
      BY <1>5, <1>7, <3>1, <3>2, <3>3
  <2>10. Once(jobs, ran)'
    <3>1. ASSUME NEW i \in 1 .. m + 1 PROVE jobs'[i].reaction.id \notin rn
      <4>1. CASE i \in 1 .. m
        BY <1>1, <2>4, <2>5, <4>1 DEF Once
      <4>2. CASE i = m + 1
        BY <1>6, <2>3, <2>5, <4>2
      <4> QED
        BY <2>6, <4>1, <4>2
    <3> QED
      BY <1>1, <2>1, <2>5, <3>1 DEF Once
  <2> QED
    BY <1>6, <2>7, <2>8, <2>9, <2>10 DEF InOrder, RanFirst
<1> QED
  BY <1>10, <1>11

\* The resolving functions: a promise they settle is pending.
LEMMA OrderResolve ==
  ASSUME Inv, NEW r \in 1 .. nr, NEW x, NEW q \in Seq(GoodJobs), NEW rn, InOrder(q, rn), NEW s,
         CallResolve(r, x, q, s), reg' = reg, ran' = rn
  PROVE  InOrder(jobs, ran)'
<1>1. CASE records[r].alreadyResolved
  <2>1. jobs' = q /\ KeepPromises
    BY <1>1 DEF CallResolve
  <2> QED
    BY <2>1, OrderKept DEF KeepPromises
<1>2. CASE ~ records[r].alreadyResolved
  <2>1. PICK p1 : p1 = records[r].promise
    OBVIOUS
  <2>2. p1 \in Promises /\ state[p1] = "Pending"
    BY <1>2, <2>1, FirstCall
  <2>3. PICK e : e = Error
    OBVIOUS
  <2>4. \/ Reject(p1, e, q) \/ Fulfill(p1, x, q)
        \/ jobs' = Append(q, ThenableJob(p1, x)) /\ KeepPromises
        \/ jobs' = q /\ KeepPromises
    BY <1>2, <2>1, <2>3 DEF CallResolve, Adopt
  <2>5. CASE Reject(p1, e, q) \/ Fulfill(p1, x, q)
    BY <2>2, <2>5, OrderSettled
  <2>6. CASE jobs' = q /\ KeepPromises
    BY <2>6, OrderKept DEF KeepPromises
  <2>7. CASE jobs' = Append(q, ThenableJob(p1, x)) /\ KeepPromises
    <3>1. PICK j : j = ThenableJob(p1, x)
      OBVIOUS
    <3>2. j.kind = "thenable" /\ j.reaction.id = 0
      BY <3>1 DEF ThenableJob, NoReaction, Reaction
    <3>3. jobs' = Append(q, j) /\ UNCHANGED <<state, fulfillReactions, rejectReactions>>
      BY <2>7, <3>1 DEF KeepPromises
    <3> QED
      BY <3>2, <3>3, OrderQueued
  <2> QED
    BY <2>4, <2>5, <2>6, <2>7
<1> QED
  BY <1>1, <1>2

LEMMA OrderReject ==
  ASSUME Inv, NEW r \in 1 .. nr, NEW v, NEW q \in Seq(GoodJobs), NEW rn, InOrder(q, rn),
         CallReject(r, v, q), reg' = reg, ran' = rn
  PROVE  InOrder(jobs, ran)'
<1>1. CASE records[r].alreadyResolved
  <2>1. jobs' = q /\ KeepPromises
    BY <1>1 DEF CallReject
  <2> QED
    BY <2>1, OrderKept DEF KeepPromises
<1>2. CASE ~ records[r].alreadyResolved
  <2>1. PICK p1 : p1 = records[r].promise
    OBVIOUS
  <2>2. p1 \in Promises /\ state[p1] = "Pending"
    BY <1>2, <2>1, FirstCall
  <2>3. Reject(p1, v, q)
    BY <1>2, <2>1 DEF CallReject
  <2> QED
    BY <2>2, <2>3, OrderSettled
<1> QED
  BY <1>1, <1>2

\* Scripts make promises and reactions, and call functions they were handed.
LEMMA ScriptOrder ==
  ASSUME Inv, InOrder(jobs, ran), Script
  PROVE  InOrder(jobs, ran)'
<1>1. PICK q \in Seq(GoodJobs) : q = jobs
  BY DEF Inv, PromisePart
<1>2. PICK rn : rn = ran
  OBVIOUS
<1>3. InOrder(q, rn) /\ Created \subseteq Promises
  BY <1>1, <1>2, Bounds DEF Inv
<1>4. CASE NewPromise
  <2>1. jobs' = q /\ ran' = rn /\ UNCHANGED <<state, fulfillReactions, rejectReactions, reg>>
    BY <1>1, <1>2, <1>4 DEF NewPromise, KeepPromises
  <2> QED
    BY <1>3, <2>1, OrderKept
<1>5. ASSUME NEW p \in Created, Await(p) \/ \E call \in ThenCalls : Then(p, call)
      PROVE  InOrder(jobs, ran)'
  <2>1. PICK onF, onR, cap : PerformThen(p, onF, onR, cap, q) /\ ran' = rn
    BY <1>1, <1>2, <1>5 DEF Await, Then
  <2> QED
    BY <1>3, <2>1, OrderThen
<1>6. ASSUME NEW r \in 1 .. nr, ScriptRejects(r) PROVE InOrder(jobs, ran)'
  <2>1. PICK v : CallReject(r, v, q) /\ reg' = reg /\ ran' = rn
    BY <1>1, <1>2, <1>6 DEF ScriptRejects
  <2> QED
    BY <1>3, <2>1, OrderReject
<1>7. ASSUME NEW r \in 1 .. nr, NEW x \in Resolutions, ScriptResolves(r, x) PROVE InOrder(jobs, ran)'
  <2>1. PICK s : CallResolve(r, x, q, s) /\ reg' = reg /\ ran' = rn
    BY <1>1, <1>2, <1>7 DEF ScriptResolves
  <2> QED
    BY <1>3, <2>1, OrderResolve
<1> QED
  BY <1>4, <1>5, <1>6, <1>7 DEF Script

\* Scripts, executors and then methods end or start without a call.
LEMMA QuietOrder ==
  ASSUME InOrder(jobs, ran), ScriptEnds \/ ScriptThrows \/ CalleeReturns \/ EvalScript
  PROVE  InOrder(jobs, ran)'
<1>1. PICK q, rn : q = jobs /\ rn = ran
  OBVIOUS
<1>2. jobs' = q /\ ran' = rn /\ UNCHANGED <<state, fulfillReactions, rejectReactions, reg>>
  BY <1>1 DEF ScriptEnds, ScriptThrows, CalleeReturns, EvalScript, KeepPromises
<1> QED
  BY <1>1, <1>2, OrderKept

\* A frame ends with a call of its functions.
LEMMA FrameOrder ==
  ASSUME Inv, InOrder(jobs, ran),
         CalleeThrows \/ HandlerThrows \/ NativeReturns \/ \E x \in Resolutions : HandlerReturns(x)
  PROVE  InOrder(jobs, ran)'
<1>1. PICK q \in Seq(GoodJobs) : q = jobs
  BY DEF Inv, PromisePart
<1>2. PICK rn : rn = ran
  OBVIOUS
<1>3. InOrder(q, rn) /\ stack # << >> /\ reg' = reg /\ ran' = rn
  BY <1>1, <1>2 DEF CalleeThrows, HandlerThrows, NativeReturns, HandlerReturns
<1>4. Top \in GoodFrames(np, records, nr)
  BY <1>3, TopFacts
<1>5. PICK r \in 0 .. nr : r = Top.rec
  BY <1>4 DEF GoodFrames
<1>6. r # 0 => r \in 1 .. nr
  BY Bounds DEF Inv
<1>7. CalleeThrows \/ NativeReturns => r # 0
  BY <1>4, <1>5 DEF GoodFrames, CalleeThrows, NativeReturns
<1>8. \/ r # 0 /\ \E v : CallReject(r, v, q)
      \/ r # 0 /\ \E x, s : CallResolve(r, x, q, s)
      \/ jobs' = q /\ KeepPromises
  <2>1. CASE CalleeThrows
    BY <1>1, <1>5, <1>7, <2>1 DEF CalleeThrows
  <2>2. CASE HandlerThrows
    BY <1>1, <1>5, <2>2 DEF HandlerThrows
  <2>3. CASE NativeReturns
    BY <1>1, <1>5, <1>7, <2>3 DEF NativeReturns
  <2>4. ASSUME NEW x, HandlerReturns(x)
        PROVE  (r # 0 /\ \E s : CallResolve(r, x, q, s)) \/ (jobs' = q /\ KeepPromises)
    BY <1>1, <1>5, <2>4 DEF HandlerReturns
  <2> QED
    BY <2>1, <2>2, <2>3, <2>4
<1>9. ASSUME r # 0, NEW v, CallReject(r, v, q) PROVE InOrder(jobs, ran)'
  BY <1>3, <1>6, <1>9, OrderReject
<1>10. ASSUME r # 0, NEW x, NEW s, CallResolve(r, x, q, s) PROVE InOrder(jobs, ran)'
  BY <1>3, <1>6, <1>10, OrderResolve
<1>11. CASE jobs' = q /\ KeepPromises
  BY <1>3, <1>11, OrderKept DEF KeepPromises
<1> QED
  BY <1>8, <1>9, <1>10, <1>11

\* A getter ends.
LEMMA GetterOrder ==
  ASSUME Inv, InOrder(jobs, ran), GetterEnds
  PROVE  InOrder(jobs, ran)'
<1>1. PICK q \in Seq(GoodJobs) : q = jobs
  BY DEF Inv, PromisePart
<1>2. PICK rn : rn = ran
  OBVIOUS
<1>3. InOrder(q, rn) /\ stack # << >> /\ Top.kind = "getter" /\ reg' = reg /\ ran' = rn
  BY <1>1, <1>2 DEF GetterEnds
<1>4. PICK p1 : p1 = records[Top.rec].promise
  OBVIOUS
<1>5. p1 \in Promises /\ state[p1] = "Pending"
  BY <1>3, <1>4, GetterPending
<1>6. PICK j, v, e : j = ThenableJob(p1, Top.value) /\ v = Top.value /\ e = Error
  OBVIOUS
<1>7. (jobs' = Append(q, j) /\ KeepPromises) \/ Fulfill(p1, v, q) \/ Reject(p1, e, q)
  BY <1>1, <1>4, <1>6 DEF GetterEnds
<1>8. CASE Fulfill(p1, v, q) \/ Reject(p1, e, q)
  BY <1>3, <1>5, <1>8, OrderSettled
<1>9. CASE jobs' = Append(q, j) /\ KeepPromises
  <2>1. j.kind = "thenable" /\ j.reaction.id = 0
    BY <1>6 DEF ThenableJob, NoReaction, Reaction
  <2> QED
    BY <1>3, <1>9, <2>1, OrderQueued DEF KeepPromises
<1> QED
  BY <1>7, <1>8, <1>9

\* A reaction job runs.
LEMMA ReactionOrder ==
  ASSUME Inv, InOrder(jobs, ran), RunReactionJob
  PROVE  InOrder(jobs, ran)'
<1>1. NextJob("reaction") /\ reg' = reg
  BY DEF RunReactionJob
<1>2. jobs # << >> /\ Head(jobs).kind = "reaction"
  BY <1>1 DEF NextJob
<1>3. PICK q \in Seq(GoodJobs) : q = Tail(jobs)
  BY <1>2, JobFacts
<1>4. PICK x : x = Head(jobs).reaction
  OBVIOUS
<1>5. PICK rn : rn = ran \cup {x.id}
  OBVIOUS
<1>6. InOrder(q, rn) /\ ran' = rn
  <2>1. ran' = rn
    BY <1>4, <1>5 DEF RunReactionJob
  <2> QED
    BY <1>2, <1>3, <1>4, <1>5, <2>1, OrderTaken
<1>7. /\ x.cap \in 0 .. nr /\ x.handler.rec \in 0 .. nr
      /\ x.handler.kind # "User" => x.cap # 0
      /\ x.handler.kind \in {"Resolve", "Reject"} <=> x.handler.rec # 0
  BY <1>1, <1>4, ReactionFacts
<1>8. PICK a : a = Head(jobs).argument
  OBVIOUS
<1>9. PICK r : r = IF x.handler.kind \in {"Resolve", "Reject"} THEN x.handler.rec ELSE x.cap
  OBVIOUS
<1>10. \/ \E s : CallResolve(r, a, q, s)
       \/ CallReject(r, a, q)
       \/ x.handler.kind = "User" /\ jobs' = q /\ KeepPromises
  BY <1>3, <1>4, <1>8, <1>9 DEF RunReactionJob
<1>11. x.handler.kind # "User" => r \in 1 .. nr
  <2>1. nr \in Nat
    BY Bounds DEF Inv
  <2> QED
    BY <1>7, <1>9, <2>1
<1>12. x.handler.kind = "User" => jobs' = q /\ KeepPromises
  BY <1>3, <1>4 DEF RunReactionJob
<1>13. ASSUME r \in 1 .. nr, NEW s, CallResolve(r, a, q, s) PROVE InOrder(jobs, ran)'
  BY <1>1, <1>6, <1>13, OrderResolve
<1>14. ASSUME r \in 1 .. nr, CallReject(r, a, q) PROVE InOrder(jobs, ran)'
  BY <1>1, <1>6, <1>14, OrderReject
<1>15. CASE jobs' = q /\ KeepPromises
  BY <1>1, <1>6, <1>15, OrderKept DEF KeepPromises
<1> QED
  BY <1>10, <1>11, <1>12, <1>13, <1>14, <1>15

\* A thenable job runs.
LEMMA ThenableOrder ==
  ASSUME Inv, InOrder(jobs, ran), RunThenableJob
  PROVE  InOrder(jobs, ran)'
<1>1. NextJob("thenable") /\ ran' = ran
  BY DEF RunThenableJob
<1>2. jobs # << >> /\ Head(jobs).kind = "thenable"
  BY <1>1 DEF NextJob
<1>3. PICK q \in Seq(GoodJobs) : q = Tail(jobs)
  BY <1>2, JobFacts
<1>4. PICK rn : rn = ran
  OBVIOUS
<1>5. InOrder(q, rn) /\ ran' = rn
  BY <1>1, <1>2, <1>3, <1>4, OrderTaken
<1>6. CASE Head(jobs).argument.type = "promise"
  <2>1. PICK z : z = Head(jobs).argument.promise
    OBVIOUS
  <2>2. PICK onF, onR, cap : PerformThen(z, onF, onR, cap, q)
    BY <1>3, <1>6, <2>1 DEF RunThenableJob
  <2>3. z \in Promises
    <3>1. Head(jobs).argument \in GoodValues(np)
      BY <1>1, ThenableFacts
    <3>2. z \in Created /\ Created \subseteq Promises
      BY <1>6, <2>1, <3>1, Bounds DEF GoodValues, Created, Inv
    <3> QED
      BY <3>2
  <2> QED
    BY <1>5, <2>2, <2>3, OrderThen
<1>7. CASE Head(jobs).argument.type # "promise"
  <2>1. jobs' = q /\ KeepPromises /\ reg' = reg
    BY <1>3, <1>7 DEF RunThenableJob
  <2> QED
    BY <1>5, <2>1, OrderKept DEF KeepPromises
<1> QED
  BY <1>6, <1>7

\* Every step keeps the order.
LEMMA NextOrder ==
  ASSUME Inv, InOrder(jobs, ran), Next
  PROVE  InOrder(jobs, ran)'
<1>1. CASE Script
  BY <1>1, ScriptOrder
<1>2. CASE FrameEnds
  BY <1>2, QuietOrder, FrameOrder, GetterOrder DEF FrameEnds
<1>3. CASE RunJob
  BY <1>3, ReactionOrder, ThenableOrder DEF RunJob
<1>4. CASE EvalScript
  BY <1>4, QuietOrder
<1> QED
  BY <1>1, <1>2, <1>3, <1>4 DEF Next

\* Reactions are numbered, queued and run in the order of the calls of then().
THEOREM PromisesOrder == Spec => []InOrder(jobs, ran)
<1>1. Init => InOrder(jobs, ran)
  <2> SUFFICES ASSUME Init PROVE InOrder(jobs, ran)
    OBVIOUS
  <2>1. /\ jobs = << >> /\ ran = {} /\ reg = << >>
        /\ \A p \in Promises : fulfillReactions[p] = << >> /\ state[p] = "Pending"
    BY DEF Init
  <2>2. Len(jobs) = 0 /\ Len(reg) = 0 /\ \A p \in Promises : Len(fulfillReactions[p]) = 0
    BY <2>1
  <2>3. Cleared /\ Numbered
    BY <2>1, <2>2 DEF Cleared, Numbered
  <2>4. Ordered(jobs) /\ Complete(jobs, ran) /\ Once(jobs, ran) /\ RanFirst(ran)
    BY <2>1, <2>2 DEF Ordered, Complete, Once, RanFirst
  <2> QED
    BY <2>3, <2>4 DEF InOrder
<1>2. Inv /\ InOrder(jobs, ran) /\ [Next]_vars => InOrder(jobs, ran)'
  <2>1. Inv /\ InOrder(jobs, ran) /\ Next => InOrder(jobs, ran)'
    BY NextOrder
  <2>2. InOrder(jobs, ran) /\ UNCHANGED vars => InOrder(jobs, ran)'
    <3> SUFFICES ASSUME InOrder(jobs, ran), UNCHANGED vars PROVE InOrder(jobs, ran)'
      OBVIOUS
    <3>1. PICK q, rn : q = jobs /\ rn = ran
      OBVIOUS
    <3>2. jobs' = q /\ ran' = rn /\ UNCHANGED <<state, fulfillReactions, rejectReactions, reg>>
      BY <3>1 DEF vars
    <3> QED
      BY <3>1, <3>2, OrderKept
  <2> QED
    BY <2>1, <2>2
<1> QED
  BY <1>1, <1>2, PromisesInvariance, PTL DEF Spec

\* Every reaction that then() made runs at most once and none is lost or overtaken: it has
\* run, is queued or waits, and those of one promise run in the order of the calls
\* (PromiseObject::then, triggerPromiseReactions, VMInstance::executePendingJob).
THEOREM PromisesReactionsInOrder == Spec => []ReactionsInOrder
<1>1. ASSUME Inv, InOrder(jobs, ran) PROVE ReactionsInOrder
  <2>1. Cleared /\ Numbered /\ Ordered(jobs) /\ Complete(jobs, ran) /\ Once(jobs, ran) /\ RanFirst(ran)
    BY <1>1 DEF InOrder
  <2>2. jobs \in Seq(GoodJobs) /\ Created \subseteq Promises
    BY <1>1, Bounds DEF Inv, PromisePart
  <2>3. /\ \A i \in 1 .. Len(jobs) : jobs[i].kind = "reaction" =>
             state[reg[jobs[i].reaction.id]] # "Pending"
        /\ \A i \in 1 .. Len(jobs) : jobs[i].kind # "reaction" => jobs[i].reaction.id = 0
        /\ reg \in Seq(Promises) /\ Len(reg) \in Nat
    BY <1>1, <2>2, NumberFacts
  <2>4. ASSUME NEW id \in 1 .. Len(reg)
        PROVE  /\ id \notin ran <=> Queued(id) \/ Waits(id)
               /\ ~ (Queued(id) /\ Waits(id))
    <3>1. reg[id] \in Promises /\ id # 0
      BY <2>3
    <3>2. id \notin ran => Queued(id) \/ Waits(id)
      BY <2>1 DEF Complete, QueuedIn, Queued
    <3>3. Queued(id) => id \notin ran
      BY <2>1 DEF Once, Queued
    <3>4. Waits(id) => id \notin ran
      BY <2>1, <3>1 DEF Once, Waits
    <3>5. ASSUME Queued(id), Waits(id) PROVE FALSE
      <4>1. PICK i \in 1 .. Len(jobs) : jobs[i].reaction.id = id
        BY <3>5 DEF Queued
      <4>2. state[reg[id]] # "Pending"
        BY <2>3, <3>1, <4>1
      <4>3. fulfillReactions[reg[id]] = << >>
        BY <2>1, <3>1, <4>2 DEF Cleared
      <4> QED
        BY <3>5, <4>3 DEF Waits
    <3> QED
      BY <3>2, <3>3, <3>4, <3>5
  <2>5. ASSUME NEW p \in Created, NEW k \in 1 .. Len(fulfillReactions[p]),
               NEW i \in 1 .. Len(jobs), jobs[i].kind = "reaction", reg[jobs[i].reaction.id] = p
        PROVE  FALSE
    <3>1. fulfillReactions[p] = << >>
      BY <2>1, <2>2, <2>3, <2>5 DEF Cleared
    <3> QED
      BY <3>1
  <2>6. \A p \in Created : Len(rejectReactions[p]) = Len(fulfillReactions[p])
    BY <1>1, <2>2 DEF Inv, PromisePart, Reacting
  <2> QED
    BY <2>1, <2>2, <2>4, <2>5, <2>6 DEF ReactionsInOrder, Numbered, Ordered, RanFirst
<1> QED
  BY <1>1, PromisesInvariance, PromisesOrder, PTL
=============================================================================
