-------------------------- MODULE CodeCacheProofs --------------------------
(***************************************************************************)
(* Proofs about CodeCache for every number of processes, sources, hashes    *)
(* and versions and every size limit: the types and the lock of the         *)
(* directory, the lists in memory and on disk, the sessions and the files.  *)
(* What they say of the types, the lock and the lists holds with every      *)
(* fault of the model; what they say of sessions and data files holds where *)
(* bytecode generation does not throw.                                      *)
(***************************************************************************)
EXTENDS CodeCache, FiniteSetTheorems, TLAPS

-----------------------------------------------------------------------------
(* Types of the values the actions compute                                  *)

\* The entry of a context that has been reset is an entry.
LEMMA EmptyEntryType == EmptyEntry \in Entry
  BY DEF EmptyEntry, Entry, MetaInfo, Kinds

\* A CodeCache object after clear() is a CodeCache object, and is disabled.
LEMMA ClearedType == Cleared \in Object /\ ~Cleared.enabled
  BY EmptyEntryType DEF Cleared, Object, EmptyList, CacheList, Status

\* A reader that has decoded nothing.
LEMMA NoSectionsType == NoSections \in [Kinds -> Seq(Cell)]
  BY DEF NoSections

\* A piece of a sequence of cells is one.
LEMMA SubSeqSeq ==
  ASSUME NEW f \in Seq(Cell), NEW m \in Nat, NEW n \in Nat, m + n <= Len(f)
  PROVE  SubSeq(f, m + 1, m + n) \in Seq(Cell)
  OBVIOUS

\* So is what a write that stops early leaves of it.
LEMMA TruncatedType ==
  ASSUME NEW b \in Seq(Cell), NEW part \in Truncated(b)
  PROVE  part \in Seq(Cell)
<1>1. ASSUME NEW n \in 0 .. Len(b) - 1, part = SubSeq(b, 1, n)
      PROVE  part \in Seq(Cell)
  BY <1>1
<1>2. ASSUME NEW n \in 1 .. Len(b),
             part = SubSeq(b, 1, n - 1) \o <<[b[n] EXCEPT !.kind = "TORN"]>>
      PROVE  part \in Seq(Cell)
  <2>1. b[n] \in Cell
    OBVIOUS
  <2>2. [b[n] EXCEPT !.kind = "TORN"] \in Cell
    BY <2>1 DEF Cell
  <2>3. SubSeq(b, 1, n - 1) \in Seq(Cell)
    OBVIOUS
  <2> HIDE DEF Cell
  <2> QED
    BY <1>2, <2>2, <2>3
<1> QED
  BY <1>1, <1>2 DEF Truncated

\* The object at the end of initialize.
LEMMA EnabledType ==
  ASSUME NEW l \in CacheList
  PROVE  Enabled(l) \in Object
  BY ClearedType DEF Enabled, Object, Status

\* The operations of a session keep an object an object, and none of them enables
\* or disables it.  First its end, in success
LEMMA ReadyType ==
  ASSUME NEW c \in Object
  PROVE  Ready(c) \in Object /\ Ready(c).enabled = c.enabled
  BY EmptyEntryType DEF Ready, ResetContext, Object, Status

\* and in failure;
LEMMA FailedType ==
  ASSUME NEW c \in Object
  PROVE  /\ Failed(c) \in Object
         /\ Failed(c).enabled = c.enabled /\ Failed(c).path = c.path
  BY DEF Failed, Object, Status

\* its start;
LEMMA InProgressType ==
  ASSUME NEW c \in Object, NEW h \in Hashes, NEW e \in Entry, NEW t \in BOOLEAN
  PROVE  /\ InProgress(c, h, e, t) \in Object
         /\ InProgress(c, h, e, t).enabled = c.enabled
         /\ InProgress(c, h, e, t).path = h
  BY DEF InProgress, Object, Status

\* a section that is loaded;
LEMMA SectionLoadedType ==
  ASSUME NEW c \in Object, NEW kind \in Kinds, NEW st \in Status
  PROVE  /\ SectionLoaded(c, kind, st) \in Object
         /\ SectionLoaded(c, kind, st).enabled = c.enabled
         /\ SectionLoaded(c, kind, st).path = c.path
  BY DEF SectionLoaded, Object

\* the meta info of a section;
LEMMA MetaRecordedType ==
  ASSUME NEW c \in Object, NEW kind \in Kinds, NEW n \in Nat
  PROVE  /\ MetaRecorded(c, kind, n) \in Object
         /\ MetaRecorded(c, kind, n).enabled = c.enabled
         /\ MetaRecorded(c, kind, n).path = c.path
  BY DEF MetaRecorded, Object, Entry, MetaInfo

\* a section that is stored
LEMMA SectionStoredType ==
  ASSUME NEW c \in Object, NEW st \in Status, NEW n \in Nat
  PROVE  /\ SectionStored(c, st, n) \in Object
         /\ SectionStored(c, st, n).enabled = c.enabled
         /\ SectionStored(c, st, n).path = c.path
<1>1. c.offset + n \in Nat /\ <<>> \in Seq(Cell)
  BY DEF Object
<1> QED
  BY <1>1 DEF SectionStored, Object

\* or is not;
LEMMA SectionNotStoredType ==
  ASSUME NEW c \in Object, NEW buf \in Seq(Cell)
  PROVE  /\ SectionNotStored(c, buf) \in Object
         /\ SectionNotStored(c, buf).enabled = c.enabled
         /\ SectionNotStored(c, buf).path = c.path
  BY DEF SectionNotStored, Object, Status

\* and an entry that is stamped and added to a list.
LEMMA EntryAddedType ==
  ASSUME NEW c \in Object, NEW l \in CacheList, NEW h \in Hashes, clock \in Nat
  PROVE  /\ EntryAdded(c, l, h) \in Object
         /\ EntryAdded(c, l, h).enabled = c.enabled
         /\ EntryAdded(c, l, h).path = c.path
<1>1. Stamped(c.entry) \in Entry
  BY DEF Stamped, Object, Entry
<1>2. [l EXCEPT ![h] = Stamped(c.entry)] \in CacheList
  BY <1>1 DEF CacheList
<1> QED
  BY <1>1, <1>2 DEF EntryAdded, Object

-----------------------------------------------------------------------------
(* The inductive invariant                                                  *)

\* The lock protocol alone is not inductive: a process keeps the lock through a
\* script only because it is known to be in one, and the types of a session rest
\* on the script it was started for.
IInv == TypeOK /\ SessionNamed /\ ExclusiveDirectory

\* What SessionNamed and ExclusiveDirectory say of one process.
Local(p) ==
    /\ pc[p] \in LoadSteps \cup WriteSteps \cup {"parse"} => src[p] \in Sources
    /\ pc[p] \in LoadSteps \cup (WriteSteps \ {"prepareWrite"}) =>
         cache[p].path = HashOf[src[p]]
    /\ cache[p].enabled \/ pc[p] \notin {"down", "idle"} => lock = p

\* A step of p that leaves the other processes alone, and takes the lock only when
\* it is free or gives up its own, preserves the invariant if it does so locally.
LEMMA Frame ==
  ASSUME IInv, NEW p \in Procs, Local(p)',
         \A q \in Procs \ {p} : pc'[q] = pc[q] /\ src'[q] = src[q] /\ cache'[q] = cache[q],
         lock' = lock \/ lock \in {p, NoProc}
  PROVE  SessionNamed' /\ ExclusiveDirectory'
  BY CodeCacheAssumption DEF IInv, SessionNamed, ExclusiveDirectory, Local

\* No process is running initially.
LEMMA InitIInv == Init => IInv
  BY ClearedType, NoSectionsType, CodeCacheAssumption
  DEF Init, IInv, TypeOK, SessionNamed, ExclusiveDirectory, Steps, LoadSteps, WriteSteps

\* initialize: the lock is taken when it is free.
LEMMA InitializeIInv ==
  ASSUME IInv, NEW p \in Procs,
         \/ LockCacheDir(p) \/ LockCacheDirFails(p)
         \/ InitCacheList(p) \/ InitCacheListFails(p)
  PROVE  IInv'
<1> USE CodeCacheAssumption
<1>1. CASE LockCacheDir(p)
  <2>1. TypeOK'
    BY <1>1 DEF IInv, TypeOK, LockCacheDir, Goto, disk, Steps
  <2>2. Local(p)'
    BY <1>1 DEF IInv, TypeOK, LockCacheDir, Goto, Local, LoadSteps, WriteSteps
  <2>3. SessionNamed' /\ ExclusiveDirectory'
    BY <1>1, <2>2, Frame DEF LockCacheDir, LockAvailable, Goto, IInv, TypeOK
  <2> QED
    BY <2>1, <2>3 DEF IInv
<1>2. CASE LockCacheDirFails(p)
  <2>1. TypeOK'
    BY <1>2 DEF IInv, TypeOK, LockCacheDirFails, Goto, disk, Steps
  <2>2. Local(p)'
    BY <1>2 DEF IInv, TypeOK, ExclusiveDirectory, LockCacheDirFails, Goto, Local, LoadSteps,
                WriteSteps
  <2>3. SessionNamed' /\ ExclusiveDirectory'
    BY <1>2, <2>2, Frame DEF LockCacheDirFails, Goto, IInv, TypeOK
  <2> QED
    BY <2>1, <2>3 DEF IInv
<1>3. CASE InitCacheList(p)
  <2> DEFINE l == IF listFile = NoList THEN EmptyList ELSE listFile.entries
             d == Enabled(l)
  <2>1. l \in CacheList
    BY <1>3 DEF InitCacheList, ListUsable, IInv, TypeOK, List, EmptyList, CacheList
  <2>2. d \in Object
    BY <2>1, EnabledType DEF IInv, TypeOK
  <2>3. cache' = [cache EXCEPT ![p] = d]
    BY <1>3 DEF InitCacheList, SetCache
  <2> HIDE DEF d
  <2>4. TypeOK'
    BY <1>3, <2>2, <2>3 DEF IInv, TypeOK, InitCacheList, Goto, disk, Steps
  <2>5. Local(p)'
    BY <1>3 DEF IInv, TypeOK, ExclusiveDirectory, InitCacheList, Goto, Local, LoadSteps, WriteSteps
  <2>6. SessionNamed' /\ ExclusiveDirectory'
    BY <1>3, <2>3, <2>5, Frame DEF InitCacheList, Goto, IInv, TypeOK
  <2> QED
    BY <2>4, <2>6 DEF IInv
<1>4. CASE InitCacheListFails(p)
  <2>1. TypeOK'
    BY <1>4 DEF IInv, TypeOK, InitCacheListFails, StartClearAll, Goto, disk, Steps, Clearing,
              FileNames
  <2>2. Local(p)'
    BY <1>4 DEF IInv, TypeOK, ExclusiveDirectory, InitCacheListFails, StartClearAll, Goto,
                Local, LoadSteps, WriteSteps
  <2>3. SessionNamed' /\ ExclusiveDirectory'
    BY <1>4, <2>2, Frame DEF InitCacheListFails, StartClearAll, Goto, IInv, TypeOK
  <2> QED
    BY <2>1, <2>3 DEF IInv
<1> QED
  BY <1>1, <1>2, <1>3, <1>4

\* clearCacheDir keeps the lock; clear(), the destructor and a crash release the
\* lock of the process together with its object.
LEMMA ClearIInv ==
  ASSUME IInv, NEW p \in Procs,
         \/ \E f \in FileNames : ClearCacheDir(p, f)
         \/ ClearAfterClearDir(p) \/ Clear(p) \/ Destroy(p) \/ Crash(p)
  PROVE  IInv'
<1> USE CodeCacheAssumption, ClearedType, NoSectionsType
<1>1. ASSUME NEW f \in FileNames, ClearCacheDir(p, f) PROVE IInv'
  <2>1. TypeOK'
    BY <1>1 DEF IInv, TypeOK, ClearCacheDir, disk
  <2> QED
    BY <1>1, <2>1 DEF IInv, SessionNamed, ExclusiveDirectory, ClearCacheDir
<1>2. CASE ClearAfterClearDir(p)
  <2>1. TypeOK'
    BY <1>2 DEF IInv, TypeOK, ClearAfterClearDir, ReleaseLock, EndScript, SetCache, Goto,
                disk, Steps
  <2>2. Local(p)'
    BY <1>2 DEF IInv, TypeOK, ClearAfterClearDir, EndScript, SetCache, Goto, Local,
                LoadSteps, WriteSteps
  <2>3. SessionNamed' /\ ExclusiveDirectory'
    BY <1>2, <2>2, Frame DEF IInv, TypeOK, ClearAfterClearDir, ReleaseLock, EndScript,
                             SetCache, Goto
  <2> QED
    BY <2>1, <2>3 DEF IInv
<1>3. CASE Clear(p)
  <2>1. TypeOK'
    BY <1>3 DEF IInv, TypeOK, Clear, ReleaseLock, SetCache, disk
  <2>2. Local(p)'
    BY <1>3 DEF IInv, TypeOK, Clear, SetCache, Local, LoadSteps, WriteSteps
  <2>3. SessionNamed' /\ ExclusiveDirectory'
    BY <1>3, <2>2, Frame DEF IInv, TypeOK, Clear, ReleaseLock, SetCache
  <2> QED
    BY <2>1, <2>3 DEF IInv
<1>4. CASE Destroy(p) \/ Crash(p)
  <2>1. Gone(p) /\ UNCHANGED <<disk, clock>>
    BY <1>4 DEF Destroy, Crash
  <2>2. info' \in [Procs -> BOOLEAN] /\ lock' \in Procs \cup {NoProc}
    BY <2>1 DEF Gone, ReleaseLock, IInv, TypeOK
  <2>3. TypeOK'
    BY <2>1, <2>2 DEF IInv, TypeOK, Gone, SetCache, Goto, disk, Steps
  <2>4. Local(p)'
    BY <2>1 DEF IInv, TypeOK, Gone, SetCache, Goto, Local, LoadSteps, WriteSteps
  <2>5. SessionNamed' /\ ExclusiveDirectory'
    BY <2>1, <2>4, Frame DEF IInv, TypeOK, Gone, ReleaseLock, SetCache, Goto
  <2> QED
    BY <2>3, <2>5 DEF IInv
<1> QED
  BY <1>1, <1>2, <1>3, <1>4

\* Power loss ends every process; a tick of the clock concerns none.
LEMMA EnvironmentIInv ==
  ASSUME IInv, LosePower \/ Tick
  PROVE  IInv'
<1> USE CodeCacheAssumption, ClearedType, NoSectionsType
<1>1. CASE LosePower
  <2>1. files' \in [Hashes -> Seq(Cell) \cup {NoFile}]
    <3>1. CASE UNCHANGED files
      BY <3>1 DEF IInv, TypeOK
    <3>2. ASSUME NEW h \in Hashes, files[h] # NoFile, NEW n \in 0 .. Len(files[h]),
                 files' = [files EXCEPT ![h] = SubSeq(@, 1, n)]
          PROVE  files' \in [Hashes -> Seq(Cell) \cup {NoFile}]
      <4>1. files[h] \in Seq(Cell)
        BY <3>2 DEF IInv, TypeOK
      <4>2. SubSeq(files[h], 1, n) \in Seq(Cell)
        BY <4>1
      <4> QED
        BY <3>2, <4>2 DEF IInv, TypeOK
    <3> QED
      BY <1>1, <3>1, <3>2 DEF LosePower
  <2>2. listFile' \in List \cup {NoList, TornList}
    BY <1>1 DEF LosePower, IInv, TypeOK
  <2>3. TypeOK'
    BY <1>1, <2>1, <2>2 DEF LosePower, TypeOK, Steps
  <2>4. SessionNamed' /\ ExclusiveDirectory'
    BY <1>1 DEF LosePower, SessionNamed, ExclusiveDirectory, LoadSteps, WriteSteps
  <2> QED
    BY <2>3, <2>4 DEF IInv
<1>2. CASE Tick
  BY <1>2 DEF Tick, disk, proc, IInv, TypeOK, SessionNamed, ExclusiveDirectory
<1> QED
  BY <1>1, <1>2

\* Loading a script from the cache.
LEMMA LoadIInv ==
  ASSUME IInv, NEW p \in Procs,
         \/ \E s \in Sources : PrepareCacheLoading(p, s)
         \/ LoadCacheStringTable(p) \/ LoadCodeBlockTree(p) \/ LoadByteCodeBlock(p)
         \/ PostCacheLoading(p)
  PROVE  IInv'
<1> USE CodeCacheAssumption, NoSectionsType
<1>c. cache[p] \in Object
  BY DEF IInv, TypeOK
<1>1. ASSUME NEW s \in Sources, PrepareCacheLoading(p, s) PROVE IInv'
  <2> DEFINE e == cache[p].list[HashOf[s]]
             d == InProgress(cache[p], HashOf[s], e, FALSE)
  <2>1. e \in Entry
    BY <1>1, <1>c DEF PrepareCacheLoading, CacheHit, Object, CacheList
  <2> HIDE DEF e
  <2>2. d \in Object /\ d.enabled = cache[p].enabled /\ d.path = HashOf[s]
    BY <1>c, <2>1, InProgressType
  <2>3. cache' = [cache EXCEPT ![p] = d]
    BY <1>1 DEF PrepareCacheLoading, SetCache, e
  <2> HIDE DEF d
  <2>4. TypeOK'
    BY <1>1, <2>2, <2>3 DEF IInv, TypeOK, PrepareCacheLoading, Goto, disk, Steps, LoadSteps
  <2>5. Local(p)'
    BY <1>1, <2>2, <2>3 DEF IInv, TypeOK, ExclusiveDirectory, PrepareCacheLoading, Goto, Local
  <2>6. SessionNamed' /\ ExclusiveDirectory'
    BY <1>1, <2>3, <2>5, Frame DEF IInv, TypeOK, PrepareCacheLoading, Goto
  <2> QED
    BY <2>4, <2>6 DEF IInv
<1>2. ASSUME NEW kind \in Kinds, NEW next \in LoadSteps, NEW st \in Status,
             pc[p] \in LoadSteps, LoadSection(p, kind, next, st)
      PROVE  IInv'
  <2>1. PICK d \in Object : /\ cache' = [cache EXCEPT ![p] = d]
                            /\ d.enabled = cache[p].enabled /\ d.path = cache[p].path
    <3>1. cache = [cache EXCEPT ![p] = cache[p]]
      BY DEF IInv, TypeOK
    <3>2. CASE UNCHANGED cache
      BY <1>c, <3>1, <3>2
    <3>3. CASE cache' = [cache EXCEPT ![p] = SectionLoaded(cache[p], kind, st)]
      <4>1. /\ SectionLoaded(cache[p], kind, st) \in Object
            /\ SectionLoaded(cache[p], kind, st).enabled = cache[p].enabled
            /\ SectionLoaded(cache[p], kind, st).path = cache[p].path
        BY <1>c, SectionLoadedType
      <4> QED
        BY <3>3, <4>1
    <3>4. CASE cache' = [cache EXCEPT ![p] = Failed(cache[p])]
      BY <1>c, <3>4, FailedType
    <3> QED
      BY <1>2, <3>2, <3>3, <3>4 DEF LoadSection, SetCache
  <2>2. loaded' \in [Procs -> [Kinds -> Seq(Cell)]]
    <3>1. src[p] \in Sources /\ cache[p].path \in Hashes
      BY <1>2 DEF IInv, SessionNamed
    <3>2. CASE UNCHANGED loaded
      BY <3>2 DEF IInv, TypeOK
    <3> DEFINE file == files[cache[p].path]
               meta == cache[p].entry.meta[kind]
    <3>3. CASE Readable(file, kind, meta) /\ loaded' = [loaded EXCEPT ![p][kind] = Section(file, kind, meta)]
      <4>1. file \in Seq(Cell)
        BY <3>1, <3>3 DEF Readable, IInv, TypeOK
      <4>2. meta \in MetaInfo
        BY <1>c DEF Object, Entry
      <4>3. Section(file, kind, meta) \in Seq(Cell)
        <5>1. /\ SectionStart(kind, meta) \in Nat /\ meta.size \in Nat
              /\ SectionStart(kind, meta) + meta.size <= Len(file)
          BY <3>3, <4>2 DEF Readable, SectionStart, MetaInfo
        <5> HIDE DEF file, meta
        <5> QED
          BY <4>1, <5>1, SubSeqSeq DEF Section
      <4> QED
        BY <3>3, <4>3 DEF IInv, TypeOK
    <3> QED
      BY <1>2, <3>2, <3>3 DEF LoadSection
  <2>3. TypeOK'
    BY <1>2, <2>1, <2>2 DEF IInv, TypeOK, LoadSection, Goto, disk, Steps
  <2>4. Local(p)'
    BY <1>2, <2>1 DEF IInv, TypeOK, SessionNamed, ExclusiveDirectory, LoadSection, Goto,
                      Local, LoadSteps
  <2>5. SessionNamed' /\ ExclusiveDirectory'
    BY <1>2, <2>1, <2>4, Frame DEF IInv, TypeOK, LoadSection, Goto
  <2> QED
    BY <2>3, <2>5 DEF IInv
<1>3. CASE PostCacheLoading(p)
  <2>1. PICK d \in Object : /\ cache' = [cache EXCEPT ![p] = d]
                            /\ d.enabled = cache[p].enabled
    <3>1. CASE UNCHANGED cache
      <4>1. cache = [cache EXCEPT ![p] = cache[p]]
        BY DEF IInv, TypeOK
      <4> QED
        BY <1>c, <3>1, <4>1
    <3>2. CASE cache' = [cache EXCEPT ![p] = Ready(cache[p])]
      BY <1>c, <3>2, ReadyType
    <3> QED
      BY <1>3, <3>1, <3>2 DEF PostCacheLoading, SetCache
  <2>t. /\ pc' \in [Procs -> Steps] /\ src' \in [Procs -> Sources \cup {NoSource}]
        /\ toClear' \in [Procs -> SUBSET FileNames]
        /\ loaded' \in [Procs -> [Kinds -> Seq(Cell)]]
    <3>1. CASE EndScript(p) /\ UNCHANGED toClear
      BY <3>1 DEF IInv, TypeOK, EndScript, Goto, Steps
    <3>2. CASE StartClearAll(p, "clearLoad") /\ UNCHANGED <<src, cache, loaded>>
      BY <3>2 DEF IInv, TypeOK, StartClearAll, Goto, Steps, Clearing, FileNames
    <3> QED
      BY <1>3, <3>1, <3>2 DEF PostCacheLoading
  <2>2. TypeOK'
    BY <1>3, <2>1, <2>t DEF IInv, TypeOK, PostCacheLoading, disk
  <2>3. Local(p)'
    BY <1>3, <2>1 DEF IInv, TypeOK, ExclusiveDirectory, PostCacheLoading, EndScript,
                      StartClearAll, Goto, Local, LoadSteps, WriteSteps
  <2>4. SessionNamed' /\ ExclusiveDirectory'
    BY <1>3, <2>1, <2>3, Frame DEF IInv, TypeOK, PostCacheLoading, EndScript,
                                   StartClearAll, Goto
  <2> QED
    BY <2>2, <2>4 DEF IInv
<1>4. CASE LoadCacheStringTable(p)
  BY <1>2, <1>4 DEF LoadCacheStringTable, Kinds, LoadSteps, Status
<1>5. CASE LoadCodeBlockTree(p)
  BY <1>2, <1>5 DEF LoadCodeBlockTree, Kinds, LoadSteps, Status
<1>6. CASE LoadByteCodeBlock(p)
  BY <1>2, <1>6 DEF LoadByteCodeBlock, Kinds, LoadSteps, Status
<1> QED
  BY <1>1, <1>3, <1>4, <1>5, <1>6

\* Parsing and generating code, which leave the cache alone.
LEMMA CompileIInv ==
  ASSUME IInv, NEW p \in Procs,
         \/ \E s \in Sources : CacheMiss(p, s)
         \/ Parse(p) \/ ParseError(p) \/ GenerateByteCode(p) \/ GenerateByteCodeThrows(p)
  PROVE  IInv'
<1> USE CodeCacheAssumption, NoSectionsType
<1>1. ASSUME NEW s \in Sources, CacheMiss(p, s) PROVE IInv'
  <2>1. TypeOK'
    BY <1>1 DEF IInv, TypeOK, CacheMiss, Goto, disk, Steps
  <2>2. Local(p)'
    BY <1>1 DEF IInv, TypeOK, ExclusiveDirectory, CacheMiss, Goto, Local, LoadSteps, WriteSteps
  <2>3. SessionNamed' /\ ExclusiveDirectory'
    BY <1>1, <2>2, Frame DEF IInv, TypeOK, CacheMiss, Goto
  <2> QED
    BY <2>1, <2>3 DEF IInv
<1>2. CASE Parse(p) \/ GenerateByteCode(p)
  <2>1. TypeOK'
    BY <1>2 DEF IInv, TypeOK, Parse, GenerateByteCode, Goto, disk, Steps, WriteSteps
  <2>2. Local(p)'
    BY <1>2 DEF IInv, TypeOK, SessionNamed, ExclusiveDirectory, Parse, GenerateByteCode,
                Goto, Local, LoadSteps, WriteSteps
  <2>3. SessionNamed' /\ ExclusiveDirectory'
    BY <1>2, <2>2, Frame DEF IInv, TypeOK, Parse, GenerateByteCode, Goto
  <2> QED
    BY <2>1, <2>3 DEF IInv
<1>3. CASE ParseError(p) \/ GenerateByteCodeThrows(p)
  <2>1. /\ pc[p] \in {"parse", "generate"} /\ EndScript(p)
        /\ info' \in [Procs -> BOOLEAN]
        /\ UNCHANGED <<disk, lock, clock, cache, toClear>>
    BY <1>3 DEF IInv, TypeOK, ParseError, GenerateByteCodeThrows
  <2>2. TypeOK'
    BY <2>1 DEF IInv, TypeOK, EndScript, Goto, disk, Steps
  <2>3. Local(p)'
    BY <2>1 DEF IInv, TypeOK, ExclusiveDirectory, EndScript, Goto, Local, LoadSteps, WriteSteps
  <2>4. SessionNamed' /\ ExclusiveDirectory'
    BY <2>1, <2>3, Frame DEF IInv, TypeOK, EndScript, Goto
  <2> QED
    BY <2>2, <2>4 DEF IInv
<1> QED
  BY <1>1, <1>2, <1>3

\* Storing a script in the cache.
LEMMA WriteIInv ==
  ASSUME IInv, NEW p \in Procs,
         \/ PrepareCacheWriting(p) \/ StoreCodeBlockTree(p) \/ StoreByteCodeBlock(p)
         \/ StoreStringTable(p) \/ PostCacheWriting(p) \/ WriteCacheList(p)
  PROVE  IInv'
<1> USE CodeCacheAssumption, NoSectionsType
<1>c. cache[p] \in Object /\ cache = [cache EXCEPT ![p] = cache[p]]
  BY DEF IInv, TypeOK
<1>1. CASE PrepareCacheWriting(p)
  <2> DEFINE h == HashOf[src[p]]
             e == cache[p].entry
             d == InProgress(cache[p], h, e, TRUE)
  <2>1. src[p] \in Sources /\ h \in Hashes /\ e \in Entry
    BY <1>1, <1>c DEF PrepareCacheWriting, IInv, SessionNamed, WriteSteps, Object
  <2> HIDE DEF h, e
  <2>2. d \in Object /\ d.enabled = cache[p].enabled /\ d.path = h
    BY <1>c, <2>1, InProgressType
  <2>3. cache' = [cache EXCEPT ![p] = d]
    BY <1>1 DEF PrepareCacheWriting, SetCache, h, e
  <2> HIDE DEF d
  <2>4. TypeOK'
    BY <1>1, <2>2, <2>3 DEF IInv, TypeOK, PrepareCacheWriting, Goto, disk, Steps, WriteSteps
  <2>5. Local(p)'
    BY <1>1, <2>1, <2>2, <2>3 DEF IInv, TypeOK, ExclusiveDirectory, PrepareCacheWriting,
                                  Goto, Local, h
  <2>6. SessionNamed' /\ ExclusiveDirectory'
    BY <1>1, <2>3, <2>5, Frame DEF IInv, TypeOK, PrepareCacheWriting, Goto
  <2> QED
    BY <2>4, <2>6 DEF IInv
<1>2. ASSUME NEW kind \in Kinds, NEW next \in WriteSteps \ {"prepareWrite"},
             NEW st \in Status, pc[p] \in WriteSteps \ {"prepareWrite"},
             StoreSection(p, kind, next, st)
      PROVE  IInv'
  <2> DEFINE cell == [kind |-> kind, src |-> src[p], ver |-> VersionOf[p]]
             buffer == Append(cache[p].buffer, cell)
             recorded == MetaRecorded(cache[p], kind, Len(buffer))
             opened == OpenedFile(cache[p].path, kind)
  <2>1. src[p] \in Sources /\ cache[p].path \in Hashes
    BY <1>2 DEF IInv, SessionNamed
  <2>2. cell \in Cell
    BY <2>1 DEF Cell
  <2>3. buffer \in Seq(Cell) /\ Len(buffer) \in Nat
    BY <1>c, <2>2 DEF Object
  <2>4. opened \in Seq(Cell)
    BY <2>1 DEF OpenedFile, IInv, TypeOK
  <2>5. /\ recorded \in Object
        /\ recorded.enabled = cache[p].enabled /\ recorded.path = cache[p].path
    BY <1>c, <2>3, MetaRecordedType
  <2>6. PICK d \in Object : /\ cache' = [cache EXCEPT ![p] = d]
                            /\ d.enabled = cache[p].enabled /\ d.path = cache[p].path
    <3> HIDE DEF buffer, recorded
    <3>1. CASE UNCHANGED cache
      BY <1>c, <3>1
    <3>2. CASE cache' = [cache EXCEPT ![p] = SectionStored(recorded, st, Len(buffer))]
      <4> DEFINE d == SectionStored(recorded, st, Len(buffer))
      <4>1. d \in Object /\ d.enabled = recorded.enabled /\ d.path = recorded.path
        BY <2>3, <2>5, SectionStoredType
      <4> QED
        BY <2>5, <3>2, <4>1
    <3>3. CASE cache' = [cache EXCEPT ![p] = SectionNotStored(recorded, buffer)]
      <4> DEFINE d == SectionNotStored(recorded, buffer)
      <4>1. d \in Object /\ d.enabled = recorded.enabled /\ d.path = recorded.path
        BY <2>3, <2>5, SectionNotStoredType
      <4> QED
        BY <2>5, <3>3, <4>1
    <3>4. CASE cache' = [cache EXCEPT ![p] = SectionNotStored(recorded, <<>>)]
      <4> DEFINE d == SectionNotStored(recorded, <<>>)
      <4>1. <<>> \in Seq(Cell)
        OBVIOUS
      <4>2. d \in Object /\ d.enabled = recorded.enabled /\ d.path = recorded.path
        BY <2>5, <4>1, SectionNotStoredType
      <4> QED
        BY <2>5, <3>4, <4>2
    <3> QED
      BY <1>2, <3>1, <3>2, <3>3, <3>4 DEF StoreSection, SetCache, buffer, recorded
  <2>7. files' \in [Hashes -> Seq(Cell) \cup {NoFile}]
    <3>1. ASSUME NEW piece \in Seq(Cell), files' = [files EXCEPT ![cache[p].path] = opened \o piece]
          PROVE  files' \in [Hashes -> Seq(Cell) \cup {NoFile}]
      <4>1. opened \o piece \in Seq(Cell)
        BY <2>4, <3>1
      <4> HIDE DEF opened
      <4> QED
        BY <3>1, <4>1 DEF IInv, TypeOK
    <3>2. CASE UNCHANGED files
      BY <3>2 DEF IInv, TypeOK
    <3>3. \A part \in {buffer} \cup Truncated(buffer) : part \in Seq(Cell)
      <4> HIDE DEF buffer
      <4> QED
        BY <2>3, TruncatedType
    <3> QED
      BY <1>2, <2>3, <3>1, <3>2, <3>3 DEF StoreSection
  <2> HIDE DEF cell, buffer, recorded, opened
  <2>8. TypeOK'
    BY <1>2, <2>6, <2>7 DEF IInv, TypeOK, StoreSection, Goto, disk, Steps
  <2>9. Local(p)'
    BY <1>2, <2>6 DEF IInv, TypeOK, SessionNamed, ExclusiveDirectory, StoreSection, Goto,
                      Local, LoadSteps, WriteSteps
  <2>10. SessionNamed' /\ ExclusiveDirectory'
    BY <1>2, <2>6, <2>9, Frame DEF IInv, TypeOK, StoreSection, Goto
  <2> QED
    BY <2>8, <2>10 DEF IInv
<1>3. CASE PostCacheWriting(p)
  <2>1. src[p] \in Sources /\ cache[p].list \in CacheList /\ clock \in Nat
    BY <1>3, <1>c DEF PostCacheWriting, IInv, TypeOK, SessionNamed, WriteSteps, Object
  <2>2. PICK d \in Object : /\ cache' = [cache EXCEPT ![p] = d]
                            /\ d.enabled = cache[p].enabled /\ d.path = cache[p].path
    <3>1. CASE UNCHANGED cache
      BY <1>c, <3>1
    <3>2. ASSUME NEW l \in CacheList, cache' = [cache EXCEPT ![p] = EntryAdded(cache[p], l, HashOf[src[p]])]
          PROVE  \E d \in Object : /\ cache' = [cache EXCEPT ![p] = d]
                                   /\ d.enabled = cache[p].enabled /\ d.path = cache[p].path
      <4> DEFINE h == HashOf[src[p]]
                 a == EntryAdded(cache[p], l, h)
      <4>1. h \in Hashes
        BY <2>1
      <4> HIDE DEF h
      <4>2. a \in Object /\ a.enabled = cache[p].enabled /\ a.path = cache[p].path
        BY <1>c, <2>1, <4>1, EntryAddedType
      <4> QED
        BY <3>2, <4>2 DEF h
    <3>3. ASSUME NEW h \in Hashes PROVE [cache[p].list EXCEPT ![h] = NoEntry] \in CacheList
      BY <2>1 DEF CacheList
    <3> QED
      BY <1>3, <2>1, <3>1, <3>2, <3>3 DEF PostCacheWriting, SetCache, LRUCandidates, Listed
  <2>3. files' \in [Hashes -> Seq(Cell) \cup {NoFile}]
    BY <1>3 DEF PostCacheWriting, IInv, TypeOK
  <2>t. pc' \in [Procs -> Steps] /\ toClear' \in [Procs -> SUBSET FileNames]
    <3>1. CASE Goto(p, "writeList") /\ UNCHANGED toClear
      BY <3>1 DEF IInv, TypeOK, Goto, Steps, WriteSteps
    <3>2. CASE StartClearAll(p, "clearWrite")
      BY <3>2 DEF IInv, TypeOK, StartClearAll, Goto, Steps, Clearing, FileNames
    <3> QED
      BY <1>3, <3>1, <3>2 DEF PostCacheWriting
  <2>4. TypeOK'
    BY <1>3, <2>2, <2>3, <2>t DEF IInv, TypeOK, PostCacheWriting
  <2>5. Local(p)'
    BY <1>3, <2>2 DEF IInv, TypeOK, SessionNamed, ExclusiveDirectory, PostCacheWriting,
                      StartClearAll, Goto, Local, LoadSteps, WriteSteps
  <2>6. SessionNamed' /\ ExclusiveDirectory'
    BY <1>3, <2>2, <2>5, Frame DEF IInv, TypeOK, PostCacheWriting, StartClearAll, Goto
  <2> QED
    BY <2>4, <2>6 DEF IInv
<1>4. CASE WriteCacheList(p)
  <2>1. PICK d \in Object : /\ cache' = [cache EXCEPT ![p] = d]
                            /\ d.enabled = cache[p].enabled
    <3>1. CASE UNCHANGED cache
      BY <1>c, <3>1
    <3>2. CASE cache' = [cache EXCEPT ![p] = Ready(cache[p])]
      BY <1>c, <3>2, ReadyType
    <3> QED
      BY <1>4, <3>1, <3>2 DEF WriteCacheList, SetCache
  <2>2. listFile' \in List \cup {NoList, TornList}
    BY <1>4, <1>c DEF WriteCacheList, IInv, TypeOK, List, Object
  <2>3. info' \in [Procs -> BOOLEAN]
    BY <1>4 DEF WriteCacheList, IInv, TypeOK
  <2>t. /\ pc' \in [Procs -> Steps] /\ src' \in [Procs -> Sources \cup {NoSource}]
        /\ toClear' \in [Procs -> SUBSET FileNames]
        /\ loaded' \in [Procs -> [Kinds -> Seq(Cell)]]
    <3>1. CASE EndScript(p) /\ UNCHANGED toClear
      BY <3>1 DEF IInv, TypeOK, EndScript, Goto, Steps
    <3> DEFINE left == {h \in Hashes : files[h] # NoFile}
                         \cup (IF listFile' = NoList THEN {} ELSE {"cache_list"})
    <3>2. CASE /\ Goto(p, "clearWrite") /\ toClear' = [toClear EXCEPT ![p] = left]
               /\ UNCHANGED <<src, cache, info, loaded>>
      <4>1. left \in SUBSET FileNames
        BY DEF FileNames
      <4> HIDE DEF left
      <4> QED
        BY <3>2, <4>1 DEF IInv, TypeOK, Goto, Steps, Clearing
    <3> QED
      BY <1>4, <3>1, <3>2 DEF WriteCacheList
  <2>4. TypeOK'
    BY <1>4, <2>1, <2>2, <2>3, <2>t DEF IInv, TypeOK, WriteCacheList
  <2>5. Local(p)'
    BY <1>4, <2>1 DEF IInv, TypeOK, ExclusiveDirectory, WriteCacheList, EndScript, Goto,
                      Local, LoadSteps, WriteSteps
  <2>6. SessionNamed' /\ ExclusiveDirectory'
    BY <1>4, <2>1, <2>5, Frame DEF IInv, TypeOK, WriteCacheList, EndScript, Goto
  <2> QED
    BY <2>4, <2>6 DEF IInv
<1>5. CASE StoreCodeBlockTree(p)
  BY <1>2, <1>5 DEF StoreCodeBlockTree, Kinds, WriteSteps, Status
<1>6. CASE StoreByteCodeBlock(p)
  BY <1>2, <1>6 DEF StoreByteCodeBlock, Kinds, WriteSteps, Status
<1>7. CASE StoreStringTable(p)
  BY <1>2, <1>7 DEF StoreStringTable, Kinds, WriteSteps, Status
<1> QED
  BY <1>1, <1>3, <1>4, <1>5, <1>6, <1>7

\* The invariant is inductive.
LEMMA NextIInv == IInv /\ [Next]_vars => IInv'
<1> SUFFICES ASSUME IInv, [Next]_vars PROVE IInv'
  OBVIOUS
<1>1. ASSUME NEW p \in Procs, Step(p) PROVE IInv'
  BY <1>1, InitializeIInv, ClearIInv, LoadIInv, CompileIInv, WriteIInv DEF Step
<1>2. ASSUME NEW p \in Procs, Clear(p) \/ Destroy(p) \/ Crash(p) PROVE IInv'
  BY <1>2, ClearIInv
<1>3. CASE LosePower \/ Tick
  BY <1>3, EnvironmentIInv
<1>4. CASE UNCHANGED vars
  BY <1>4 DEF vars, IInv, TypeOK, SessionNamed, ExclusiveDirectory
<1> QED
  BY <1>1, <1>2, <1>3, <1>4 DEF Next

-----------------------------------------------------------------------------
(* Theorems                                                                 *)

\* The type invariant of the code cache, with all its faults and for all sizes.
THEOREM TypeCorrect == Spec => []TypeOK
<1>1. IInv => TypeOK
  BY DEF IInv
<1> QED
  BY InitIInv, NextIInv, <1>1, PTL DEF Spec

\* The flock protocol: whatever fails or crashes, a process that has its cache
\* enabled or is between tryInitCacheDir and clear() holds the directory's lock,
\* so the steps of two processes on the directory are never mixed.
THEOREM DirectoryIsExclusive == Spec => []ExclusiveDirectory
<1>1. IInv => ExclusiveDirectory
  BY DEF IInv
<1> QED
  BY InitIInv, NextIInv, <1>1, PTL DEF Spec
-----------------------------------------------------------------------------
(* The lists: in memory and on disk                                         *)

Writing == {"parse"} \cup WriteSteps
InScript == LoadSteps \cup Writing

\* Process p relies on its list of the directory.
Using(p) == (pc[p] = "idle" /\ cache[p].enabled) \/ pc[p] \in InScript

\* What MemoryMatchesDisk says of one process.
Agrees(p) ==
    \/ listFile = NoList /\ cache[p].list = EmptyList
    \/ listFile \in {[ver |-> VersionOf[p], entries |-> cache[p].list], TornList}

\* A list has at least n entries and at most CODE_CACHE_MAX_CACHE_NUM.
Limited(list, n) ==
    IsFiniteSet(Listed(list)) /\ Cardinality(Listed(list)) \in n .. MaxCacheNum

\* The lists agree up to the moment the new entry is in memory and not yet on disk,
\* and until then the script of a write session is not listed.
Lists(p) ==
    /\ Using(p) /\ pc[p] # "writeList" => Agrees(p)
    /\ pc[p] \in Writing \ {"writeList"} => cache[p].list[HashOf[src[p]]] = NoEntry
    /\ Limited(cache[p].list, IF pc[p] = "writeList" THEN 1 ELSE 0)
    /\ pc[p] = "down" => ~ cache[p].enabled

ListsInv ==
    /\ \A p \in Procs : Lists(p)
    /\ ListReadable => Limited(listFile.entries, 1)


\* Adding an entry to a list, and dropping one.
LEMMA ListedAdded ==
  ASSUME NEW l \in CacheList, NEW h \in Hashes, NEW e \in Entry
  PROVE  Listed([l EXCEPT ![h] = e]) = Listed(l) \cup {h}
  BY NoEntryAssumption DEF Listed, CacheList

LEMMA ListedDropped ==
  ASSUME NEW l \in CacheList, NEW h \in Hashes
  PROVE  Listed([l EXCEPT ![h] = NoEntry]) = Listed(l) \ {h}
  BY DEF Listed, CacheList

\* An object that was cleared lists nothing.
LEMMA LimitedEmpty == Limited(EmptyList, 0)
<1>1. Listed(EmptyList) = {}
  BY DEF Listed, EmptyList
<1> QED
  BY <1>1, FS_EmptySet, CodeCacheAssumption DEF Limited

\* The limit is kept by addCacheEntry when the list is not full
LEMMA LimitedAdded ==
  ASSUME NEW l \in CacheList, NEW h \in Hashes, NEW e \in Entry, Limited(l, 0), ~ ListFull(l)
  PROVE  Limited([l EXCEPT ![h] = e], 1)
<1> DEFINE L == Listed(l)
<1>1. IsFiniteSet(L) /\ Cardinality(L) \in Nat /\ Cardinality(L) < MaxCacheNum
  BY CodeCacheAssumption, FS_CardinalityType DEF Limited, ListFull
<1>2. /\ IsFiniteSet(L \cup {h})
      /\ Cardinality(L \cup {h}) = IF h \in L THEN Cardinality(L) ELSE Cardinality(L) + 1
  BY <1>1, FS_AddElement
<1>3. h \in L => Cardinality(L) # 0
  BY <1>1, FS_EmptySet
<1>4. Cardinality(L \cup {h}) \in 1 .. MaxCacheNum
  BY <1>1, <1>2, <1>3, CodeCacheAssumption
<1> QED
  BY <1>2, <1>4, ListedAdded DEF Limited

\* and when it is, after an entry has been evicted.
LEMMA LimitedReplaced ==
  ASSUME NEW l \in CacheList, NEW g \in Listed(l), NEW h \in Hashes, NEW e \in Entry, Limited(l, 0)
  PROVE  Limited([[l EXCEPT ![g] = NoEntry] EXCEPT ![h] = e], 1)
<1> DEFINE m == [l EXCEPT ![g] = NoEntry]
<1>1. m \in CacheList /\ g \in Hashes
  BY DEF CacheList, Listed
<1>2. Listed(m) = Listed(l) \ {g}
  BY <1>1, ListedDropped
<1>3. IsFiniteSet(Listed(l)) /\ Cardinality(Listed(l)) \in Nat /\ Cardinality(Listed(l)) <= MaxCacheNum
  BY CodeCacheAssumption, FS_CardinalityType DEF Limited
<1>4. IsFiniteSet(Listed(l) \ {g}) /\ Cardinality(Listed(l) \ {g}) = Cardinality(Listed(l)) - 1
  BY <1>3, FS_RemoveElement
<1>5. Cardinality(Listed(l) \ {g}) \in Nat
  BY <1>4, FS_CardinalityType
<1>6. Limited(m, 0) /\ ~ ListFull(m)
  <2> HIDE DEF m
  <2> QED
    BY <1>2, <1>3, <1>4, <1>5, CodeCacheAssumption DEF Limited, ListFull
<1> QED
  <2> HIDE DEF m
  <2>1. Limited([m EXCEPT ![h] = e], 1)
    BY <1>1, <1>6, LimitedAdded
  <2> QED
    BY <2>1 DEF m

\* A step of p that leaves the other processes alone and touches cache_list only as the
\* owner of the directory.
LEMMA ListsFrame ==
  ASSUME IInv, ListsInv, NEW p \in Procs, Lists(p)',
         \A q \in Procs \ {p} : pc'[q] = pc[q] /\ src'[q] = src[q] /\ cache'[q] = cache[q],
         listFile' = listFile \/ lock = p,
         ListReadable' => Limited(listFile'.entries, 1)
  PROVE  ListsInv'
<1>1. ASSUME NEW q \in Procs, q # p PROVE Lists(q)'
  <2>1. Lists(q) /\ pc'[q] = pc[q] /\ src'[q] = src[q] /\ cache'[q] = cache[q]
    BY <1>1 DEF ListsInv
  <2>2. Using(q)' <=> Using(q)
    BY <2>1 DEF Using
  <2>3. Using(q) => lock = q
    BY DEF Using, IInv, ExclusiveDirectory, InScript, Writing, LoadSteps, WriteSteps
  <2>4. Using(q) => listFile' = listFile
    BY <1>1, <2>3
  <2>5. Using(q)' /\ pc'[q] # "writeList" => Agrees(q)'
    BY <2>1, <2>2, <2>4 DEF Lists, Agrees
  <2> QED
    BY <2>1, <2>5 DEF Lists
<1> QED
  BY <1>1 DEF ListsInv

\* A step that changes no list.
LEMMA ListsStay ==
  ASSUME IInv, ListsInv, NEW p \in Procs,
         \A q \in Procs \ {p} : pc'[q] = pc[q] /\ src'[q] = src[q] /\ cache'[q] = cache[q],
         listFile' = listFile, cache'[p].list = cache[p].list,
         Using(p)' => Using(p) /\ pc[p] # "writeList",
         pc'[p] \in Writing \ {"writeList"} => cache[p].list[HashOf[src'[p]]] = NoEntry,
         pc'[p] \notin {"writeList", "down"}
  PROVE  ListsInv'
<1>1. Limited(cache[p].list, 0)
  BY CodeCacheAssumption DEF ListsInv, Lists, Limited
<1>2. Using(p)' => Agrees(p)'
  BY DEF ListsInv, Lists, Agrees
<1>3. Lists(p)'
  BY <1>1, <1>2 DEF Lists
<1>4. ListReadable' => Limited(listFile'.entries, 1)
  BY DEF ListsInv, ListReadable
<1> QED
  BY <1>3, <1>4, ListsFrame

\* A step that leaves p with a cleared object.
LEMMA ListsCleared ==
  ASSUME IInv, ListsInv, NEW p \in Procs,
         \A q \in Procs \ {p} : pc'[q] = pc[q] /\ src'[q] = src[q] /\ cache'[q] = cache[q],
         listFile' = listFile, cache'[p] = Cleared, pc'[p] \in {"down", "idle"}
  PROVE  ListsInv'
<1>1. ~ Using(p)' /\ Limited(cache'[p].list, 0)
  BY ClearedType, LimitedEmpty DEF Cleared, Using, InScript, Writing, LoadSteps, WriteSteps
<1>2. Lists(p)'
  BY <1>1, ClearedType DEF Lists, Writing, WriteSteps
<1>3. ListReadable' => Limited(listFile'.entries, 1)
  BY DEF ListsInv, ListReadable
<1> QED
  BY <1>2, <1>3, ListsFrame

\* The operations of a session leave the list of the object alone.
LEMMA ListKept ==
  ASSUME NEW c \in Object, NEW kind, NEW st, NEW n, NEW buf, NEW h, NEW e, NEW t
  PROVE  /\ Ready(c).list = c.list /\ Failed(c).list = c.list
         /\ InProgress(c, h, e, t).list = c.list
         /\ SectionLoaded(c, kind, st).list = c.list
         /\ MetaRecorded(c, kind, n).list = c.list
         /\ SectionStored(c, st, n).list = c.list
         /\ SectionNotStored(c, buf).list = c.list
  BY DEF Object, Ready, ResetContext, Failed, InProgress, SectionLoaded, MetaRecorded,
         SectionStored, SectionNotStored

\* No process is running initially and there is no list.
LEMMA InitLists == Init => ListsInv
<1> SUFFICES ASSUME Init PROVE ListsInv
  OBVIOUS
<1>1. ASSUME NEW p \in Procs PROVE Lists(p)
  <2>1. pc[p] = "down" /\ cache[p] = Cleared
    BY DEF Init
  <2>2. ~ Using(p) /\ Limited(cache[p].list, 0)
    BY <2>1, LimitedEmpty DEF Cleared, Using, InScript, Writing, LoadSteps, WriteSteps
  <2> QED
    BY <2>1, <2>2, ClearedType DEF Lists, Writing, WriteSteps
<1> QED
  BY <1>1 DEF ListsInv, ListReadable, Init

\* initialize: the list is read, or there is none.
LEMMA InitializeLists ==
  ASSUME IInv, ListsInv, NEW p \in Procs,
         \/ LockCacheDir(p) \/ LockCacheDirFails(p)
         \/ InitCacheList(p) \/ InitCacheListFails(p)
  PROVE  ListsInv'
<1>o. pc \in [Procs -> Steps] /\ cache \in [Procs -> Object] /\ src \in [Procs -> Sources \cup {NoSource}]
  BY DEF IInv, TypeOK
<1>1. CASE LockCacheDir(p) \/ InitCacheListFails(p)
  <2>1. /\ pc' \in {[pc EXCEPT ![p] = "initList"], [pc EXCEPT ![p] = "clearInit"]}
        /\ UNCHANGED <<src, cache, listFile>>
    BY <1>1 DEF LockCacheDir, InitCacheListFails, StartClearAll, Goto, disk
  <2> QED
    BY <1>o, <2>1, ListsStay DEF Using, InScript, Writing, LoadSteps, WriteSteps
<1>2. CASE LockCacheDirFails(p)
  <2>1. /\ pc' = [pc EXCEPT ![p] = "idle"] /\ pc[p] = "down"
        /\ UNCHANGED <<src, cache, listFile>>
    BY <1>2 DEF LockCacheDirFails, Goto, disk
  <2>2. ~ cache[p].enabled
    BY <2>1 DEF ListsInv, Lists
  <2>3. ~ Using(p)' /\ pc'[p] = "idle"
    BY <1>o, <2>1, <2>2 DEF Using, InScript, Writing, LoadSteps, WriteSteps
  <2> QED
    BY <1>o, <2>1, <2>3, ListsStay DEF Writing, WriteSteps
<1>3. CASE InitCacheList(p)
  <2> DEFINE l == IF listFile = NoList THEN EmptyList ELSE listFile.entries
  <2>1. /\ pc' = [pc EXCEPT ![p] = "idle"] /\ cache' = [cache EXCEPT ![p] = Enabled(l)]
        /\ UNCHANGED <<src, listFile>> /\ (listFile = NoList \/ ListUsable(p))
    BY <1>3 DEF InitCacheList, Goto, SetCache, disk
  <2>2. cache'[p].list = l
    BY <1>o, <2>1 DEF Enabled, Cleared
  <2>3. Limited(l, 0)
    <3>1. CASE listFile = NoList
      BY <3>1, LimitedEmpty
    <3>2. CASE listFile # NoList
      <4>1. Limited(listFile.entries, 1)
        BY <2>1, <3>2 DEF ListsInv, ListReadable, ListUsable
      <4> QED
        BY <3>2, <4>1, CodeCacheAssumption DEF Limited
    <3> QED
      BY <3>1, <3>2
  <2>4. Agrees(p)'
    <3>1. CASE listFile = NoList
      BY <2>1, <2>2, <3>1 DEF Agrees
    <3>2. CASE listFile # NoList
      <4>1. listFile \in List /\ listFile.ver = VersionOf[p]
        BY <2>1, <3>2 DEF ListUsable, IInv, TypeOK
      <4>2. listFile = [ver |-> VersionOf[p], entries |-> listFile.entries]
        BY <4>1 DEF List
      <4> QED
        BY <2>1, <2>2, <3>2, <4>2 DEF Agrees
    <3> QED
      BY <3>1, <3>2
  <2> HIDE DEF l
  <2>5. Lists(p)'
    BY <1>o, <2>1, <2>2, <2>3, <2>4 DEF Lists, Writing, WriteSteps
  <2>6. ListReadable' => Limited(listFile'.entries, 1)
    BY <2>1 DEF ListsInv, ListReadable
  <2> QED
    BY <1>o, <2>1, <2>5, <2>6, ListsFrame
<1> QED
  BY <1>1, <1>2, <1>3

\* clearCacheDir removes the list file or leaves it; clear(), the destructor and a crash
\* leave the directory alone.
LEMMA ClearLists ==
  ASSUME IInv, ListsInv, NEW p \in Procs,
         \/ \E f \in FileNames : ClearCacheDir(p, f)
         \/ ClearAfterClearDir(p) \/ Clear(p) \/ Destroy(p) \/ Crash(p)
  PROVE  ListsInv'
<1>o. pc \in [Procs -> Steps] /\ cache \in [Procs -> Object] /\ src \in [Procs -> Sources \cup {NoSource}]
  BY DEF IInv, TypeOK
<1>1. ASSUME NEW f \in FileNames, ClearCacheDir(p, f) PROVE ListsInv'
  <2>1. /\ pc[p] \in Clearing /\ UNCHANGED <<pc, src, cache, lock>> /\ listFile' \in {listFile, NoList}
    BY <1>1 DEF ClearCacheDir, disk
  <2>2. lock = p
    BY <2>1 DEF IInv, ExclusiveDirectory, Clearing
  <2>3. Lists(p)'
    BY <2>1 DEF ListsInv, Lists, Using, Clearing, InScript, Writing, LoadSteps, WriteSteps
  <2>4. ListReadable' => Limited(listFile'.entries, 1)
    BY <2>1 DEF ListsInv, ListReadable
  <2> QED
    BY <2>1, <2>2, <2>3, <2>4, ListsFrame
<1>2. CASE ClearAfterClearDir(p) \/ Clear(p) \/ Destroy(p) \/ Crash(p)
  <2>1. /\ cache' = [cache EXCEPT ![p] = Cleared] /\ UNCHANGED listFile
        /\ src' \in {src, [src EXCEPT ![p] = NoSource]}
    BY <1>2 DEF ClearAfterClearDir, Clear, Destroy, Crash, Gone, EndScript, SetCache, disk
  <2>2. pc' \in {[pc EXCEPT ![p] = "idle"], [pc EXCEPT ![p] = "down"]} \/ (pc' = pc /\ pc[p] = "idle")
    BY <1>2 DEF ClearAfterClearDir, Clear, Destroy, Crash, Gone, EndScript, Goto
  <2> QED
    BY <1>o, <2>1, <2>2, ListsCleared
<1> QED
  BY <1>1, <1>2

\* Power loss ends every process and keeps the list or tears it.
LEMMA EnvironmentLists ==
  ASSUME IInv, ListsInv, LosePower \/ Tick
  PROVE  ListsInv'
<1>1. CASE LosePower
  <2>1. ASSUME NEW p \in Procs PROVE Lists(p)'
    <3>1. pc'[p] = "down" /\ cache'[p] = Cleared
      BY <1>1 DEF LosePower
    <3>2. ~ Using(p)' /\ Limited(cache'[p].list, 0)
      BY <3>1, LimitedEmpty DEF Cleared, Using, InScript, Writing, LoadSteps, WriteSteps
    <3> QED
      BY <3>1, <3>2, ClearedType DEF Lists, Writing, WriteSteps
  <2>2. listFile' \in {listFile, TornList}
    BY <1>1 DEF LosePower
  <2> QED
    BY <2>1, <2>2 DEF ListsInv, ListReadable
<1>2. CASE Tick
  BY <1>2 DEF Tick, disk, proc, ListsInv, Lists, Using, Agrees, ListReadable
<1> QED
  BY <1>1, <1>2

\* Loading a script.
LEMMA LoadLists ==
  ASSUME IInv, ListsInv, NEW p \in Procs,
         \/ \E s \in Sources : PrepareCacheLoading(p, s)
         \/ LoadCacheStringTable(p) \/ LoadCodeBlockTree(p) \/ LoadByteCodeBlock(p)
         \/ PostCacheLoading(p)
  PROVE  ListsInv'
<1>o. pc \in [Procs -> Steps] /\ cache \in [Procs -> Object] /\ src \in [Procs -> Sources \cup {NoSource}]
  BY DEF IInv, TypeOK
<1>c. cache[p] \in Object /\ Ready(cache[p]).list = cache[p].list
  BY <1>o, ListKept
<1>1. ASSUME NEW s \in Sources, PrepareCacheLoading(p, s) PROVE ListsInv'
  <2> DEFINE d == InProgress(cache[p], HashOf[s], cache[p].list[HashOf[s]], FALSE)
  <2>1. /\ pc[p] = "idle" /\ cache[p].enabled /\ pc' = [pc EXCEPT ![p] = "loadString"]
        /\ cache' = [cache EXCEPT ![p] = d] /\ src' = [src EXCEPT ![p] = s] /\ UNCHANGED listFile
    BY <1>1 DEF PrepareCacheLoading, SetCache, Goto, disk
  <2>2. d.list = cache[p].list
    BY <1>c DEF InProgress, Object
  <2> HIDE DEF d
  <2>3. Using(p) /\ pc'[p] = "loadString" /\ cache'[p].list = cache[p].list
    BY <1>o, <2>1, <2>2 DEF Using
  <2> QED
    BY <1>o, <2>1, <2>3, ListsStay DEF Writing, WriteSteps
<1>2. ASSUME NEW kind \in Kinds, NEW next \in LoadSteps, NEW st,
             pc[p] \in LoadSteps, LoadSection(p, kind, next, st)
      PROVE  ListsInv'
  <2>1. /\ pc' = [pc EXCEPT ![p] = next] /\ UNCHANGED <<src, listFile>>
        /\ \/ cache' = cache
           \/ cache' = [cache EXCEPT ![p] = SectionLoaded(cache[p], kind, st)]
           \/ cache' = [cache EXCEPT ![p] = Failed(cache[p])]
    BY <1>2 DEF LoadSection, SetCache, Goto, disk
  <2>2. /\ SectionLoaded(cache[p], kind, st).list = cache[p].list
        /\ Failed(cache[p]).list = cache[p].list
    BY <1>c, ListKept
  <2>3. /\ cache'[p].list = cache[p].list
        /\ \A q \in Procs \ {p} : pc'[q] = pc[q] /\ src'[q] = src[q] /\ cache'[q] = cache[q]
    BY <1>o, <2>1, <2>2
  <2>4. Using(p) /\ pc[p] # "writeList" /\ pc'[p] \in LoadSteps
    BY <1>2, <1>o, <2>1 DEF Using, InScript, LoadSteps
  <2> QED
    BY <2>1, <2>3, <2>4, ListsStay DEF LoadSteps, Writing, WriteSteps
<1>3. CASE PostCacheLoading(p)
  <2>1. /\ pc' \in {[pc EXCEPT ![p] = "idle"], [pc EXCEPT ![p] = "clearLoad"]}
        /\ pc[p] = "postLoad" /\ UNCHANGED listFile
        /\ cache' \in {cache, [cache EXCEPT ![p] = Ready(cache[p])]}
        /\ src' \in {src, [src EXCEPT ![p] = NoSource]}
    BY <1>3 DEF PostCacheLoading, EndScript, StartClearAll, Goto, SetCache, disk
  <2>2. /\ cache'[p].list = cache[p].list /\ pc'[p] \in {"idle", "clearLoad"}
        /\ \A q \in Procs \ {p} : pc'[q] = pc[q] /\ src'[q] = src[q] /\ cache'[q] = cache[q]
    BY <1>o, <1>c, <2>1
  <2>3. Using(p) /\ pc[p] # "writeList"
    BY <2>1 DEF Using, InScript, LoadSteps
  <2> QED
    BY <2>1, <2>2, <2>3, ListsStay DEF Writing, WriteSteps
<1>4. CASE LoadCacheStringTable(p)
  BY <1>2, <1>4 DEF LoadCacheStringTable, Kinds, LoadSteps
<1>5. CASE LoadCodeBlockTree(p)
  BY <1>2, <1>5 DEF LoadCodeBlockTree, Kinds, LoadSteps
<1>6. CASE LoadByteCodeBlock(p)
  BY <1>2, <1>6 DEF LoadByteCodeBlock, Kinds, LoadSteps
<1> QED
  BY <1>1, <1>3, <1>4, <1>5, <1>6

\* Parsing and generating code; a generation that throws forgets the script as well.
LEMMA CompileLists ==
  ASSUME IInv, ListsInv, NEW p \in Procs,
         \/ \E s \in Sources : CacheMiss(p, s)
         \/ Parse(p) \/ ParseError(p) \/ GenerateByteCode(p) \/ GenerateByteCodeThrows(p)
  PROVE  ListsInv'
<1>o. pc \in [Procs -> Steps] /\ cache \in [Procs -> Object] /\ src \in [Procs -> Sources \cup {NoSource}]
  BY DEF IInv, TypeOK
<1>1. ASSUME NEW s \in Sources, CacheMiss(p, s) PROVE ListsInv'
  <2>1. /\ pc[p] = "idle" /\ cache[p].enabled /\ pc' = [pc EXCEPT ![p] = "parse"]
        /\ src' = [src EXCEPT ![p] = s] /\ UNCHANGED <<cache, listFile>>
        /\ cache[p].list[HashOf[s]] = NoEntry
    BY <1>1 DEF CacheMiss, CacheHit, Goto, disk
  <2>2. Using(p) /\ pc'[p] = "parse" /\ src'[p] = s
    BY <1>o, <2>1 DEF Using
  <2> QED
    BY <1>o, <2>1, <2>2, ListsStay
<1>2. CASE Parse(p) \/ GenerateByteCode(p)
  <2>1. /\ pc[p] \in {"parse", "generate"} /\ UNCHANGED <<src, cache, listFile>>
        /\ pc' \in {[pc EXCEPT ![p] = "prepareWrite"], [pc EXCEPT ![p] = "storeByteCode"]}
    BY <1>2 DEF Parse, GenerateByteCode, Goto, disk
  <2>2. Using(p) /\ cache[p].list[HashOf[src[p]]] = NoEntry
    BY <2>1 DEF Using, InScript, Writing, WriteSteps, ListsInv, Lists
  <2> QED
    BY <1>o, <2>1, <2>2, ListsStay
<1>3. CASE ParseError(p) \/ GenerateByteCodeThrows(p)
  <2>1. /\ pc[p] \in {"parse", "generate"} /\ UNCHANGED <<cache, listFile>>
        /\ pc' = [pc EXCEPT ![p] = "idle"] /\ src' = [src EXCEPT ![p] = NoSource]
    BY <1>3 DEF ParseError, GenerateByteCodeThrows, EndScript, Goto, disk
  <2>2. Using(p)
    BY <2>1 DEF Using, InScript, Writing, WriteSteps
  <2> QED
    BY <1>o, <2>1, <2>2, ListsStay DEF Writing, WriteSteps
<1> QED
  BY <1>1, <1>2, <1>3

\* Storing a script: the list changes in memory first and then on disk.
LEMMA WriteLists ==
  ASSUME IInv, ListsInv, NEW p \in Procs,
         \/ PrepareCacheWriting(p) \/ StoreCodeBlockTree(p) \/ StoreByteCodeBlock(p)
         \/ StoreStringTable(p) \/ PostCacheWriting(p) \/ WriteCacheList(p)
  PROVE  ListsInv'
<1>o. pc \in [Procs -> Steps] /\ cache \in [Procs -> Object] /\ src \in [Procs -> Sources \cup {NoSource}]
  BY DEF IInv, TypeOK
<1>c. cache[p] \in Object
  BY <1>o
<1>1. ASSUME NEW d, NEW next \in (WriteSteps \ {"writeList"}) \cup {"clearWrite"},
             d.list = cache[p].list, pc[p] \in WriteSteps \ {"writeList"},
             cache' = [cache EXCEPT ![p] = d], pc' = [pc EXCEPT ![p] = next], UNCHANGED <<src, listFile>>
      PROVE  ListsInv'
  <2>1. Using(p) /\ cache[p].list[HashOf[src[p]]] = NoEntry
    BY <1>1 DEF Using, InScript, Writing, WriteSteps, ListsInv, Lists
  <2>2. pc'[p] = next /\ next \notin {"writeList", "down"} /\ cache'[p].list = cache[p].list
    BY <1>o, <1>1 DEF WriteSteps
  <2> QED
    BY <1>o, <1>1, <2>1, <2>2, ListsStay
<1>2. CASE PrepareCacheWriting(p)
  <2> DEFINE d == InProgress(cache[p], HashOf[src[p]], cache[p].entry, TRUE)
  <2>1. d.list = cache[p].list
    BY <1>c DEF InProgress, Object
  <2>2. /\ cache' = [cache EXCEPT ![p] = d] /\ pc' = [pc EXCEPT ![p] = "storeTree"]
        /\ pc[p] = "prepareWrite" /\ UNCHANGED <<src, listFile>>
    BY <1>2 DEF PrepareCacheWriting, SetCache, Goto, disk
  <2> HIDE DEF d
  <2> QED
    BY <1>1, <2>1, <2>2 DEF WriteSteps
<1>3. ASSUME NEW kind \in Kinds, NEW next \in WriteSteps \ {"writeList"}, NEW st \in Status,
             pc[p] \in WriteSteps \ {"prepareWrite", "writeList"}, StoreSection(p, kind, next, st)
      PROVE  ListsInv'
  <2>1. PICK d : d.list = cache[p].list /\ cache' = [cache EXCEPT ![p] = d]
    <3> DEFINE cell == [kind |-> kind, src |-> src[p], ver |-> VersionOf[p]]
               buffer == Append(cache[p].buffer, cell)
               recorded == MetaRecorded(cache[p], kind, Len(buffer))
    <3>1. /\ cell \in Cell /\ buffer \in Seq(Cell) /\ Len(buffer) \in Nat
      BY <1>c, <1>3, CodeCacheAssumption DEF IInv, SessionNamed, Cell, Object
    <3>2. recorded \in Object /\ recorded.list = cache[p].list
      <4> HIDE DEF buffer
      <4>1. recorded.list = cache[p].list
        BY <1>c DEF MetaRecorded, Object
      <4> QED
        BY <1>c, <3>1, <4>1, MetaRecordedType
    <3>3. \/ cache' = cache
          \/ cache' = [cache EXCEPT ![p] = SectionStored(recorded, st, Len(buffer))]
          \/ cache' = [cache EXCEPT ![p] = SectionNotStored(recorded, buffer)]
          \/ cache' = [cache EXCEPT ![p] = SectionNotStored(recorded, <<>>)]
      BY <1>3 DEF StoreSection, SetCache
    <3> HIDE DEF buffer, recorded
    <3>4. /\ SectionStored(recorded, st, Len(buffer)).list = cache[p].list
          /\ SectionNotStored(recorded, buffer).list = cache[p].list
          /\ SectionNotStored(recorded, <<>>).list = cache[p].list
      BY <3>2, ListKept
    <3>5. cache = [cache EXCEPT ![p] = cache[p]]
      BY <1>o
    <3> QED
      BY <3>3, <3>4, <3>5
  <2>2. pc' = [pc EXCEPT ![p] = next] /\ UNCHANGED <<src, listFile>>
    BY <1>3 DEF StoreSection, Goto
  <2> QED
    BY <1>1, <1>3, <2>1, <2>2
<1>4. CASE PostCacheWriting(p)
  <2> DEFINE l == cache[p].list
             h == HashOf[src[p]]
             e == Stamped(cache[p].entry)
  <2>1. /\ src[p] \in Sources /\ h \in Hashes /\ l \in CacheList /\ e \in Entry
        /\ Limited(l, 0) /\ pc[p] = "postWrite"
    BY <1>4, <1>c, CodeCacheAssumption
    DEF PostCacheWriting, IInv, TypeOK, SessionNamed, WriteSteps, Object, Stamped, Entry,
        ListsInv, Lists
  <2>2. CASE StartClearAll(p, "clearWrite") /\ UNCHANGED cache
    <3>1. cache = [cache EXCEPT ![p] = cache[p]]
      BY <1>o
    <3> QED
      BY <1>1, <1>4, <2>1, <2>2, <3>1 DEF PostCacheWriting, StartClearAll, Goto, WriteSteps
  <2>3. ASSUME NEW m, Limited([m EXCEPT ![h] = e], 1), SetCache(p, EntryAdded(cache[p], m, h)),
               Goto(p, "writeList"), UNCHANGED <<src, listFile>>
        PROVE  ListsInv'
    <3>1. cache' = [cache EXCEPT ![p] = EntryAdded(cache[p], m, h)] /\ pc' = [pc EXCEPT ![p] = "writeList"]
      BY <2>3 DEF SetCache, Goto
    <3>2. EntryAdded(cache[p], m, h).list = [m EXCEPT ![h] = e]
      BY <1>c DEF EntryAdded, Object
    <3>3. Lists(p)'
      BY <1>o, <2>3, <3>1, <3>2 DEF Lists
    <3>4. ListReadable' => Limited(listFile'.entries, 1)
      BY <2>3 DEF ListsInv, ListReadable
    <3> QED
      BY <1>o, <2>3, <3>1, <3>3, <3>4, ListsFrame
  <2>4. ~ ListFull(l) => Limited([l EXCEPT ![h] = e], 1)
    <3> HIDE DEF l, h, e
    <3> QED
      BY <2>1, LimitedAdded
  <2>5. ASSUME NEW g \in Listed(l) PROVE Limited([[l EXCEPT ![g] = NoEntry] EXCEPT ![h] = e], 1)
    <3> HIDE DEF l, h, e
    <3> QED
      BY <2>1, LimitedReplaced
  <2>6. LRUCandidates(l) \subseteq Listed(l)
    BY DEF LRUCandidates
  <2> QED
    <3>1. \/ StartClearAll(p, "clearWrite") /\ UNCHANGED cache
          \/ /\ ~ ListFull(l) /\ SetCache(p, EntryAdded(cache[p], l, h)) /\ Goto(p, "writeList")
          \/ \E g \in LRUCandidates(l) : /\ SetCache(p, EntryAdded(cache[p], [l EXCEPT ![g] = NoEntry], h))
                                         /\ Goto(p, "writeList")
      BY <1>4 DEF PostCacheWriting
    <3>2. UNCHANGED <<src, listFile>>
      BY <1>4 DEF PostCacheWriting
    <3> HIDE DEF l, h, e
    <3> QED
      BY <2>2, <2>3, <2>4, <2>5, <2>6, <3>1, <3>2
<1>5. CASE WriteCacheList(p)
  <2>1. /\ pc[p] = "writeList" /\ lock = p /\ Limited(cache[p].list, 1)
    BY <1>5 DEF WriteCacheList, ListsInv, Lists, IInv, ExclusiveDirectory
  <2>2. Limited(cache[p].list, 0)
    BY <2>1, CodeCacheAssumption DEF Limited
  <2>3. CASE EndScript(p) /\ SetCache(p, Ready(cache[p]))
             /\ listFile' \in {[ver |-> VersionOf[p], entries |-> cache[p].list], TornList}
    <3>1. /\ cache' = [cache EXCEPT ![p] = Ready(cache[p])] /\ pc' = [pc EXCEPT ![p] = "idle"]
          /\ src' = [src EXCEPT ![p] = NoSource]
      BY <2>3 DEF EndScript, SetCache, Goto
    <3>2. Ready(cache[p]).list = cache[p].list
      BY <1>c, ListKept
    <3>3. cache'[p].list = cache[p].list /\ pc'[p] = "idle"
      BY <1>o, <3>1, <3>2
    <3>4. Lists(p)'
      BY <2>2, <2>3, <3>3 DEF Lists, Agrees, Writing, WriteSteps
    <3>5. ListReadable' => Limited(listFile'.entries, 1)
      BY <2>1, <2>3 DEF ListReadable
    <3> QED
      BY <1>o, <2>1, <3>1, <3>4, <3>5, ListsFrame
  <2>4. CASE Goto(p, "clearWrite") /\ listFile' \in {listFile, TornList} /\ UNCHANGED <<src, cache>>
    <3>1. pc' = [pc EXCEPT ![p] = "clearWrite"] /\ pc'[p] = "clearWrite"
      BY <1>o, <2>4 DEF Goto
    <3>2. ~ Using(p)'
      BY <3>1 DEF Using, InScript, Writing, LoadSteps, WriteSteps
    <3>3. Lists(p)'
      BY <2>2, <2>4, <3>1, <3>2 DEF Lists, Writing, WriteSteps
    <3>4. ListReadable' => Limited(listFile'.entries, 1)
      BY <2>4 DEF ListsInv, ListReadable
    <3> QED
      BY <1>o, <2>1, <2>4, <3>1, <3>3, <3>4, ListsFrame
  <2> QED
    BY <1>5, <2>3, <2>4 DEF WriteCacheList
<1>6. CASE StoreCodeBlockTree(p)
  BY <1>3, <1>6 DEF StoreCodeBlockTree, Kinds, WriteSteps, Status
<1>7. CASE StoreByteCodeBlock(p)
  BY <1>3, <1>7 DEF StoreByteCodeBlock, Kinds, WriteSteps, Status
<1>8. CASE StoreStringTable(p)
  BY <1>3, <1>8 DEF StoreStringTable, Kinds, WriteSteps, Status
<1> QED
  BY <1>2, <1>4, <1>5, <1>6, <1>7, <1>8

\* The lists stay as they should be.
LEMMA NextLists == IInv /\ ListsInv /\ [Next]_vars => ListsInv'
<1> SUFFICES ASSUME IInv, ListsInv, [Next]_vars PROVE ListsInv'
  OBVIOUS
<1>1. ASSUME NEW p \in Procs, Step(p) PROVE ListsInv'
  BY <1>1, InitializeLists, ClearLists, LoadLists, CompileLists, WriteLists DEF Step
<1>2. ASSUME NEW p \in Procs, Clear(p) \/ Destroy(p) \/ Crash(p) PROVE ListsInv'
  BY <1>2, ClearLists
<1>3. CASE LosePower \/ Tick
  BY <1>3, EnvironmentLists
<1>4. CASE UNCHANGED vars
  BY <1>4 DEF vars, ListsInv, Lists, Using, Agrees, ListReadable
<1> QED
  BY <1>1, <1>2, <1>3, <1>4 DEF Next

\* Data files change only when they are removed, by a store stage, or when power is lost.
LEMMA FilesStep ==
  ASSUME IInv, [Next]_vars, ~ LosePower, NEW h \in Hashes
  PROVE  \/ files'[h] \in {files[h], NoFile}
         \/ \E p \in Procs : /\ pc[p] \in {"storeTree", "storeByteCode", "storeString"}
                             /\ h = HashOf[src[p]]
<1>f. files \in [Hashes -> Seq(Cell) \cup {NoFile}]
  BY DEF IInv, TypeOK
<1>1. ASSUME NEW p \in Procs, NEW f \in FileNames, ClearCacheDir(p, f)
      PROVE  files'[h] \in {files[h], NoFile}
  BY <1>f, <1>1 DEF ClearCacheDir, disk
<1>2. ASSUME NEW p \in Procs, PostCacheWriting(p)
      PROVE  files'[h] \in {files[h], NoFile}
  BY <1>f, <1>2 DEF PostCacheWriting
<1>3. ASSUME NEW p \in Procs, NEW kind, NEW next, NEW st, StoreSection(p, kind, next, st),
             pc[p] \in {"storeTree", "storeByteCode", "storeString"}, h # HashOf[src[p]]
      PROVE  files'[h] = files[h]
  <2>1. cache[p].path = HashOf[src[p]]
    BY <1>3 DEF IInv, SessionNamed, WriteSteps
  <2>2. files' = files \/ \E x : files' = [files EXCEPT ![cache[p].path] = x]
    BY <1>3 DEF StoreSection
  <2> QED
    BY <1>f, <1>3, <2>1, <2>2
<1>4. ASSUME NEW p \in Procs,
             \/ LockCacheDir(p) \/ LockCacheDirFails(p) \/ InitCacheList(p) \/ InitCacheListFails(p)
             \/ ClearAfterClearDir(p) \/ Clear(p) \/ Destroy(p) \/ Crash(p)
             \/ \E s \in Sources : PrepareCacheLoading(p, s) \/ CacheMiss(p, s)
             \/ LoadCacheStringTable(p) \/ LoadCodeBlockTree(p) \/ LoadByteCodeBlock(p)
             \/ PostCacheLoading(p) \/ Parse(p) \/ ParseError(p) \/ PrepareCacheWriting(p)
             \/ GenerateByteCode(p) \/ GenerateByteCodeThrows(p) \/ WriteCacheList(p)
      PROVE  files' = files
  BY <1>4 DEF LockCacheDir, LockCacheDirFails, InitCacheList, InitCacheListFails,
       ClearAfterClearDir, Clear, Destroy, Crash, PrepareCacheLoading, CacheMiss,
       LoadCacheStringTable, LoadCodeBlockTree, LoadByteCodeBlock, LoadSection, PostCacheLoading,
       Parse, ParseError, PrepareCacheWriting, GenerateByteCode, GenerateByteCodeThrows,
       WriteCacheList, disk
<1>5. CASE Tick \/ UNCHANGED vars
  BY <1>5 DEF Tick, disk, vars
<1>6. ASSUME NEW p \in Procs, StoreCodeBlockTree(p) \/ StoreByteCodeBlock(p) \/ StoreStringTable(p)
      PROVE  files'[h] = files[h] \/ (pc[p] \in {"storeTree", "storeByteCode", "storeString"}
                                        /\ h = HashOf[src[p]])
  BY <1>3, <1>6 DEF StoreCodeBlockTree, StoreByteCodeBlock, StoreStringTable
<1> QED
  BY <1>1, <1>2, <1>4, <1>5, <1>6 DEF Next, Step

\* The file of a write session is not on the list on disk.
LEMMA TargetNotListed ==
  ASSUME IInv, ListsInv, NEW p \in Procs, pc[p] \in WriteSteps \ {"writeList"}, ListReadable
  PROVE  listFile.entries[HashOf[src[p]]] = NoEntry
<1>1. Agrees(p) /\ cache[p].list[HashOf[src[p]]] = NoEntry
  BY DEF ListsInv, Lists, Using, InScript, Writing, WriteSteps
<1> QED
  BY <1>1 DEF Agrees, ListReadable

-----------------------------------------------------------------------------
(* Theorems about the lists                                                 *)

\* The lists of a process and of the disk, with all faults and for all sizes.
THEOREM ListsInvariance == Spec => [](IInv /\ ListsInv)
  BY InitIInv, InitLists, NextIInv, NextLists, PTL DEF Spec

\* Between two scripts m_cacheList and the file cache_list agree unless the file is cut
\* short, whatever fails, crashes or throws (addCacheEntry, writeCacheList).
THEOREM MemoryIsOnDisk == Spec => []MemoryMatchesDisk
<1>1. IInv /\ ListsInv => MemoryMatchesDisk
  BY DEF ListsInv, Lists, Using, Agrees, MemoryMatchesDisk
<1> QED
  BY <1>1, ListsInvariance, PTL

\* A list file that can be read has between one and CODE_CACHE_MAX_CACHE_NUM entries, as
\* tryInitCacheList asserts.
THEOREM ListIsWithinLimit == Spec => []ListWithinLimit
<1>1. IInv /\ ListsInv => ListWithinLimit
  BY DEF ListsInv, Limited, ListWithinLimit
<1> QED
  BY <1>1, ListsInvariance, PTL

\* writeCacheData never touches a data file that the list on disk names.
THEOREM ListedFilesAreNotRewritten == Spec => ListedFilesNotRewritten
<1> DEFINE Kept == \A h \in Hashes :
                     ListReadable /\ listFile.entries[h] # NoEntry /\ files[h] # NoFile =>
                       \/ files'[h] \in {files[h], NoFile}
                       \/ LosePower
<1>1. IInv /\ ListsInv /\ [Next]_vars => [Kept]_vars
  <2> SUFFICES ASSUME IInv, ListsInv, [Next]_vars, NEW h \in Hashes, ListReadable,
                      listFile.entries[h] # NoEntry, ~ LosePower
               PROVE  files'[h] \in {files[h], NoFile}
    OBVIOUS
  <2>1. ASSUME NEW p \in Procs, pc[p] \in {"storeTree", "storeByteCode", "storeString"},
               h = HashOf[src[p]]
        PROVE  FALSE
    BY <2>1, TargetNotListed DEF WriteSteps
  <2> QED
    BY <2>1, FilesStep
<1> QED
  BY <1>1, ListsInvariance, PTL DEF Spec, ListedFilesNotRewritten

-----------------------------------------------------------------------------
(* The sessions, where bytecode generation does not throw                   *)

\* All cells come from source s and version v.
Pure(file, s, v) == \A i \in 1 .. Len(file) : file[i].src = s /\ file[i].ver = v

\* The file after n sections of a write session: the beginning of the image, or
\* less because a flush failed unseen.
Written(file, n, s, v) ==
    /\ file \in Seq(Cell) /\ Len(file) <= n /\ Pure(file, s, v)
    /\ Len(file) = n /\ Whole(file) => \A i \in 1 .. n : file[i] = Image(s, v)[i]

\* The data file of a listed hash h.
SoundFile(file, h, v) ==
    file = NoFile \/ \E s \in Sources : HashOf[s] = h /\ Written(file, 3, s, v)

\* The data files F of a list of version v.
SoundList(F, list, v) ==
    \A h \in Listed(list) : list[h].meta = ImageMeta /\ SoundFile(F[h], h, v)

\* The object of an enabled cache between two scripts.
Clean(c) == c.status = "READY" /\ ResetContext(c) = c /\ c.buffer = <<>>

Order == <<"CODEBLOCK", "BYTECODE", "STRING">>

\* After the first n sections of a write session have been stored, or one has not.
Stored(c, file, s, v, n) ==
    \/ c.status = "FAILED"
    \/ /\ c.status = (IF n = 3 THEN "FINISH" ELSE "IN_PROGRESS")
       /\ c.offset = n /\ c.buffer = <<>>
       /\ \A i \in 1 .. n : c.entry.meta[Order[i]] = ImageMeta[Order[i]]
       /\ n > 0 => Written(file, n, s, v)

\* The section of kind k of an image of s.
Part(k, s, v) == <<[kind |-> k, src |-> s, ver |-> v]>>

\* The status of a load session when the sections of kinds K have been decoded.
StatusAfter(K) == IF K = Kinds THEN "FINISH" ELSE "IN_PROGRESS"

\* After the sections of kinds K of a load session have been decoded, or one has not.
Decoded(c, file, ld, h, v, K) ==
    \/ c.status = "FAILED"
    \/ /\ c.status = StatusAfter(K)
       /\ c.entry.meta = ImageMeta
       /\ IF K = {} THEN ld = NoSections
          ELSE \E s \in Sources :
                 /\ HashOf[s] = h /\ file = Image(s, v)
                 /\ \A k \in Kinds : ld[k] = IF k \in K THEN Part(k, s, v) ELSE <<>>

\* What a stage that reads a section of kind k does to the object and to what is decoded.
LoadStage(c, d, file, ld, ld2, k, st) ==
    \/ c.status # "IN_PROGRESS" /\ d = c /\ ld2 = ld
    \/ /\ c.status = "IN_PROGRESS" /\ Readable(file, k, c.entry.meta[k])
       /\ ld2 = [ld EXCEPT ![k] = Section(file, k, c.entry.meta[k])]
       /\ d = SectionLoaded(c, k, st)
    \/ d = Failed(c) /\ ld2 = ld

\* All that has been decoded is of one source with hash h.
OneSource(ld, h, v) ==
    \E s \in Sources : HashOf[s] = h /\ \A k \in Kinds : ld[k] \in {<<>>, Part(k, s, v)}

\* A process in a write session has stored n sections, in a load session decoded K.
HasStored(p, n) == Stored(cache[p], files[HashOf[src[p]]], src[p], VersionOf[p], n)
HasDecoded(p, K) ==
    Decoded(cache[p], files[HashOf[src[p]]], loaded[p], HashOf[src[p]], VersionOf[p], K)

Session(p) ==
    /\ pc[p] \in {"idle", "parse", "prepareWrite"} /\ Using(p) => Clean(cache[p])
    /\ pc[p] = "storeTree" => HasStored(p, 0)
    /\ pc[p] \in {"generate", "storeByteCode"} => HasStored(p, 1)
    /\ pc[p] = "storeString" => HasStored(p, 2)
    /\ pc[p] = "postWrite" => HasStored(p, 3)
    /\ pc[p] \in LoadSteps \cup {"writeList"} => cache[p].buffer = <<>>
    /\ pc[p] = "loadString" => HasDecoded(p, {}) /\ cache[p].list[HashOf[src[p]]] # NoEntry
    /\ pc[p] = "loadTree" => HasDecoded(p, {"STRING"})
    /\ pc[p] = "loadByteCode" => HasDecoded(p, {"STRING", "CODEBLOCK"})
    /\ pc[p] = "postLoad" => HasDecoded(p, Kinds)
    /\ pc[p] \notin Writing \cup {"clearWrite"} => ~info[p]
    /\ IF pc[p] \in LoadSteps \cup {"clearLoad"} THEN src[p] \in Sources /\ OneSource(loaded[p], HashOf[src[p]], VersionOf[p])
                                                  ELSE loaded[p] = NoSections
    /\ Using(p) => SoundList(files, cache[p].list, VersionOf[p])

SessionsInv ==
    /\ \A p \in Procs : Session(p)
    /\ ListReadable => SoundList(files, listFile.entries, listFile.ver)

\* The meta infos of an image, section by section.
LEMMA ImageMetaIs ==
  /\ ImageMeta["CODEBLOCK"] = [offset |-> 0, size |-> 1]
  /\ ImageMeta["BYTECODE"] = [offset |-> 1, size |-> 1]
  /\ ImageMeta["STRING"] = [offset |-> 2, size |-> 1]
  BY DEF ImageMeta, Kinds

LEMMA ImageIs ==
  ASSUME NEW s \in Sources, NEW v \in Versions
  PROVE  /\ Image(s, v) \in Seq(Cell) /\ Len(Image(s, v)) = 3
         /\ \A i \in 1 .. 3 : Image(s, v)[i] = [kind |-> Order[i], src |-> s, ver |-> v]
         /\ \A i \in 1 .. 3 : Order[i] \in Kinds
  BY DEF Image, Cell, Order, Kinds

\* What is left of a buffer of one cell when a write stops early.
LEMMA TruncatedCell ==
  ASSUME NEW c \in Cell, NEW part \in Truncated(<<c>>)
  PROVE  part = <<>> \/ part = <<[c EXCEPT !.kind = "TORN"]>>
<1>1. Len(<<c>>) = 1 /\ <<c>>[1] = c /\ <<c>> \in Seq(Cell)
  OBVIOUS
<1>2. ASSUME NEW n \in 0 .. Len(<<c>>) - 1, part = SubSeq(<<c>>, 1, n) PROVE part = <<>>
  <2>1. n = 0
    BY <1>1
  <2>2. SubSeq(<<c>>, 1, 0) = <<>>
    BY <1>1
  <2> QED
    BY <1>2, <2>1, <2>2
<1>3. ASSUME NEW n \in 1 .. Len(<<c>>),
             part = SubSeq(<<c>>, 1, n - 1) \o <<[<<c>>[n] EXCEPT !.kind = "TORN"]>>
      PROVE  part = <<[c EXCEPT !.kind = "TORN"]>>
  <2>1. n = 1 /\ n - 1 = 0 /\ <<c>>[n] = c
    BY <1>1
  <2>2. SubSeq(<<c>>, 1, 0) = <<>>
    BY <1>1
  <2>3. <<>> \o <<[c EXCEPT !.kind = "TORN"]>> = <<[c EXCEPT !.kind = "TORN"]>>
    OBVIOUS
  <2> QED
    BY <1>3, <2>1, <2>2, <2>3
<1> QED
  BY <1>2, <1>3 DEF Truncated

\* A store stage appends a section, or part of it, to what the stages before left.
LEMMA WrittenNext ==
  ASSUME NEW s \in Sources, NEW v \in Versions, NEW n \in 0 .. 2, NEW file, Written(file, n, s, v),
         NEW c \in Cell, c = [kind |-> Order[n + 1], src |-> s, ver |-> v],
         NEW part \in {<<c>>} \cup Truncated(<<c>>)
  PROVE  Written(file \o part, n + 1, s, v)
<1>1. file \in Seq(Cell) /\ Len(file) \in Nat /\ Len(file) <= n /\ Pure(file, s, v)
  BY DEF Written
<1>2. ASSUME NEW d \in Cell, d.src = s, d.ver = v, part = <<d>>,
             d.kind # "TORN" => d = Image(s, v)[n + 1]
      PROVE  Written(file \o part, n + 1, s, v)
  <2> DEFINE g == file \o part
  <2>1. /\ g \in Seq(Cell) /\ Len(g) = Len(file) + 1 /\ g[Len(file) + 1] = d
        /\ \A i \in 1 .. Len(file) : g[i] = file[i]
    BY <1>1, <1>2
  <2> HIDE DEF g
  <2>2. Pure(g, s, v)
    BY <1>1, <1>2, <2>1 DEF Pure
  <2>3. ASSUME Len(g) = n + 1, Whole(g), NEW i \in 1 .. n + 1 PROVE g[i] = Image(s, v)[i]
    <3>1. Len(file) = n /\ d.kind # "TORN"
      BY <1>1, <2>1, <2>3 DEF Whole
    <3>2. Whole(file)
      BY <1>1, <2>1, <2>3 DEF Whole
    <3>3. \A j \in 1 .. n : file[j] = Image(s, v)[j]
      BY <3>1, <3>2 DEF Written
    <3>4. i \in 1 .. n \/ i = n + 1
      OBVIOUS
    <3> QED
      BY <1>2, <2>1, <3>1, <3>3, <3>4
  <2> QED
    BY <1>1, <2>1, <2>2, <2>3 DEF Written, g
<1>3. CASE part = <<c>>
  <2>0. n + 1 \in 1 .. 3
    OBVIOUS
  <2>1. c = Image(s, v)[n + 1] /\ c.src = s /\ c.ver = v
    BY <2>0, ImageIs
  <2> QED
    BY <1>2, <1>3, <2>1
<1>4. CASE part = <<[c EXCEPT !.kind = "TORN"]>>
  <2> DEFINE d == [c EXCEPT !.kind = "TORN"]
  <2>1. d \in Cell /\ d.src = s /\ d.ver = v /\ d.kind = "TORN"
    BY DEF Cell
  <2> HIDE DEF d
  <2> QED
    BY <1>2, <1>4, <2>1 DEF d
<1>5. CASE part = <<>>
  <2>1. file \o part = file
    BY <1>1, <1>5
  <2> QED
    BY <1>1, <2>1 DEF Written
<1> QED
  BY <1>3, <1>4, <1>5, TruncatedCell

\* An empty file is the beginning of every image.
LEMMA WrittenEmpty ==
  ASSUME NEW s, NEW v
  PROVE  Written(<<>>, 0, s, v)
  BY DEF Written, Pure

\* A file that has lost its tail is no worse than one whose writes failed.
LEMMA WrittenCut ==
  ASSUME NEW s, NEW v, NEW file, Written(file, 3, s, v), NEW n \in 0 .. Len(file)
  PROVE  Written(SubSeq(file, 1, n), 3, s, v)
<1>1. file \in Seq(Cell) /\ Len(file) \in Nat /\ Len(file) <= 3 /\ Pure(file, s, v)
  BY DEF Written
<1> DEFINE g == SubSeq(file, 1, n)
<1>2. g \in Seq(Cell) /\ Len(g) = n /\ \A i \in 1 .. n : g[i] = file[i]
  BY <1>1
<1> HIDE DEF g
<1>3. Pure(g, s, v)
  BY <1>1, <1>2 DEF Pure
<1>4. ASSUME Len(g) = 3, Whole(g), NEW i \in 1 .. 3 PROVE g[i] = Image(s, v)[i]
  <2>1. Len(file) = 3 /\ n = 3
    BY <1>1, <1>2, <1>4
  <2>2. Whole(file)
    BY <1>2, <1>4, <2>1 DEF Whole
  <2> QED
    BY <1>2, <2>1, <2>2 DEF Written
<1> QED
  BY <1>1, <1>2, <1>3, <1>4 DEF Written, g

\* After three sections the file is an image or damaged,
LEMMA WrittenImage ==
  ASSUME NEW s \in Sources, NEW v \in Versions, NEW file, Written(file, 3, s, v)
  PROVE  /\ Len(file) = 3 /\ Whole(file) => file = Image(s, v)
         /\ file = Image(s, v) \/ Damaged(file, s, v)
<1>1. file \in Seq(Cell) /\ Len(file) \in Nat /\ Len(file) <= 3 /\ Pure(file, s, v)
  BY DEF Written
<1>2. ASSUME Len(file) = 3, Whole(file) PROVE file = Image(s, v)
  <2>1. \A i \in 1 .. 3 : file[i] = Image(s, v)[i]
    BY <1>2 DEF Written
  <2>2. Image(s, v) \in Seq(Cell) /\ Len(Image(s, v)) = 3
    BY ImageIs
  <2> QED
    BY <1>1, <1>2, <2>1, <2>2
<1>3. CASE Len(file) = 3 /\ Whole(file)
  BY <1>2, <1>3
<1>4. CASE ~ (Len(file) = 3 /\ Whole(file))
  <2>0. Len(file) = 3 \/ Len(file) < 3
    <3>1. \A n \in Nat : n <= 3 => n = 3 \/ n < 3
      OBVIOUS
    <3> QED
      BY <1>1, <3>1
  <2>1. Len(file) < 3 \/ ~ Whole(file)
    BY <1>4, <2>0 DEF Whole
  <2> QED
    BY <1>1, <1>4, <2>1 DEF Damaged, Pure
<1> QED
  BY <1>3, <1>4

\* and its string table can only be read from an image.
LEMMA ReadableImage ==
  ASSUME NEW s \in Sources, NEW v \in Versions, NEW file, Written(file, 3, s, v),
         Readable(file, "STRING", ImageMeta["STRING"])
  PROVE  file = Image(s, v)
<1>1. file \in Seq(Cell) /\ Len(file) \in Nat /\ Len(file) <= 3
  BY DEF Written
<1>2. SectionStart("STRING", ImageMeta["STRING"]) + ImageMeta["STRING"].size = 3
  BY ImageMetaIs DEF SectionStart
<1>3. 3 <= Len(file)
  BY <1>2 DEF Readable
<1>4. Len(file) = 3 /\ ~ (3 < Len(file))
  <2>1. \A n \in Nat : n <= 3 /\ 3 <= n => n = 3 /\ ~ (3 < n)
    OBVIOUS
  <2> QED
    BY <1>1, <1>3, <2>1
<1>5. Whole(file)
  BY <1>2, <1>4 DEF Readable
<1> QED
  BY <1>4, <1>5, WrittenImage

\* A piece of length one.
LEMMA SubSeqOne ==
  ASSUME NEW f \in Seq(Cell), NEW i \in 1 .. Len(f)
  PROVE  SubSeq(f, i, i) = <<f[i]>>
<1> DEFINE g == SubSeq(f, i, i)
<1>1. g \in Seq(Cell) /\ Len(g) = 1 /\ g[1] = f[i] /\ f[i] \in Cell
  OBVIOUS
<1> HIDE DEF g
<1>2. g = <<f[i]>>
  BY <1>1
<1> QED
  BY <1>2 DEF g

\* A section of an image is what the reader asks for.
LEMMA SectionIs ==
  ASSUME NEW s \in Sources, NEW v \in Versions, NEW k \in Kinds
  PROVE  Section(Image(s, v), k, ImageMeta[k]) = Part(k, s, v)
<1> DEFINE f == Image(s, v)
<1>1. /\ f \in Seq(Cell) /\ Len(f) = 3
      /\ f[1] = [kind |-> "CODEBLOCK", src |-> s, ver |-> v]
      /\ f[2] = [kind |-> "BYTECODE", src |-> s, ver |-> v]
      /\ f[3] = [kind |-> "STRING", src |-> s, ver |-> v]
  BY ImageIs DEF Order
<1>2. ASSUME NEW i \in 1 .. 3 PROVE SubSeq(f, i, i) = <<f[i]>>
  <2> HIDE DEF f
  <2> QED
    BY <1>1, SubSeqOne
<1> HIDE DEF f
<1>3. CASE k = "CODEBLOCK"
  BY <1>1, <1>2, <1>3, ImageMetaIs DEF Section, SectionStart, Part, f
<1>4. CASE k = "BYTECODE"
  BY <1>1, <1>2, <1>4, ImageMetaIs DEF Section, SectionStart, Part, f
<1>5. CASE k = "STRING"
  BY <1>1, <1>2, <1>5, ImageMetaIs DEF Section, SectionStart, Part, f
<1> QED
  BY <1>3, <1>4, <1>5 DEF Kinds

\* Removing files leaves a list sound.
LEMMA SoundKept ==
  ASSUME NEW F, NEW G, NEW l, NEW v, SoundList(F, l, v),
         \A h \in Listed(l) : G[h] = F[h] \/ G[h] = NoFile
  PROVE  SoundList(G, l, v)
  BY DEF SoundList, SoundFile

LEMMA SoundEmpty ==
  ASSUME NEW F, NEW v
  PROVE  SoundList(F, EmptyList, v)
  BY DEF SoundList, Listed, EmptyList

\* The list on disk stays sound in every step that does not rewrite it: a store stage
\* changes the file of a script that is not listed.
LEMMA DiskSound ==
  ASSUME IInv, ListsInv, SessionsInv, [Next]_vars, ~ LosePower,
         listFile' \in {listFile, NoList, TornList}
  PROVE  ListReadable' => SoundList(files', listFile'.entries, listFile'.ver)
<1> SUFFICES ASSUME ListReadable' PROVE SoundList(files', listFile'.entries, listFile'.ver)
  OBVIOUS
<1>1. listFile' = listFile /\ ListReadable
  BY DEF ListReadable
<1> DEFINE l == listFile.entries
           v == listFile.ver
<1>2. SoundList(files, l, v)
  BY <1>1 DEF SessionsInv
<1>3. ASSUME NEW h \in Listed(l) PROVE files'[h] = files[h] \/ files'[h] = NoFile
  <2>1. h \in Hashes /\ l[h] # NoEntry
    BY DEF Listed
  <2>2. ASSUME NEW p \in Procs, pc[p] \in {"storeTree", "storeByteCode", "storeString"},
               h = HashOf[src[p]]
        PROVE  FALSE
    BY <1>1, <2>1, <2>2, TargetNotListed DEF WriteSteps
  <2> QED
    BY <2>1, <2>2, FilesStep
<1> HIDE DEF l, v
<1>4. SoundList(files', l, v)
  BY <1>2, <1>3, SoundKept
<1> QED
  BY <1>1, <1>4 DEF l, v

\* A step of p that leaves the other processes alone and touches data files only as the
\* owner of the directory.
LEMMA SessionFrame ==
  ASSUME IInv, SessionsInv, NEW p \in Procs, Session(p)',
         \A q \in Procs \ {p} : /\ pc'[q] = pc[q] /\ src'[q] = src[q] /\ cache'[q] = cache[q]
                                /\ info'[q] = info[q] /\ loaded'[q] = loaded[q],
         files' = files \/ lock = p,
         ListReadable' => SoundList(files', listFile'.entries, listFile'.ver)
  PROVE  SessionsInv'
<1>1. ASSUME NEW q \in Procs, q # p PROVE Session(q)'
  <2>1. /\ Session(q) /\ pc'[q] = pc[q] /\ src'[q] = src[q] /\ cache'[q] = cache[q]
        /\ info'[q] = info[q] /\ loaded'[q] = loaded[q]
    BY <1>1 DEF SessionsInv
  <2>2. Using(q)' <=> Using(q)
    BY <2>1 DEF Using
  <2>3. CASE Using(q)
    <3>1. lock = q
      BY <2>3 DEF Using, IInv, ExclusiveDirectory, InScript, Writing, LoadSteps, WriteSteps
    <3>2. files' = files
      BY <1>1, <3>1
    <3> QED
      BY <2>1, <2>2, <3>2 DEF Session, HasStored, HasDecoded
  <2>4. CASE ~ Using(q)
    BY <2>1, <2>2, <2>4 DEF Session, Using, InScript, Writing, LoadSteps, WriteSteps
  <2> QED
    BY <2>3, <2>4
<1> QED
  BY <1>1 DEF SessionsInv

\* A process that does not use the directory.
LEMMA SessionQuiet ==
  ASSUME NEW p \in Procs, ~ Using(p)', pc'[p] # "clearLoad", loaded'[p] = NoSections,
         pc'[p] # "clearWrite" => ~ info'[p]
  PROVE  Session(p)'
  BY DEF Session, Using, InScript, Writing, LoadSteps, WriteSteps

\* Nothing is loaded, whatever the script.
LEMMA OneSourceNone ==
  ASSUME NEW s \in Sources, NEW v
  PROVE  OneSource(NoSections, HashOf[s], v)
  BY DEF OneSource, NoSections

\* A session that ended well leaves a clean object.
LEMMA ReadyClean ==
  ASSUME NEW c \in Object, c.buffer = <<>>
  PROVE  Clean(Ready(c))
  BY DEF Clean, Ready, ResetContext, Object

\* One stage of a load session.
LEMMA DecodedNext ==
  ASSUME NEW c \in Object, NEW d, NEW file, NEW ld \in [Kinds -> Seq(Cell)], NEW ld2,
         NEW h, NEW v \in Versions, NEW K, NEW kind \in Kinds, NEW st, NEW M,
         Decoded(c, file, ld, h, v, K), OneSource(ld, h, v), M = K \cup {kind},
         st = StatusAfter(M), K # Kinds, kind \notin K, K # {} \/ kind = "STRING",
         K # {} \/ SoundFile(file, h, v), LoadStage(c, d, file, ld, ld2, kind, st)
  PROVE  Decoded(d, file, ld2, h, v, M) /\ OneSource(ld2, h, v)
<1>1. CASE c.status # "IN_PROGRESS" /\ d = c /\ ld2 = ld
  <2>1. c.status = "FAILED"
    <3>1. StatusAfter(K) = "IN_PROGRESS"
      BY DEF StatusAfter
    <3> QED
      BY <1>1, <3>1 DEF Decoded
  <2> QED
    BY <1>1, <2>1 DEF Decoded
<1>2. CASE d = Failed(c) /\ ld2 = ld
  <2>1. d.status = "FAILED"
    BY <1>2 DEF Failed, Object
  <2> QED
    BY <1>2, <2>1 DEF Decoded
<1>3. CASE /\ c.status = "IN_PROGRESS" /\ Readable(file, kind, c.entry.meta[kind])
           /\ ld2 = [ld EXCEPT ![kind] = Section(file, kind, c.entry.meta[kind])]
           /\ d = SectionLoaded(c, kind, st)
  <2>1. c.entry.meta = ImageMeta
    BY <1>3 DEF Decoded
  <2>2. d.status = st /\ d.entry.meta = ImageMeta
    BY <1>3, <2>1 DEF SectionLoaded, Object
  <2>3. PICK s \in Sources : /\ HashOf[s] = h /\ file = Image(s, v)
                             /\ \A k \in Kinds : ld[k] = IF k \in K THEN Part(k, s, v) ELSE <<>>
    <3>1. CASE K = {}
      <4>1. ld = NoSections
        BY <1>3, <3>1 DEF Decoded
      <4>2. PICK s \in Sources : HashOf[s] = h /\ Written(file, 3, s, v)
        BY <1>3, <3>1 DEF SoundFile, Readable
      <4>3. Readable(file, "STRING", ImageMeta["STRING"])
        BY <1>3, <2>1, <3>1
      <4>4. file = Image(s, v)
        BY <4>2, <4>3, ReadableImage
      <4> QED
        BY <3>1, <4>1, <4>2, <4>4 DEF NoSections
    <3>2. CASE K # {}
      BY <1>3, <3>2 DEF Decoded
    <3> QED
      BY <3>1, <3>2
  <2>4. ld2[kind] = Part(kind, s, v)
    BY <1>3, <2>1, <2>3, SectionIs
  <2>5. \A k \in Kinds : ld2[k] = IF k \in M THEN Part(k, s, v) ELSE <<>>
    BY <1>3, <2>3, <2>4
  <2>6. OneSource(ld2, h, v)
    BY <2>3, <2>5 DEF OneSource
  <2>7. M # {}
    OBVIOUS
  <2>8. Decoded(d, file, ld2, h, v, M)
    BY <2>2, <2>3, <2>5, <2>7 DEF Decoded
  <2> QED
    BY <2>6, <2>8
<1> QED
  BY <1>1, <1>2, <1>3 DEF LoadStage

\* One stage of a write session that stores its section.
LEMMA StoredNext ==
  ASSUME NEW c \in Object, NEW d, NEW file, NEW opened, NEW part, NEW s \in Sources, NEW v \in Versions,
         NEW n \in 0 .. 2, NEW kind, kind = Order[n + 1], NEW cell \in Cell,
         cell = [kind |-> kind, src |-> s, ver |-> v],
         NEW st, st = (IF n + 1 = 3 THEN "FINISH" ELSE "IN_PROGRESS"),
         Stored(c, file, s, v, n), c.status = "IN_PROGRESS",
         opened = (IF n = 0 \/ file = NoFile THEN <<>> ELSE file),
         part \in {<<cell>>} \cup Truncated(<<cell>>),
         d = SectionStored(MetaRecorded(c, kind, 1), st, 1)
  PROVE  Stored(d, opened \o part, s, v, n + 1)
<1>1. /\ c.offset = n /\ c.buffer = <<>>
      /\ \A i \in 1 .. n : c.entry.meta[Order[i]] = ImageMeta[Order[i]]
      /\ n > 0 => Written(file, n, s, v)
  BY DEF Stored
<1>2. n \in {0, 1, 2} /\ n + 1 \in 1 .. 3 /\ kind \in Kinds
  BY DEF Order, Kinds
<1>3. Written(opened, n, s, v)
  <2>1. CASE n = 0
    BY <2>1, WrittenEmpty
  <2>2. CASE n > 0 /\ file # NoFile
    BY <1>1, <2>2
  <2>3. CASE n > 0 /\ file = NoFile
    BY <2>3 DEF Written, Pure
  <2> QED
    BY <1>2, <2>1, <2>2, <2>3
<1>4. Written(opened \o part, n + 1, s, v)
  BY <1>3, WrittenNext
<1> DEFINE m == [offset |-> n, size |-> 1]
           r == MetaRecorded(c, kind, 1)
<1>5. /\ r \in Object /\ r.entry.meta = [c.entry.meta EXCEPT ![kind] = m]
      /\ r.offset = n
  <2>1. r \in Object
    BY <1>2, MetaRecordedType
  <2> QED
    BY <1>1, <1>2, <2>1 DEF MetaRecorded, Object, Entry
<1> HIDE DEF r
<1>6. /\ d.status = st /\ d.offset = n + 1 /\ d.buffer = <<>> /\ d.entry = r.entry
  BY <1>5 DEF SectionStored, Object, r
<1>7. m = ImageMeta[kind]
  BY <1>2, ImageMetaIs DEF Order
<1>8. \A i \in 1 .. n : Order[i] # kind /\ Order[i] \in Kinds
  BY <1>2 DEF Order, Kinds
<1>9. c.entry.meta \in [Kinds -> MetaInfo]
  BY DEF Object, Entry
<1>10. ASSUME NEW i \in 1 .. n + 1 PROVE d.entry.meta[Order[i]] = ImageMeta[Order[i]]
  <2>1. CASE i \in 1 .. n
    BY <1>1, <1>2, <1>5, <1>6, <1>8, <1>9, <2>1
  <2>2. CASE i = n + 1
    BY <1>2, <1>5, <1>6, <1>7, <1>9, <2>2
  <2> QED
    BY <2>1, <2>2
<1> QED
  BY <1>4, <1>6, <1>10 DEF Stored

\* No process is running initially.
LEMMA InitSessions == Init => SessionsInv
<1> SUFFICES ASSUME Init PROVE SessionsInv
  OBVIOUS
<1>1. ASSUME NEW p \in Procs PROVE Session(p)
  <2>1. pc[p] = "down" /\ ~ info[p] /\ loaded[p] = NoSections
    BY DEF Init
  <2> QED
    BY <2>1 DEF Session, Using, InScript, Writing, LoadSteps, WriteSteps
<1> QED
  BY <1>1 DEF SessionsInv, ListReadable, Init

\* initialize: a new object is clean, and the list it has read is sound.
LEMMA InitializeSessions ==
  ASSUME IInv, ListsInv, SessionsInv, [Next]_vars, ~ LosePower, NEW p \in Procs,
         \/ LockCacheDir(p) \/ LockCacheDirFails(p)
         \/ InitCacheList(p) \/ InitCacheListFails(p)
  PROVE  SessionsInv'
<1>o. IInv /\ TypeOK
  BY DEF IInv
<1>i. /\ UNCHANGED <<files, listFile, src, info, loaded>>
      /\ pc[p] \in {"down", "initList"} /\ ~ info[p] /\ loaded[p] = NoSections
  BY DEF LockCacheDir, LockCacheDirFails, InitCacheList, InitCacheListFails, disk, SessionsInv,
         Session, Writing, LoadSteps, WriteSteps
<1>r. ListReadable' => SoundList(files', listFile'.entries, listFile'.ver)
  BY <1>i, DiskSound
<1>1. CASE LockCacheDir(p) \/ InitCacheListFails(p)
  <2>1. /\ pc' \in {[pc EXCEPT ![p] = "initList"], [pc EXCEPT ![p] = "clearInit"]} /\ UNCHANGED cache
    BY <1>1 DEF LockCacheDir, InitCacheListFails, StartClearAll, Goto
  <2>2. pc'[p] \in {"initList", "clearInit"}
    BY <1>o, <2>1 DEF TypeOK
  <2>3. Session(p)'
    BY <1>i, <2>2, SessionQuiet DEF Using, InScript, Writing, LoadSteps, WriteSteps
  <2> QED
    BY <1>o, <1>i, <1>r, <2>1, <2>3, SessionFrame DEF TypeOK
<1>2. CASE LockCacheDirFails(p)
  <2>1. pc' = [pc EXCEPT ![p] = "idle"] /\ pc[p] = "down" /\ UNCHANGED cache
    BY <1>2 DEF LockCacheDirFails, Goto
  <2>2. ~ cache[p].enabled /\ pc'[p] = "idle"
    BY <1>o, <2>1 DEF ListsInv, Lists, TypeOK
  <2>3. Session(p)'
    BY <1>i, <2>1, <2>2, SessionQuiet DEF Using, InScript, Writing, LoadSteps, WriteSteps
  <2> QED
    BY <1>o, <1>i, <1>r, <2>1, <2>3, SessionFrame DEF TypeOK
<1>3. CASE InitCacheList(p)
  <2> DEFINE l == IF listFile = NoList THEN EmptyList ELSE listFile.entries
  <2>1. /\ pc' = [pc EXCEPT ![p] = "idle"] /\ cache' = [cache EXCEPT ![p] = Enabled(l)]
        /\ (listFile = NoList \/ ListUsable(p))
    BY <1>3 DEF InitCacheList, Goto, SetCache
  <2>2. SoundList(files, l, VersionOf[p])
    <3>1. CASE listFile = NoList
      BY <3>1, SoundEmpty
    <3>2. CASE listFile # NoList
      BY <2>1, <3>2 DEF SessionsInv, ListReadable, ListUsable
    <3> QED
      BY <3>1, <3>2
  <2> HIDE DEF l
  <2>3. pc'[p] = "idle" /\ cache'[p] = Enabled(l)
    BY <1>o, <2>1 DEF TypeOK
  <2>4. Clean(Enabled(l)) /\ Enabled(l).list = l
    <3> DEFINE e == Enabled(l)
    <3>1. l \in CacheList
      BY <1>o, <2>1 DEF ListUsable, TypeOK, List, EmptyList, CacheList, l
    <3>2. e \in Object
      BY <3>1, EnabledType
    <3>3. /\ e.status = "READY" /\ e.list = l /\ e.path = NoHash /\ e.entry = EmptyEntry
          /\ e.offset = 0 /\ e.buffer = <<>>
      BY DEF Enabled, Cleared
    <3>4. ~ e.table
      BY DEF Enabled, Cleared
    <3> HIDE DEF e
    <3>5. ResetContext(e) = e
      BY <3>2, <3>3, <3>4 DEF ResetContext, Object
    <3> QED
      BY <3>3, <3>5 DEF Clean, e
  <2>5. Session(p)'
    BY <1>i, <2>2, <2>3, <2>4 DEF Session, Writing, LoadSteps, WriteSteps
  <2> QED
    BY <1>o, <1>i, <1>r, <2>1, <2>5, SessionFrame DEF TypeOK
<1> QED
  BY <1>1, <1>2, <1>3

\* clearAll, clear(), the destructor and a crash end the session.
LEMMA ClearSessions ==
  ASSUME IInv, ListsInv, SessionsInv, [Next]_vars, ~ LosePower, NEW p \in Procs,
         \/ \E f \in FileNames : ClearCacheDir(p, f)
         \/ ClearAfterClearDir(p) \/ Clear(p) \/ Destroy(p) \/ Crash(p)
  PROVE  SessionsInv'
<1>o. IInv /\ TypeOK
  BY DEF IInv
<1>1. ASSUME NEW f \in FileNames, ClearCacheDir(p, f) PROVE SessionsInv'
  <2>1. /\ pc[p] \in Clearing /\ UNCHANGED <<pc, src, cache, info, loaded>> /\ listFile' \in {listFile, NoList}
    BY <1>1 DEF ClearCacheDir, disk
  <2>2. lock = p
    BY <2>1 DEF IInv, ExclusiveDirectory, Clearing
  <2>3. Session(p)'
    BY <2>1 DEF SessionsInv, Session, Using, Clearing, InScript, Writing, LoadSteps, WriteSteps
  <2>4. ListReadable' => SoundList(files', listFile'.entries, listFile'.ver)
    BY <2>1, DiskSound
  <2> QED
    BY <2>1, <2>2, <2>3, <2>4, SessionFrame
<1>2. CASE ClearAfterClearDir(p) \/ Clear(p) \/ Destroy(p) \/ Crash(p)
  <2>1. /\ cache' = [cache EXCEPT ![p] = Cleared] /\ UNCHANGED <<files, listFile>>
        /\ src' \in {src, [src EXCEPT ![p] = NoSource]}
    BY <1>2 DEF ClearAfterClearDir, Clear, Destroy, Crash, Gone, EndScript, SetCache, disk
  <2>2. pc' \in {[pc EXCEPT ![p] = "idle"], [pc EXCEPT ![p] = "down"]} \/ (pc' = pc /\ pc[p] = "idle")
    BY <1>2 DEF ClearAfterClearDir, Clear, Destroy, Crash, Gone, EndScript, Goto
  <2>3. /\ \A q \in Procs \ {p} : info'[q] = info[q] /\ loaded'[q] = loaded[q]
        /\ ~ info'[p] /\ loaded'[p] = NoSections
    <3>1. CASE ClearAfterClearDir(p)
      <4>1. /\ info' = [info EXCEPT ![p] = IF pc[p] = "clearWrite" THEN FALSE ELSE @]
            /\ loaded' = [loaded EXCEPT ![p] = NoSections] /\ pc[p] \in Clearing
        BY <3>1 DEF ClearAfterClearDir, EndScript
      <4>2. pc[p] # "clearWrite" => ~ info[p]
        BY <4>1 DEF SessionsInv, Session, Clearing, Writing, WriteSteps
      <4> QED
        BY <1>o, <4>1, <4>2 DEF TypeOK
    <3>2. CASE Clear(p)
      BY <3>2 DEF Clear, SessionsInv, Session, Writing, LoadSteps, WriteSteps
    <3>3. CASE Destroy(p) \/ Crash(p)
      BY <1>o, <3>3 DEF Destroy, Crash, Gone, TypeOK
    <3> QED
      BY <1>2, <3>1, <3>2, <3>3
  <2>4. pc'[p] \in {"idle", "down"} /\ ~ cache'[p].enabled
    BY <1>o, <2>1, <2>2, ClearedType DEF TypeOK
  <2>5. Session(p)'
    BY <2>3, <2>4, SessionQuiet DEF Using, InScript, Writing, LoadSteps, WriteSteps
  <2>6. ListReadable' => SoundList(files', listFile'.entries, listFile'.ver)
    BY <2>1, DiskSound
  <2> QED
    BY <1>o, <2>1, <2>2, <2>3, <2>5, <2>6, SessionFrame DEF TypeOK
<1> QED
  BY <1>1, <1>2

\* Power loss cuts data files, and what is left is still sound.
LEMMA PowerLossSessions ==
  ASSUME IInv, ListsInv, SessionsInv, LosePower
  PROVE  SessionsInv'
<1>1. ASSUME NEW p \in Procs PROVE Session(p)'
  <2>1. pc'[p] = "down" /\ ~ info'[p] /\ loaded'[p] = NoSections
    BY DEF LosePower
  <2> QED
    BY <2>1, SessionQuiet DEF Using, InScript, Writing, LoadSteps, WriteSteps
<1>2. ASSUME ListReadable' PROVE SoundList(files', listFile'.entries, listFile'.ver)
  <2>1. listFile' = listFile /\ ListReadable
    BY <1>2 DEF LosePower, ListReadable
  <2>2. SoundList(files, listFile.entries, listFile.ver)
    BY <2>1 DEF SessionsInv
  <2>3. ASSUME NEW h \in Hashes, files[h] # NoFile, NEW n \in 0 .. Len(files[h]),
               files' = [files EXCEPT ![h] = SubSeq(@, 1, n)],
               NEW g \in Listed(listFile.entries)
        PROVE  SoundFile(files'[g], g, listFile.ver)
    <3>1. SoundFile(files[g], g, listFile.ver) /\ g \in Hashes
      BY <2>2 DEF SoundList, Listed
    <3>2. CASE g # h
      BY <2>3, <3>1, <3>2 DEF IInv, TypeOK
    <3>3. CASE g = h
      <4>1. files'[g] = SubSeq(files[g], 1, n)
        BY <2>3, <3>3 DEF IInv, TypeOK
      <4>2. PICK s \in Sources : HashOf[s] = g /\ Written(files[g], 3, s, listFile.ver)
        BY <2>3, <3>1, <3>3 DEF SoundFile
      <4>3. PICK f, v : f = files[g] /\ v = listFile.ver
        OBVIOUS
      <4>4. Written(SubSeq(f, 1, n), 3, s, v)
        BY <2>3, <3>3, <4>2, <4>3, WrittenCut
      <4> QED
        BY <4>1, <4>2, <4>3, <4>4 DEF SoundFile
    <3> QED
      BY <3>2, <3>3
  <2>4. CASE files' = files
    BY <2>1, <2>2, <2>4
  <2> QED
    BY <2>1, <2>2, <2>3, <2>4 DEF LosePower, SoundList
<1> QED
  BY <1>1, <1>2 DEF SessionsInv

\* Loading a script: each stage decodes its section of one image, or the session fails.
LEMMA LoadSessions ==
  ASSUME IInv, ListsInv, SessionsInv, [Next]_vars, ~ LosePower, NEW p \in Procs,
         \/ \E s \in Sources : PrepareCacheLoading(p, s)
         \/ LoadCacheStringTable(p) \/ LoadCodeBlockTree(p) \/ LoadByteCodeBlock(p)
         \/ PostCacheLoading(p)
  PROVE  SessionsInv'
<1>o. IInv /\ TypeOK /\ cache[p] \in Object /\ VersionOf[p] \in Versions
  BY CodeCacheAssumption DEF IInv, TypeOK
<1>i. /\ UNCHANGED <<files, listFile, info>>
      /\ pc[p] \in LoadSteps \cup {"idle"} /\ ~ info[p] /\ Session(p)
  BY DEF PrepareCacheLoading, LoadCacheStringTable, LoadCodeBlockTree, LoadByteCodeBlock,
         LoadSection, PostCacheLoading, disk, SessionsInv, Session, Writing, LoadSteps, WriteSteps
<1>r. ListReadable' => SoundList(files', listFile'.entries, listFile'.ver)
  BY <1>i, DiskSound
<1>1. ASSUME NEW s \in Sources, PrepareCacheLoading(p, s) PROVE SessionsInv'
  <2> DEFINE h == HashOf[s]
             c == cache[p]
             d == InProgress(c, h, c.list[h], FALSE)
  <2>1. /\ pc[p] = "idle" /\ c.enabled /\ c.list[h] # NoEntry
        /\ pc' = [pc EXCEPT ![p] = "loadString"] /\ cache' = [cache EXCEPT ![p] = d]
        /\ src' = [src EXCEPT ![p] = s] /\ UNCHANGED loaded
    BY <1>1 DEF PrepareCacheLoading, CacheHit, SetCache, Goto
  <2>2. pc'[p] = "loadString" /\ cache'[p] = d /\ src'[p] = s /\ loaded'[p] = NoSections
    BY <1>o, <1>i, <2>1 DEF TypeOK, Session, LoadSteps
  <2>3. Clean(c) /\ SoundList(files, c.list, VersionOf[p])
    BY <1>i, <2>1 DEF Session, Using
  <2>4. h \in Hashes
    BY CodeCacheAssumption
  <2>5. c.list[h].meta = ImageMeta
    BY <2>1, <2>3, <2>4 DEF SoundList, Listed
  <2>6. /\ d.status = "IN_PROGRESS" /\ d.list = c.list /\ d.buffer = <<>>
        /\ d.entry = c.list[h]
    BY <1>o, <2>3 DEF InProgress, Object, Clean
  <2> HIDE DEF d
  <2>7. StatusAfter({}) = "IN_PROGRESS"
    BY DEF Kinds, StatusAfter
  <2>8. HasDecoded(p, {})'
    BY <2>2, <2>5, <2>6, <2>7 DEF HasDecoded, Decoded
  <2>9. OneSource(loaded'[p], h, VersionOf[p])
    BY <2>2, OneSourceNone
  <2>10. Session(p)'
    BY <1>i, <2>1, <2>2, <2>3, <2>6, <2>8, <2>9 DEF Session, Writing, LoadSteps, WriteSteps
  <2> QED
    BY <1>o, <1>i, <1>r, <2>1, <2>10, SessionFrame DEF TypeOK
<1>2. ASSUME NEW K, NEW kind \in Kinds, NEW next \in LoadSteps, NEW st,
             pc[p] \in LoadSteps, LoadSection(p, kind, next, st), next # "loadString",
             HasDecoded(p, K), K # Kinds, kind \notin K,
             st = StatusAfter(K \cup {kind}),
             K # {} \/ kind = "STRING", K # {} \/ pc[p] = "loadString"
      PROVE  /\ HasDecoded(p, K \cup {kind})' /\ pc'[p] = next
             /\ Session(p)' <=> /\ next = "loadTree" => HasDecoded(p, {"STRING"})'
                                /\ next = "loadByteCode" => HasDecoded(p, {"STRING", "CODEBLOCK"})'
                                /\ next = "postLoad" => HasDecoded(p, Kinds)'
             /\ Session(p)' => SessionsInv'
  <2> DEFINE c == cache[p]
             s == src[p]
             h == HashOf[s]
             v == VersionOf[p]
             file == files[h]
             ld == loaded[p]
  <2>1. /\ s \in Sources /\ c.path = h /\ h \in Hashes /\ ld \in [Kinds -> Seq(Cell)]
    BY <1>2, <1>o, CodeCacheAssumption DEF IInv, SessionNamed, TypeOK
  <2>2. OneSource(ld, h, v) /\ c.buffer = <<>> /\ SoundList(files, c.list, v)
    BY <1>2, <1>i DEF Session, Using, InScript
  <2>3. K # {} \/ SoundFile(file, h, v)
    <3>1. pc[p] = "loadString" => c.list[h] # NoEntry
      BY <1>i DEF Session
    <3> QED
      BY <1>2, <2>1, <2>2, <3>1 DEF SoundList, Listed
  <2>4. PICK d, ld2 :
          /\ cache' = [cache EXCEPT ![p] = d] /\ loaded' = [loaded EXCEPT ![p] = ld2]
          /\ LoadStage(c, d, file, ld, ld2, kind, st)
    <3>1. cache = [cache EXCEPT ![p] = c] /\ loaded = [loaded EXCEPT ![p] = ld]
      BY <1>o DEF TypeOK
    <3>2. CASE c.status # "IN_PROGRESS" /\ UNCHANGED <<cache, loaded>>
      BY <3>1, <3>2 DEF LoadStage
    <3>3. CASE /\ c.status = "IN_PROGRESS" /\ Readable(file, kind, c.entry.meta[kind])
               /\ loaded' = [loaded EXCEPT ![p][kind] = Section(file, kind, c.entry.meta[kind])]
               /\ SetCache(p, SectionLoaded(c, kind, st))
      <4> DEFINE sec == Section(file, kind, c.entry.meta[kind])
                 dd == SectionLoaded(c, kind, st)
      <4>1. loaded' = [loaded EXCEPT ![p] = [ld EXCEPT ![kind] = sec]] /\ cache' = [cache EXCEPT ![p] = dd]
        BY <3>3 DEF SetCache
      <4> HIDE DEF sec, dd
      <4> QED
        BY <3>3, <4>1 DEF LoadStage, sec, dd
    <3>4. CASE SetCache(p, Failed(c)) /\ UNCHANGED loaded
      <4>1. cache' = [cache EXCEPT ![p] = Failed(c)] /\ loaded' = [loaded EXCEPT ![p] = ld]
        BY <3>1, <3>4 DEF SetCache
      <4> QED
        BY <4>1 DEF LoadStage
    <3>5. \/ c.status # "IN_PROGRESS" /\ UNCHANGED <<cache, loaded>>
          \/ /\ c.status = "IN_PROGRESS" /\ Readable(file, kind, c.entry.meta[kind])
             /\ loaded' = [loaded EXCEPT ![p][kind] = Section(file, kind, c.entry.meta[kind])]
             /\ SetCache(p, SectionLoaded(c, kind, st))
          \/ SetCache(p, Failed(c)) /\ UNCHANGED loaded
      BY <1>2, <2>1 DEF LoadSection
    <3> QED
      BY <3>2, <3>3, <3>4, <3>5
  <2>5. PICK M : M = K \cup {kind}
    OBVIOUS
  <2>6. /\ pc' = [pc EXCEPT ![p] = next] /\ UNCHANGED src
    BY <1>2 DEF LoadSection, Goto
  <2>7. pc'[p] = next /\ src'[p] = s /\ cache'[p] = d /\ loaded'[p] = ld2
    BY <1>o, <2>4, <2>6 DEF TypeOK
  <2>8. d.buffer = <<>> /\ d.list = c.list
    BY <1>o, <2>2, <2>4 DEF LoadStage, SectionLoaded, Failed, Object
  <2>h. Decoded(c, file, ld, h, v, K)
    BY <1>2 DEF HasDecoded
  <2>v. c \in Object /\ v \in Versions
    BY <1>o
  <2>m. /\ M = K \cup {kind} /\ st = StatusAfter(M) /\ LoadStage(c, d, file, ld, ld2, kind, st)
        /\ K # Kinds /\ kind \notin K /\ (K # {} \/ kind = "STRING") /\ (K # {} \/ SoundFile(file, h, v))
    BY <1>2, <2>3, <2>4, <2>5
  <2>l. ld \in [Kinds -> Seq(Cell)] /\ OneSource(ld, h, v)
    BY <2>1, <2>2
  <2> HIDE DEF c, s, h, v, file, ld
  <2>9. Decoded(d, file, ld2, h, v, M) /\ OneSource(ld2, h, v)
    BY ONLY kind \in Kinds, <2>h, <2>v, <2>m, <2>l, DecodedNext
  <2>10. HasDecoded(p, M)'
    BY <1>i, <2>7, <2>9 DEF HasDecoded, file, h, v
  <2>11. Session(p)' <=> /\ next = "loadTree" => HasDecoded(p, {"STRING"})'
                         /\ next = "loadByteCode" => HasDecoded(p, {"STRING", "CODEBLOCK"})'
                         /\ next = "postLoad" => HasDecoded(p, Kinds)'
    BY <1>2, <1>i, <2>1, <2>2, <2>7, <2>8, <2>9
    DEF Session, Writing, LoadSteps, WriteSteps, h, v
  <2>12. Session(p)' => SessionsInv'
    BY <1>o, <1>i, <1>r, <2>4, <2>6, SessionFrame DEF TypeOK
  <2> QED
    BY <2>5, <2>7, <2>10, <2>11, <2>12
<1>3. CASE PostCacheLoading(p)
  <2>1. /\ pc[p] = "postLoad" /\ src[p] \in Sources /\ cache[p].buffer = <<>>
        /\ SoundList(files, cache[p].list, VersionOf[p])
        /\ OneSource(loaded[p], HashOf[src[p]], VersionOf[p])
    BY <1>3, <1>i DEF PostCacheLoading, Session, Using, InScript, LoadSteps
  <2>2. CASE EndScript(p) /\ SetCache(p, Ready(cache[p]))
    <3>1. /\ pc' = [pc EXCEPT ![p] = "idle"] /\ cache' = [cache EXCEPT ![p] = Ready(cache[p])]
          /\ src' = [src EXCEPT ![p] = NoSource] /\ loaded' = [loaded EXCEPT ![p] = NoSections]
      BY <2>2 DEF EndScript, SetCache, Goto
    <3>2. pc'[p] = "idle" /\ cache'[p] = Ready(cache[p]) /\ loaded'[p] = NoSections
      BY <1>o, <3>1 DEF TypeOK
    <3>3. Clean(cache'[p]) /\ cache'[p].list = cache[p].list
      BY <1>o, <2>1, <3>2, ReadyClean, ListKept
    <3>4. Session(p)'
      BY <1>i, <2>1, <3>2, <3>3 DEF Session, Writing, LoadSteps, WriteSteps
    <3> QED
      BY <1>o, <1>i, <1>r, <3>1, <3>4, SessionFrame DEF TypeOK
  <2>3. CASE StartClearAll(p, "clearLoad") /\ UNCHANGED <<src, cache, loaded>>
    <3>1. pc' = [pc EXCEPT ![p] = "clearLoad"] /\ pc'[p] = "clearLoad"
      BY <1>o, <2>3 DEF StartClearAll, Goto, TypeOK
    <3>2. Session(p)'
      BY <1>i, <2>1, <2>3, <3>1 DEF Session, Using, InScript, Writing, LoadSteps, WriteSteps
    <3> QED
      BY <1>o, <1>i, <1>r, <2>3, <3>1, <3>2, SessionFrame DEF TypeOK
  <2> QED
    BY <1>3, <2>2, <2>3 DEF PostCacheLoading
<1>4. CASE LoadCacheStringTable(p)
  <2>1. /\ LoadSection(p, "STRING", "loadTree", "IN_PROGRESS") /\ pc[p] = "loadString"
        /\ HasDecoded(p, {})
    BY <1>4, <1>i DEF LoadCacheStringTable, Session
  <2>k. PICK K : K = {}
    OBVIOUS
  <2>h. HasDecoded(p, K)
    BY <2>1, <2>k
  <2>2. /\ K # Kinds /\ "STRING" \in Kinds /\ K \cup {"STRING"} = {"STRING"} /\ {"STRING"} # Kinds
        /\ "loadTree" \in LoadSteps /\ "loadString" \in LoadSteps /\ "STRING" \notin K
        /\ StatusAfter({"STRING"}) = "IN_PROGRESS"
    BY <2>k DEF Kinds, LoadSteps, StatusAfter
  <2>3. /\ HasDecoded(p, {"STRING"})'
        /\ Session(p)' <=> HasDecoded(p, {"STRING"})'
        /\ Session(p)' => SessionsInv'
    BY <1>2, <2>1, <2>2, <2>h
  <2> QED
    BY <2>3
<1>5. CASE LoadCodeBlockTree(p)
  <2>1. /\ LoadSection(p, "CODEBLOCK", "loadByteCode", "IN_PROGRESS") /\ pc[p] = "loadTree"
        /\ HasDecoded(p, {"STRING"})
    BY <1>5, <1>i DEF LoadCodeBlockTree, Session
  <2>2. /\ {"STRING"} # Kinds /\ {"STRING"} # {} /\ "CODEBLOCK" \in Kinds /\ "CODEBLOCK" \notin {"STRING"}
        /\ {"STRING"} \cup {"CODEBLOCK"} = {"STRING", "CODEBLOCK"} /\ {"STRING", "CODEBLOCK"} # Kinds
        /\ "loadByteCode" \in LoadSteps /\ "loadTree" \in LoadSteps
        /\ StatusAfter({"STRING", "CODEBLOCK"}) = "IN_PROGRESS"
    BY DEF Kinds, LoadSteps, StatusAfter
  <2>3. /\ HasDecoded(p, {"STRING", "CODEBLOCK"})'
        /\ Session(p)' <=> HasDecoded(p, {"STRING", "CODEBLOCK"})'
        /\ Session(p)' => SessionsInv'
    BY <1>2, <2>1, <2>2
  <2> QED
    BY <2>3
<1>6. CASE LoadByteCodeBlock(p)
  <2>1. /\ LoadSection(p, "BYTECODE", "postLoad", "FINISH") /\ pc[p] = "loadByteCode"
        /\ HasDecoded(p, {"STRING", "CODEBLOCK"})
    BY <1>6, <1>i DEF LoadByteCodeBlock, Session
  <2>k. PICK K : K = {"STRING", "CODEBLOCK"}
    OBVIOUS
  <2>h. HasDecoded(p, K)
    BY <2>1, <2>k
  <2>2. /\ K # Kinds /\ K # {} /\ "BYTECODE" \in Kinds /\ "BYTECODE" \notin K
        /\ K \cup {"BYTECODE"} = Kinds /\ "postLoad" \in LoadSteps /\ "loadByteCode" \in LoadSteps
        /\ StatusAfter(Kinds) = "FINISH"
    BY <2>k DEF Kinds, LoadSteps, StatusAfter
  <2>3. /\ HasDecoded(p, Kinds)'
        /\ Session(p)' <=> HasDecoded(p, Kinds)'
        /\ Session(p)' => SessionsInv'
    BY <1>2, <2>1, <2>2, <2>h
  <2> QED
    BY <2>3
<1> QED
  BY <1>1, <1>3, <1>4, <1>5, <1>6

\* Parsing and generating code, where generation does not throw.
LEMMA CompileSessions ==
  ASSUME IInv, ListsInv, SessionsInv, [Next]_vars, ~ LosePower, ~ Throws, NEW p \in Procs,
         \/ \E s \in Sources : CacheMiss(p, s)
         \/ Parse(p) \/ ParseError(p) \/ GenerateByteCode(p) \/ GenerateByteCodeThrows(p)
  PROVE  SessionsInv'
<1>o. IInv /\ TypeOK
  BY DEF IInv
<1>i. /\ UNCHANGED <<files, listFile, cache>> /\ Session(p)
      /\ pc[p] \in {"idle", "parse", "generate"} /\ loaded[p] = NoSections
  BY DEF CacheMiss, Parse, ParseError, GenerateByteCode, GenerateByteCodeThrows, disk,
         SessionsInv, Session, LoadSteps
<1>r. ListReadable' => SoundList(files', listFile'.entries, listFile'.ver)
  BY <1>i, DiskSound
<1>1. ASSUME NEW s \in Sources, CacheMiss(p, s) PROVE SessionsInv'
  <2>1. /\ pc[p] = "idle" /\ cache[p].enabled /\ pc' = [pc EXCEPT ![p] = "parse"]
        /\ src' = [src EXCEPT ![p] = s] /\ info' = [info EXCEPT ![p] = TRUE] /\ UNCHANGED loaded
    BY <1>1 DEF CacheMiss, Goto
  <2>2. pc'[p] = "parse" /\ Using(p)
    BY <1>o, <2>1 DEF TypeOK, Using
  <2>3. Session(p)'
    BY <1>i, <2>1, <2>2 DEF Session, Writing, LoadSteps
  <2> QED
    BY <1>o, <1>i, <1>r, <2>1, <2>3, SessionFrame DEF TypeOK
<1>2. CASE Parse(p)
  <2>1. /\ pc[p] = "parse" /\ UNCHANGED <<src, info, loaded>> /\ pc' = [pc EXCEPT ![p] = "prepareWrite"]
    BY <1>2 DEF Parse, Goto
  <2>2. pc'[p] = "prepareWrite" /\ Using(p)
    BY <1>o, <2>1 DEF TypeOK, Using, InScript, Writing
  <2>3. Session(p)'
    BY <1>i, <2>1, <2>2 DEF Session, Writing, LoadSteps, WriteSteps
  <2> QED
    BY <1>o, <1>i, <1>r, <2>1, <2>3, SessionFrame DEF TypeOK
<1>3. CASE GenerateByteCode(p)
  <2>1. /\ pc[p] = "generate" /\ UNCHANGED <<src, info, loaded>> /\ pc' = [pc EXCEPT ![p] = "storeByteCode"]
    BY <1>3 DEF GenerateByteCode, Goto
  <2>2. pc'[p] = "storeByteCode" /\ Using(p)
    BY <1>o, <2>1 DEF TypeOK, Using, InScript, Writing, WriteSteps
  <2>3. HasStored(p, 1)'
    BY <1>i, <2>1 DEF Session, HasStored
  <2>4. Session(p)'
    BY <1>i, <2>1, <2>2, <2>3 DEF Session, Writing, LoadSteps, WriteSteps
  <2> QED
    BY <1>o, <1>i, <1>r, <2>1, <2>4, SessionFrame DEF TypeOK
<1>4. CASE ParseError(p)
  <2>1. /\ pc[p] = "parse" /\ pc' = [pc EXCEPT ![p] = "idle"] /\ src' = [src EXCEPT ![p] = NoSource]
        /\ info' = [info EXCEPT ![p] = FALSE] /\ loaded' = [loaded EXCEPT ![p] = NoSections]
    BY <1>4 DEF ParseError, EndScript, Goto
  <2>2. pc'[p] = "idle" /\ Using(p) /\ ~ info'[p] /\ loaded'[p] = NoSections
    BY <1>o, <2>1 DEF TypeOK, Using, InScript, Writing
  <2>3. Session(p)'
    BY <1>i, <2>1, <2>2 DEF Session, Writing, LoadSteps, WriteSteps
  <2> QED
    BY <1>o, <1>i, <1>r, <2>1, <2>3, SessionFrame DEF TypeOK
<1>5. CASE GenerateByteCodeThrows(p)
  BY <1>5 DEF GenerateByteCodeThrows
<1> QED
  BY <1>1, <1>2, <1>3, <1>4, <1>5

\* Storing a script: after n stages the object and the file know n sections, or the
\* session has failed; a session that has not is the only way to the list.
LEMMA WriteSessions ==
  ASSUME IInv, ListsInv, SessionsInv, [Next]_vars, ~ LosePower, NEW p \in Procs,
         \/ PrepareCacheWriting(p) \/ StoreCodeBlockTree(p) \/ StoreByteCodeBlock(p)
         \/ StoreStringTable(p) \/ PostCacheWriting(p) \/ WriteCacheList(p)
  PROVE  SessionsInv'
<1>o. IInv /\ TypeOK /\ cache[p] \in Object /\ VersionOf[p] \in Versions
  BY CodeCacheAssumption DEF IInv, TypeOK
<1>i. /\ pc[p] \in WriteSteps /\ lock = p /\ Session(p) /\ loaded[p] = NoSections
      /\ src[p] \in Sources /\ HashOf[src[p]] \in Hashes
      /\ SoundList(files, cache[p].list, VersionOf[p])
  <2>1. pc[p] \in WriteSteps
    BY DEF PrepareCacheWriting, StoreCodeBlockTree, StoreByteCodeBlock, StoreStringTable,
           PostCacheWriting, WriteCacheList, WriteSteps
  <2>2. Session(p) /\ Using(p) /\ pc[p] \notin LoadSteps \cup {"clearLoad"}
    BY <2>1 DEF SessionsInv, Using, InScript, Writing, WriteSteps, LoadSteps
  <2>3. loaded[p] = NoSections /\ SoundList(files, cache[p].list, VersionOf[p])
    BY <2>2 DEF Session
  <2>4. lock = p
    BY <2>1 DEF IInv, ExclusiveDirectory, WriteSteps
  <2>5. src[p] \in Sources
    BY <2>1 DEF IInv, SessionNamed
  <2> QED
    BY <2>1, <2>2, <2>3, <2>4, <2>5, CodeCacheAssumption
<1>n. pc[p] # "writeList" => cache[p].list[HashOf[src[p]]] = NoEntry
  BY <1>i DEF ListsInv, Lists, Writing, WriteSteps
<1>1. CASE PrepareCacheWriting(p)
  <2> DEFINE c == cache[p]
             d == InProgress(c, HashOf[src[p]], c.entry, TRUE)
  <2>1. /\ pc[p] = "prepareWrite" /\ pc' = [pc EXCEPT ![p] = "storeTree"]
        /\ cache' = [cache EXCEPT ![p] = d] /\ UNCHANGED <<files, listFile, src, info, loaded>>
    BY <1>1 DEF PrepareCacheWriting, SetCache, Goto, disk
  <2>2. Clean(c)
    BY <1>i, <2>1 DEF Session, Using, InScript, Writing, WriteSteps
  <2>3. c.offset = 0
    <3>1. ResetContext(c).offset = 0
      BY <1>o DEF ResetContext, Object
    <3> QED
      BY <2>2, <3>1 DEF Clean
  <2>4. d.status = "IN_PROGRESS" /\ d.list = c.list /\ d.buffer = <<>> /\ d.offset = 0
    BY <1>o, <2>2, <2>3 DEF InProgress, Object, Clean
  <2> HIDE DEF d
  <2>5. pc'[p] = "storeTree" /\ cache'[p] = d
    BY <1>o, <2>1 DEF TypeOK
  <2>6. HasStored(p, 0)'
    BY <2>4, <2>5 DEF HasStored, Stored
  <2>7. Session(p)'
    BY <1>i, <2>1, <2>4, <2>5, <2>6 DEF Session, Writing, LoadSteps, WriteSteps
  <2>8. ListReadable' => SoundList(files', listFile'.entries, listFile'.ver)
    BY <2>1, DiskSound
  <2> QED
    BY <1>o, <2>1, <2>7, <2>8, SessionFrame DEF TypeOK
<1>2. ASSUME NEW n \in 0 .. 2, NEW kind, NEW next \in {"generate", "storeString", "postWrite"}, NEW st,
             StoreSection(p, kind, next, st), kind = Order[n + 1],
             st = (IF n + 1 = 3 THEN "FINISH" ELSE "IN_PROGRESS"),
             HasStored(p, n), pc[p] \in {"storeTree", "storeByteCode", "storeString"},
             next = (IF n = 0 THEN "generate" ELSE IF n = 1 THEN "storeString" ELSE "postWrite")
      PROVE  SessionsInv'
  <2> DEFINE c == cache[p]
             s == src[p]
             h == HashOf[s]
             v == VersionOf[p]
             file == files[h]
             cell == [kind |-> kind, src |-> s, ver |-> v]
             buffer == Append(c.buffer, cell)
             recorded == MetaRecorded(c, kind, Len(buffer))
             opened == OpenedFile(h, kind)
  <2>0. n + 1 \in 1 .. 3 /\ kind \in Kinds /\ (kind = "CODEBLOCK" <=> n = 0)
    BY <1>2 DEF Order, Kinds
  <2>1. c.path = h /\ cell \in Cell
    BY <1>2, <1>o, <1>i, <2>0 DEF IInv, SessionNamed, WriteSteps, Cell
  <2>2. PICK d, f : /\ cache' = [cache EXCEPT ![p] = d] /\ files' = [files EXCEPT ![h] = f]
                    /\ d.list = c.list /\ Stored(d, f, s, v, n + 1)
    <3>1. cache = [cache EXCEPT ![p] = c] /\ files = [files EXCEPT ![h] = file]
      BY <1>o, <1>i DEF TypeOK
    <3>2. CASE c.status # "IN_PROGRESS" /\ UNCHANGED <<cache, files>>
      <4>1. c.status = "FAILED"
        BY <1>2, <3>2 DEF HasStored, Stored
      <4>2. Stored(c, file, s, v, n + 1)
        BY <4>1 DEF Stored
      <4> QED
        BY <3>1, <3>2, <4>2
    <3>b. ASSUME c.status = "IN_PROGRESS"
          PROVE  /\ c.buffer = <<>> /\ buffer = <<cell>> /\ Len(buffer) = 1
                 /\ opened = (IF n = 0 \/ file = NoFile THEN <<>> ELSE file)
      <4>1. c.buffer = <<>>
        BY <1>2, <3>b DEF HasStored, Stored
      <4> QED
        BY <2>0, <4>1 DEF OpenedFile
    <3>3. ASSUME c.status = "IN_PROGRESS", NEW part \in {buffer} \cup Truncated(buffer),
                 files' = [files EXCEPT ![c.path] = opened \o part],
                 SetCache(p, SectionStored(recorded, st, Len(buffer)))
          PROVE  \E d, f : /\ cache' = [cache EXCEPT ![p] = d] /\ files' = [files EXCEPT ![h] = f]
                           /\ d.list = c.list /\ Stored(d, f, s, v, n + 1)
      <4> DEFINE d == SectionStored(MetaRecorded(c, kind, 1), st, 1)
      <4>1. /\ buffer = <<cell>> /\ Len(buffer) = 1
            /\ opened = (IF n = 0 \/ file = NoFile THEN <<>> ELSE file)
        BY <3>b, <3>3
      <4>2. cache' = [cache EXCEPT ![p] = d] /\ files' = [files EXCEPT ![h] = opened \o part]
        BY <2>1, <3>3, <4>1 DEF SetCache
      <4>3. part \in {<<cell>>} \cup Truncated(<<cell>>)
        BY <3>3, <4>1
      <4>4. d.list = c.list
        <5>1. MetaRecorded(c, kind, 1) \in Object /\ MetaRecorded(c, kind, 1).list = c.list
          BY <1>o, <2>0, MetaRecordedType DEF MetaRecorded, Object
        <5> HIDE DEF c
        <5> QED
          BY <5>1 DEF SectionStored, Object
      <4>5. c \in Object /\ v \in Versions /\ s \in Sources /\ Stored(c, file, s, v, n)
        BY <1>2, <1>o, <1>i DEF HasStored
      <4>6. cell = [kind |-> kind, src |-> s, ver |-> v] /\ cell \in Cell
        BY <2>1
      <4>7. PICK op : op = opened
        OBVIOUS
      <4> HIDE DEF c, s, h, v, file, cell, buffer, recorded, opened
      <4>8. d = SectionStored(MetaRecorded(c, kind, 1), st, 1)
        OBVIOUS
      <4> HIDE DEF d
      <4>9. Stored(d, op \o part, s, v, n + 1)
        BY ONLY n \in 0 .. 2, <1>2, <3>3, <4>1, <4>3, <4>5, <4>6, <4>7, <4>8, StoredNext
      <4> QED
        BY <4>2, <4>4, <4>7, <4>9
    <3>4. ASSUME NEW x, NEW f, SetCache(p, SectionNotStored(recorded, x)),
                 files' = [files EXCEPT ![h] = f]
          PROVE  \E d, g : /\ cache' = [cache EXCEPT ![p] = d] /\ files' = [files EXCEPT ![h] = g]
                           /\ d.list = c.list /\ Stored(d, g, s, v, n + 1)
      <4> DEFINE d == SectionNotStored(recorded, x)
      <4>1. cache' = [cache EXCEPT ![p] = d]
        BY <3>4 DEF SetCache
      <4>2. d.status = "FAILED" /\ d.list = c.list
        BY <1>o DEF SectionNotStored, MetaRecorded, Object
      <4> HIDE DEF d
      <4>3. Stored(d, f, s, v, n + 1)
        BY <4>2, Zenon DEF Stored
      <4> QED
        BY <3>4, <4>1, <4>2, <4>3
    <3>5. \/ c.status # "IN_PROGRESS" /\ UNCHANGED <<cache, files>>
          \/ /\ c.status = "IN_PROGRESS"
             /\ \E part \in {buffer} \cup Truncated(buffer) : files' = [files EXCEPT ![c.path] = opened \o part]
             /\ SetCache(p, SectionStored(recorded, st, Len(buffer)))
          \/ SetCache(p, SectionNotStored(recorded, buffer)) /\ UNCHANGED files
          \/ /\ \E part \in Truncated(buffer) : files' = [files EXCEPT ![c.path] = opened \o part]
             /\ SetCache(p, SectionNotStored(recorded, <<>>))
      BY <1>2, <2>1 DEF StoreSection
    <3> HIDE DEF c, s, h, v, file, cell, buffer, recorded, opened
    <3> QED
      BY <2>1, <3>1, <3>2, <3>3, <3>4, <3>5
  <2>3. pc' = [pc EXCEPT ![p] = next] /\ UNCHANGED <<listFile, src, info, loaded>>
    BY <1>2 DEF StoreSection, Goto
  <2>4. pc'[p] = next /\ cache'[p] = d /\ src'[p] = s /\ files'[h] = f /\ loaded'[p] = NoSections
    BY <1>o, <1>i, <2>2, <2>3 DEF TypeOK
  <2>5. HasStored(p, n + 1)'
    BY <2>2, <2>4 DEF HasStored
  <2>6. SoundList(files', c.list, v)
    <3>1. \A g \in Listed(c.list) : files'[g] = files[g]
      BY <1>2, <1>o, <1>i, <1>n, <2>2 DEF Listed, TypeOK
    <3>2. PICK F, G, l : F = files /\ G = files' /\ l = c.list
      OBVIOUS
    <3>3. SoundList(G, l, v)
      BY <1>i, <3>1, <3>2, SoundKept
    <3> QED
      BY <3>2, <3>3
  <2>7. Session(p)'
    <3>1. n \in {0, 1, 2}
      OBVIOUS
    <3>2. /\ next = "generate" => HasStored(p, 1)'
          /\ next = "storeString" => HasStored(p, 2)'
          /\ next = "postWrite" => HasStored(p, 3)'
      BY <1>2, <2>5, <3>1
    <3> QED
      BY <1>2, <2>2, <2>4, <2>6, <3>2 DEF Session, Writing, LoadSteps, WriteSteps
  <2>8. ListReadable' => SoundList(files', listFile'.entries, listFile'.ver)
    BY <2>3, DiskSound
  <2> QED
    BY <1>o, <1>i, <2>2, <2>3, <2>7, <2>8, SessionFrame DEF TypeOK
<1>3. CASE PostCacheWriting(p)
  <2> DEFINE c == cache[p]
             s == src[p]
             h == HashOf[s]
             v == VersionOf[p]
             e == Stamped(c.entry)
  <2>1. pc[p] = "postWrite" /\ HasStored(p, 3) /\ UNCHANGED <<listFile, src, info, loaded>>
    BY <1>3, <1>i DEF PostCacheWriting, Session
  <2>2. ListReadable' => SoundList(files', listFile'.entries, listFile'.ver)
    BY <2>1, DiskSound
  <2>3. CASE StartClearAll(p, "clearWrite") /\ UNCHANGED <<files, cache>>
    <3>1. pc' = [pc EXCEPT ![p] = "clearWrite"] /\ pc'[p] = "clearWrite"
      BY <1>o, <2>3 DEF StartClearAll, Goto, TypeOK
    <3>2. Session(p)'
      BY <1>i, <2>1, <3>1, SessionQuiet DEF Using, InScript, Writing, LoadSteps, WriteSteps
    <3> QED
      BY <1>o, <1>i, <2>1, <2>2, <2>3, <3>1, <3>2, SessionFrame DEF TypeOK
  <2>4. ASSUME NEW l \in CacheList, c.status = "FINISH", SetCache(p, EntryAdded(c, l, h)), Goto(p, "writeList"),
               \A g \in Hashes : files'[g] = files[g] \/ files'[g] = NoFile,
               \A g \in Hashes : l[g] = c.list[g] \/ l[g] = NoEntry
        PROVE  SessionsInv'
    <3> DEFINE d == EntryAdded(c, l, h)
    <3>1. /\ cache' = [cache EXCEPT ![p] = d] /\ pc' = [pc EXCEPT ![p] = "writeList"]
      BY <2>4 DEF SetCache, Goto
    <3>2. d.list = [l EXCEPT ![h] = e] /\ d.buffer = c.buffer
      BY <1>o DEF EntryAdded, Object
    <3>3. /\ c.buffer = <<>> /\ Written(files[h], 3, s, v)
          /\ \A i \in 1 .. 3 : c.entry.meta[Order[i]] = ImageMeta[Order[i]]
      BY <2>1, <2>4 DEF HasStored, Stored
    <3>4. c.entry \in Entry /\ c.entry.meta \in [Kinds -> MetaInfo]
      BY <1>o DEF Object, Entry
    <3>5. c.entry.meta = ImageMeta
      <4>1. \A k \in Kinds : c.entry.meta[k] = ImageMeta[k]
        BY <3>3 DEF Order, Kinds
      <4>2. ImageMeta \in [Kinds -> [offset : 0 .. 2, size : {1}]]
        BY DEF ImageMeta, Kinds
      <4> QED
        BY <3>4, <4>1, <4>2
    <3>6. e.meta = ImageMeta
      BY <3>4, <3>5 DEF Stamped, Entry
    <3>7. SoundFile(files'[h], h, v)
      BY <1>i, <2>4, <3>3 DEF SoundFile
    <3> HIDE DEF d, e
    <3>8. SoundList(files', d.list, v)
      <4> SUFFICES ASSUME NEW g \in Listed(d.list)
                   PROVE  d.list[g].meta = ImageMeta /\ SoundFile(files'[g], g, v)
        BY DEF SoundList
      <4>1. g \in Hashes /\ d.list[g] # NoEntry
        BY DEF Listed
      <4>2. CASE g = h
        BY <1>i, <2>4, <3>2, <3>6, <3>7, <4>2 DEF CacheList
      <4>3. CASE g # h
        <5>1. d.list[g] = l[g]
          BY <1>i, <2>4, <3>2, <4>1, <4>3 DEF CacheList
        <5>2. l[g] = c.list[g] /\ g \in Listed(c.list)
          BY <2>4, <4>1, <5>1 DEF Listed
        <5>3. c.list[g].meta = ImageMeta /\ SoundFile(files[g], g, v)
          BY <1>i, <5>2 DEF SoundList
        <5> QED
          BY <2>4, <4>1, <5>1, <5>2, <5>3 DEF SoundFile
      <4> QED
        BY <4>2, <4>3
    <3>9. pc'[p] = "writeList" /\ cache'[p] = d
      BY <1>o, <3>1 DEF TypeOK
    <3>10. Session(p)'
      BY <1>i, <2>1, <3>2, <3>3, <3>8, <3>9 DEF Session, Writing, LoadSteps, WriteSteps
    <3> QED
      BY <1>o, <1>i, <2>1, <2>2, <3>1, <3>10, SessionFrame DEF TypeOK
  <2>5. c.list \in CacheList /\ \A g \in Hashes : [c.list EXCEPT ![g] = NoEntry] \in CacheList
    BY <1>o DEF Object, CacheList
  <2>6. CASE c.status = "FINISH" /\ SetCache(p, EntryAdded(c, c.list, h)) /\ Goto(p, "writeList")
             /\ UNCHANGED files
    BY <2>4, <2>5, <2>6
  <2>7. ASSUME NEW g \in LRUCandidates(c.list), files' = [files EXCEPT ![g] = NoFile],
               c.status = "FINISH", SetCache(p, EntryAdded(c, [c.list EXCEPT ![g] = NoEntry], h)),
               Goto(p, "writeList")
        PROVE  SessionsInv'
    <3>1. g \in Hashes
      BY DEF LRUCandidates, Listed
    <3>2. /\ \A x \in Hashes : files'[x] = files[x] \/ files'[x] = NoFile
          /\ \A x \in Hashes : \/ [c.list EXCEPT ![g] = NoEntry][x] = c.list[x]
                               \/ [c.list EXCEPT ![g] = NoEntry][x] = NoEntry
      BY <1>o, <2>5, <2>7, <3>1 DEF TypeOK, CacheList
    <3>3. PICK l : l = [c.list EXCEPT ![g] = NoEntry]
      OBVIOUS
    <3> QED
      BY <2>4, <2>5, <2>7, <3>1, <3>2, <3>3
  <2>8. \/ StartClearAll(p, "clearWrite") /\ UNCHANGED <<files, cache>>
        \/ /\ c.status = "FINISH" /\ SetCache(p, EntryAdded(c, c.list, h)) /\ Goto(p, "writeList")
           /\ UNCHANGED files
        \/ \E g \in LRUCandidates(c.list) :
             /\ files' = [files EXCEPT ![g] = NoFile] /\ c.status = "FINISH"
             /\ SetCache(p, EntryAdded(c, [c.list EXCEPT ![g] = NoEntry], h)) /\ Goto(p, "writeList")
    BY <1>3 DEF PostCacheWriting
  <2> HIDE DEF c, s, h, v, e
  <2> QED
    BY <2>3, <2>6, <2>7, <2>8 DEF c
<1>4. CASE WriteCacheList(p)
  <2>1. pc[p] = "writeList" /\ cache[p].buffer = <<>> /\ UNCHANGED files
    BY <1>4, <1>i DEF WriteCacheList, Session
  <2>2. CASE /\ EndScript(p) /\ SetCache(p, Ready(cache[p])) /\ info' = [info EXCEPT ![p] = FALSE]
             /\ listFile' \in {[ver |-> VersionOf[p], entries |-> cache[p].list], TornList}
    <3>1. /\ cache' = [cache EXCEPT ![p] = Ready(cache[p])] /\ pc' = [pc EXCEPT ![p] = "idle"]
          /\ src' = [src EXCEPT ![p] = NoSource] /\ loaded' = [loaded EXCEPT ![p] = NoSections]
      BY <2>2 DEF EndScript, SetCache, Goto
    <3>2. pc'[p] = "idle" /\ cache'[p] = Ready(cache[p]) /\ loaded'[p] = NoSections /\ ~ info'[p]
      BY <1>o, <2>2, <3>1 DEF TypeOK
    <3>3. Clean(cache'[p]) /\ cache'[p].list = cache[p].list
      BY <1>o, <2>1, <3>2, ReadyClean, ListKept
    <3>4. Session(p)'
      BY <1>i, <2>1, <3>2, <3>3 DEF Session, Writing, LoadSteps, WriteSteps
    <3>5. ListReadable' => SoundList(files', listFile'.entries, listFile'.ver)
      BY <1>i, <2>1, <2>2 DEF ListReadable
    <3> QED
      BY <1>o, <1>i, <2>1, <2>2, <3>1, <3>4, <3>5, SessionFrame DEF TypeOK
  <2>3. CASE Goto(p, "clearWrite") /\ listFile' \in {listFile, TornList}
             /\ UNCHANGED <<src, cache, info, loaded>>
    <3>1. pc' = [pc EXCEPT ![p] = "clearWrite"] /\ pc'[p] = "clearWrite"
      BY <1>o, <2>3 DEF Goto, TypeOK
    <3>2. Session(p)'
      BY <1>i, <2>3, <3>1, SessionQuiet DEF Using, InScript, Writing, LoadSteps, WriteSteps
    <3>3. ListReadable' => SoundList(files', listFile'.entries, listFile'.ver)
      BY <2>3, DiskSound
    <3> QED
      BY <1>o, <1>i, <2>1, <2>3, <3>1, <3>2, <3>3, SessionFrame DEF TypeOK
  <2> QED
    BY <1>4, <2>2, <2>3 DEF WriteCacheList
<1>5. CASE StoreCodeBlockTree(p)
  <2>1. /\ StoreSection(p, "CODEBLOCK", "generate", "IN_PROGRESS") /\ pc[p] = "storeTree"
        /\ HasStored(p, 0) /\ "CODEBLOCK" = Order[0 + 1]
    BY <1>5, <1>i DEF StoreCodeBlockTree, Session, Order
  <2> QED
    BY <1>2, <2>1
<1>6. CASE StoreByteCodeBlock(p)
  <2>1. /\ StoreSection(p, "BYTECODE", "storeString", "IN_PROGRESS") /\ pc[p] = "storeByteCode"
        /\ HasStored(p, 1) /\ "BYTECODE" = Order[1 + 1]
    BY <1>6, <1>i DEF StoreByteCodeBlock, Session, Order
  <2> QED
    BY <1>2, <2>1
<1>7. CASE StoreStringTable(p)
  <2>1. /\ StoreSection(p, "STRING", "postWrite", "FINISH") /\ pc[p] = "storeString"
        /\ HasStored(p, 2) /\ "STRING" = Order[2 + 1]
    BY <1>7, <1>i DEF StoreStringTable, Session, Order
  <2> QED
    BY <1>2, <2>1
<1> QED
  BY <1>1, <1>3, <1>4, <1>5, <1>6, <1>7

\* Sessions and files stay as they should be.
LEMMA NextSessions ==
  ASSUME ~ Throws
  PROVE  IInv /\ ListsInv /\ SessionsInv /\ [Next]_vars => SessionsInv'
<1> SUFFICES ASSUME IInv, ListsInv, SessionsInv, [Next]_vars PROVE SessionsInv'
  OBVIOUS
<1>1. CASE LosePower
  BY <1>1, PowerLossSessions
<1>2. ASSUME ~ LosePower, NEW p \in Procs, Step(p) PROVE SessionsInv'
  BY <1>2, InitializeSessions, ClearSessions, LoadSessions, CompileSessions, WriteSessions DEF Step
<1>3. ASSUME ~ LosePower, NEW p \in Procs, Clear(p) \/ Destroy(p) \/ Crash(p) PROVE SessionsInv'
  BY <1>3, ClearSessions
<1>4. CASE Tick \/ UNCHANGED vars
  <2>1. UNCHANGED <<files, listFile, pc, src, cache, info, loaded>>
    BY <1>4 DEF Tick, disk, proc, vars
  <2> QED
    BY <2>1 DEF SessionsInv, Session, Using, HasStored, HasDecoded, ListReadable
<1> QED
  BY <1>1, <1>2, <1>3, <1>4 DEF Next

-----------------------------------------------------------------------------
(* Theorems about the sessions                                              *)

\* The sessions and the data files, where bytecode generation does not throw.
THEOREM SessionsInvariance ==
  ASSUME ~ Throws
  PROVE  Spec => [](IInv /\ ListsInv /\ SessionsInv)
<1>1. IInv /\ ListsInv /\ SessionsInv /\ [Next]_vars => (IInv /\ ListsInv /\ SessionsInv)'
  BY NextIInv, NextLists, NextSessions
<1> QED
  BY <1>1, InitIInv, InitLists, InitSessions, PTL DEF Spec

\* Crash consistency: whatever fails, crashes, loses power or is evicted, cache_list lays
\* its entries out as complete sessions do and names images of one source of its version,
\* or files that are missing or too short.
THEOREM ListedFilesAreSound ==
  ASSUME ~ Throws
  PROVE  Spec => []ListedFilesSound
<1>1. IInv /\ ListsInv /\ SessionsInv => ListedFilesSound
  <2> SUFFICES ASSUME IInv, SessionsInv, ListReadable, NEW h \in Listed(listFile.entries)
               PROVE  /\ listFile.entries[h].meta = ImageMeta
                      /\ \/ files[h] = NoFile
                         \/ \E s \in Sources :
                              /\ HashOf[s] = h
                              /\ \/ files[h] = Image(s, listFile.ver)
                                 \/ Damaged(files[h], s, listFile.ver)
    BY DEF ListedFilesSound
  <2>1. listFile.entries[h].meta = ImageMeta /\ SoundFile(files[h], h, listFile.ver)
    BY DEF SessionsInv, SoundList
  <2>2. listFile.ver \in Versions
    BY DEF ListReadable, IInv, TypeOK, List
  <2> QED
    BY <2>1, <2>2, WrittenImage DEF SoundFile
<1> QED
  BY <1>1, SessionsInvariance, PTL

\* The reader decodes nothing but the sections it asked for, of one source with the hash of
\* the script and of the running version, and a load that succeeds has all three.
THEOREM LoadIsCorrect ==
  ASSUME ~ Throws
  PROVE  Spec => []LoadCorrect
<1>1. IInv /\ ListsInv /\ SessionsInv => LoadCorrect
  <2> SUFFICES ASSUME IInv, SessionsInv, NEW p \in Procs, src[p] \in Sources
               PROVE  /\ OneSource(loaded[p], HashOf[src[p]], VersionOf[p])
                      /\ pc[p] = "postLoad" /\ cache[p].status = "FINISH" =>
                           \A k \in Kinds : loaded[p][k] # <<>>
    BY DEF LoadCorrect, OneSource, Part
  <2>1. Session(p)
    BY DEF SessionsInv
  <2>2. OneSource(loaded[p], HashOf[src[p]], VersionOf[p])
    <3>1. CASE pc[p] \in LoadSteps \cup {"clearLoad"}
      BY <2>1, <3>1 DEF Session
    <3>2. CASE pc[p] \notin LoadSteps \cup {"clearLoad"}
      BY <2>1, <3>2, OneSourceNone DEF Session
    <3> QED
      BY <3>1, <3>2
  <2>3. ASSUME pc[p] = "postLoad", cache[p].status = "FINISH", NEW k \in Kinds
        PROVE  loaded[p][k] # <<>>
    <3>1. HasDecoded(p, Kinds) /\ Kinds # {}
      BY <2>1, <2>3 DEF Session
    <3>2. PICK s \in Sources : loaded[p][k] = Part(k, s, VersionOf[p])
      BY <2>3, <3>1 DEF HasDecoded, Decoded
    <3> QED
      BY <3>2 DEF Part
  <2> QED
    BY <2>2, <2>3
<1> QED
  BY <1>1, SessionsInvariance, PTL

\* Between two scripts an enabled cache is READY, its context is reset and no
\* CodeBlockCacheInfo is left, as the next session asserts.
THEOREM CacheIsReadyBetweenScripts ==
  ASSUME ~ Throws
  PROVE  Spec => []ReadyBetweenScripts
<1>1. IInv /\ ListsInv /\ SessionsInv => ReadyBetweenScripts
  BY DEF SessionsInv, Session, Using, Clean, ReadyBetweenScripts, Writing, WriteSteps
<1> QED
  BY <1>1, SessionsInvariance, PTL

=============================================================================
