----------------------------- MODULE CodeCache -----------------------------
(***************************************************************************)
(* The persistent code cache (src/codecache/CodeCache.cpp) as it is driven  *)
(* by ScriptParser::initializeScript.  Several VM instances ("processes")   *)
(* share one cache directory that holds the file cache_list and one data    *)
(* file per cached source, named by the hash of the source.  A process owns *)
(* the directory through flock; the loser of the race runs uncached.  Any   *)
(* call on a file may fail, a process may crash between two such calls and  *)
(* the machine may lose power.                                              *)
(*                                                                          *)
(* Data abstraction: a section of a data file (the CodeBlock tree, the      *)
(* bytecode or the string table of one source) is a single cell, so the     *)
(* offsets and sizes the cache keeps count cells.  A cell that was written  *)
(* partially has kind "TORN" and is shorter than it should be: a file with  *)
(* n cells, one of them torn, has fewer bytes than n whole cells.           *)
(*                                                                          *)
(* An operator whose name starts with Faulty is a plausible bug in the      *)
(* operator that follows it; the specification does not use it.             *)
(***************************************************************************)
EXTENDS Naturals, Sequences, FiniteSets

CONSTANTS
    Procs,       \* VM instances sharing the cache directory
    Sources,     \* script sources long enough to be cached
    Hashes,      \* values of String::hashValue
    HashOf,      \* HashOf[s]: the hash of source s; collisions are possible
    Versions,    \* ESCARGOT_VERSION hashes
    VersionOf,   \* VersionOf[p]: the version process p was built with
    MaxCacheNum, \* CODE_CACHE_MAX_CACHE_NUM
    Throws,      \* whether bytecode generation can throw its const char* error
    PowerLoss,   \* whether the machine can lose power
    FlushFails,  \* whether writing out a stream's buffer can fail, which nobody checks
    MaxClock,    \* bound: highest value of fastTickCount
    MaxStray,    \* bound: cells that open sessions of generations that threw leave over
    NoProc, NoSource, NoHash, NoFile, NoEntry, NoList, TornList

ASSUME CodeCacheAssumption ==
    /\ HashOf \in [Sources -> Hashes]
    /\ VersionOf \in [Procs -> Versions]
    /\ MaxCacheNum \in Nat \ {0}
    /\ Throws \in BOOLEAN /\ PowerLoss \in BOOLEAN /\ FlushFails \in BOOLEAN
    /\ MaxClock \in Nat /\ MaxStray \in Nat
    /\ NoProc \notin Procs /\ NoSource \notin Sources /\ NoHash \notin Hashes

VARIABLES
    files,    \* the data files of the cache directory, by hash
    listFile, \* the content of the file cache_list
    lock,     \* the process that holds the flock on the directory
    clock,    \* what fastTickCount returns now
    pc,       \* where process p is in initialize or initializeScript
    src,      \* the source process p is initialising
    cache,    \* the CodeCache object of process p
    info,     \* whether ScriptParser::m_codeBlockCacheInfo of p is set
    toClear,  \* files clearCacheDir of p has not visited yet
    loaded    \* the cells the reader of p has decoded for its script

disk == <<files, listFile>>
proc == <<pc, src, cache, info, toClear, loaded>>
vars == <<files, listFile, lock, clock, pc, src, cache, info, toClear, loaded>>

Kinds == {"CODEBLOCK", "BYTECODE", "STRING"}
Cell == [kind : Kinds \cup {"TORN"}, src : Sources, ver : Versions]
MetaInfo == [offset : Nat, size : Nat]
Entry == [timeStamp : Nat, meta : [Kinds -> MetaInfo]]
CacheList == [Hashes -> Entry \cup {NoEntry}]
List == [ver : Versions, entries : CacheList]
FileNames == Hashes \cup {"cache_list"}

\* The marker of a hash that is not listed is not an entry.
ASSUME NoEntryAssumption == NoEntry \notin Entry

Clearing == {"clearInit", "clearLoad", "clearWrite"}
LoadSteps == {"loadString", "loadTree", "loadByteCode", "postLoad"}
WriteSteps == {"prepareWrite", "storeTree", "generate", "storeByteCode",
               "storeString", "postWrite", "writeList"}
Steps == {"down", "initList", "idle", "parse"} \cup Clearing \cup LoadSteps
            \cup WriteSteps
Status == {"NONE", "READY", "IN_PROGRESS", "FINISH", "FAILED"}

EmptyEntry == [timeStamp |-> 0, meta |-> [k \in Kinds |-> [offset |-> 0, size |-> 0]]]
EmptyList == [h \in Hashes |-> NoEntry]
NoSections == [k \in Kinds |-> <<>>]

\* A CodeCache object after clear(): disabled, and never enabled again.
Cleared == [enabled |-> FALSE, status |-> "NONE", list |-> EmptyList,
            path |-> NoHash, entry |-> EmptyEntry, table |-> FALSE,
            offset |-> 0, buffer |-> <<>>]

Object == [enabled : BOOLEAN, status : Status, list : CacheList,
           path : Hashes \cup {NoHash}, entry : Entry, table : BOOLEAN,
           offset : Nat, buffer : Seq(Cell)]

\* The hashes a cache list knows.
Listed(list) == {h \in Hashes : list[h] # NoEntry}

Init ==
    /\ files = [h \in Hashes |-> NoFile]
    /\ listFile = NoList
    /\ lock = NoProc
    /\ clock = 0
    /\ pc = [p \in Procs |-> "down"]
    /\ src = [p \in Procs |-> NoSource]
    /\ cache = [p \in Procs |-> Cleared]
    /\ info = [p \in Procs |-> FALSE]
    /\ toClear = [p \in Procs |-> {}]
    /\ loaded = [p \in Procs |-> NoSections]

Goto(p, step) == pc' = [pc EXCEPT ![p] = step]
SetCache(p, c) == cache' = [cache EXCEPT ![p] = c]

\* CodeCacheContext::reset.
ResetContext(c) ==
    [c EXCEPT !.path = NoHash, !.entry = EmptyEntry, !.table = FALSE, !.offset = 0]

\* The session ends without reset().
FaultyReady(c) == [c EXCEPT !.status = "READY"]

\* A session ends well: reset(), and the cache is READY again.
Ready(c) == [ResetContext(c) EXCEPT !.status = "READY"]

\* A stage of a session fails.
Failed(c) == [c EXCEPT !.status = "FAILED"]

\* The entry is listed when its session opens, not when it is complete.
FaultyInProgress(c, h, entry, table) ==
    [c EXCEPT !.status = "IN_PROGRESS", !.path = h, !.entry = entry, !.table = table,
              !.list[h] = entry]

\* prepareCacheLoading and prepareCacheWriting open a session on the file of h.
InProgress(c, h, entry, table) ==
    [c EXCEPT !.status = "IN_PROGRESS", !.path = h, !.entry = entry, !.table = table]

\* initializeScript returns: the parser forgets the script.
EndScript(p) ==
    /\ Goto(p, "idle")
    /\ src' = [src EXCEPT ![p] = NoSource]
    /\ loaded' = [loaded EXCEPT ![p] = NoSections]

\* Enter clearAll: clearCacheDir walks over whatever the directory holds.
StartClearAll(p, step) ==
    /\ Goto(p, step)
    /\ toClear' = [toClear EXCEPT ![p] =
                      {h \in Hashes : files[h] # NoFile}
                        \cup (IF listFile = NoList THEN {} ELSE {"cache_list"})]

-----------------------------------------------------------------------------
(* Construction: CodeCache::initialize                                      *)

\* The directory is opened without a lock.
FaultyLockAvailable(p) == TRUE

\* flock(LOCK_EX | LOCK_NB) succeeds when no other open file holds the lock.
LockAvailable(p) == lock = NoProc

\* tryInitCacheDir took the lock; initialize goes on with tryInitCacheList.
LockCacheDir(p) ==
    /\ pc[p] = "down"
    /\ LockAvailable(p)
    /\ lock' = p
    /\ Goto(p, "initList")
    /\ UNCHANGED <<disk, clock, src, cache, info, toClear, loaded>>

\* tryInitCacheDir failed (lock held, or the directory cannot be opened):
\* the process runs with a cleared, disabled cache.
LockCacheDirFails(p) ==
    /\ pc[p] = "down"
    /\ Goto(p, "idle")
    /\ UNCHANGED <<disk, lock, clock, src, cache, info, toClear, loaded>>

\* The version in the list file is not compared.
FaultyListUsable(p) == listFile \notin {NoList, TornList}

\* The list file can be used: it is whole and of this version.
ListUsable(p) == listFile \notin {NoList, TornList} /\ listFile.ver = VersionOf[p]

\* The object at the end of a successful initialize.
Enabled(list) == [Cleared EXCEPT !.enabled = TRUE, !.status = "READY", !.list = list]

\* tryInitCacheList succeeded: no list file, or a usable one.
InitCacheList(p) ==
    /\ pc[p] = "initList"
    /\ listFile = NoList \/ ListUsable(p)
    /\ SetCache(p, Enabled(IF listFile = NoList THEN EmptyList ELSE listFile.entries))
    /\ Goto(p, "idle")
    /\ UNCHANGED <<disk, lock, clock, src, info, toClear, loaded>>

\* tryInitCacheList failed: another version, a short read, or a list file
\* that exists but cannot be read.
InitCacheListFails(p) ==
    /\ pc[p] = "initList"
    /\ listFile # NoList
    /\ StartClearAll(p, "clearInit")
    /\ UNCHANGED <<disk, lock, clock, src, cache, info, loaded>>

-----------------------------------------------------------------------------
(* clearAll, clear and the ways a process ends                              *)

\* One round of the loop of clearCacheDir: the file is unlinked, or it cannot
\* be and is skipped.
ClearCacheDir(p, f) ==
    /\ pc[p] \in Clearing
    /\ f \in toClear[p]
    /\ toClear' = [toClear EXCEPT ![p] = @ \ {f}]
    /\ \/ UNCHANGED disk
       \/ /\ f \in Hashes
          /\ files' = [files EXCEPT ![f] = NoFile]
          /\ UNCHANGED listFile
       \/ /\ f = "cache_list"
          /\ listFile' = NoList
          /\ UNCHANGED files
    /\ UNCHANGED <<lock, clock, pc, src, cache, info, loaded>>

\* unLockAndCloseCacheDir: only a lock this process holds is released.
ReleaseLock(p) == lock' = IF lock = p THEN NoProc ELSE lock

\* clear() at the end of clearAll().  A failed load goes on to compile the
\* script uncached; a failed write deletes the parser's CodeBlockCacheInfo.
ClearAfterClearDir(p) ==
    /\ pc[p] \in Clearing
    /\ toClear[p] = {}
    /\ SetCache(p, Cleared)
    /\ ReleaseLock(p)
    /\ info' = [info EXCEPT ![p] = IF pc[p] = "clearWrite" THEN FALSE ELSE @]
    /\ EndScript(p)
    /\ UNCHANGED <<disk, clock, toClear>>

\* clear() from VMInstance::clearCachesRelatedWithContext: the VM goes on
\* without its code cache.
Clear(p) ==
    /\ pc[p] = "idle"
    /\ SetCache(p, Cleared)
    /\ ReleaseLock(p)
    /\ UNCHANGED <<disk, clock, pc, src, info, toClear, loaded>>

\* What is left of process p once it is gone; the kernel drops its flock.
Gone(p) ==
    /\ Goto(p, "down")
    /\ src' = [src EXCEPT ![p] = NoSource]
    /\ SetCache(p, Cleared)
    /\ info' = [info EXCEPT ![p] = FALSE]
    /\ toClear' = [toClear EXCEPT ![p] = {}]
    /\ loaded' = [loaded EXCEPT ![p] = NoSections]
    /\ ReleaseLock(p)

\* The VM instance is destroyed between two scripts: ~CodeCache calls clear().
Destroy(p) ==
    /\ pc[p] = "idle"
    /\ Gone(p)
    /\ UNCHANGED <<disk, clock>>

\* The process dies between two file operations.
Crash(p) ==
    /\ pc[p] \notin {"down", "idle"}
    /\ Gone(p)
    /\ UNCHANGED <<disk, clock>>

\* Power fails.  Nothing was fsync'ed: a data file keeps a prefix of its data (one
\* file here, several when power fails again), the list file may have lost its
\* tail, and the monotonic clock starts over.
LosePower ==
    /\ PowerLoss
    /\ \/ UNCHANGED files
       \/ \E h \in Hashes : /\ files[h] # NoFile
                            /\ \E n \in 0 .. Len(files[h]) :
                                 files' = [files EXCEPT ![h] = SubSeq(@, 1, n)]
    /\ listFile' \in {listFile} \cup (IF listFile = NoList THEN {} ELSE {TornList})
    /\ lock' = NoProc
    /\ clock' = 0
    /\ pc' = [p \in Procs |-> "down"]
    /\ src' = [p \in Procs |-> NoSource]
    /\ cache' = [p \in Procs |-> Cleared]
    /\ info' = [p \in Procs |-> FALSE]
    /\ toClear' = [p \in Procs |-> {}]
    /\ loaded' = [p \in Procs |-> NoSections]

\* fastTickCount is CLOCK_MONOTONIC_COARSE: two writes may see one value.
Tick ==
    /\ clock < MaxClock
    /\ clock' = clock + 1
    /\ UNCHANGED <<disk, lock, proc>>

-----------------------------------------------------------------------------
(* Loading: the cache-hit branch of initializeScript                        *)

\* searchCache finds everything; searchCache finds nothing.
FaultyCacheHit(c, h) == TRUE
FaultyCacheMiss(c, h) == FALSE

\* searchCache.
CacheHit(c, h) == c.list[h] # NoEntry

\* A cacheable script whose hash is listed: prepareCacheLoading.
PrepareCacheLoading(p, s) ==
    /\ pc[p] = "idle"
    /\ cache[p].enabled
    /\ CacheHit(cache[p], HashOf[s])
    /\ src' = [src EXCEPT ![p] = s]
    /\ SetCache(p, InProgress(cache[p], HashOf[s], cache[p].list[HashOf[s]], FALSE))
    /\ Goto(p, "loadString")
    /\ UNCHANGED <<disk, lock, clock, info, toClear, loaded>>

\* Where readCacheData seeks to: the tree is always first in the file (its
\* meta info keeps the CodeBlock count in place of the offset).
SectionStart(kind, meta) == IF kind = "CODEBLOCK" THEN 0 ELSE meta.offset

\* No cell of the file is torn.
Whole(file) == \A i \in 1 .. Len(file) : file[i].kind # "TORN"

\* A short fread goes unnoticed.
FaultyReadable(file, kind, meta) ==
    file # NoFile /\ SectionStart(kind, meta) + meta.size <= Len(file)

\* fopen, fseek and fread of a section can succeed: the file has enough bytes.
Readable(file, kind, meta) ==
    /\ file # NoFile
    /\ SectionStart(kind, meta) + meta.size <= Len(file)
    /\ Whole(file) \/ SectionStart(kind, meta) + meta.size < Len(file)

\* The bytes of a section, which the reader decodes.
Section(file, kind, meta) ==
    SubSeq(file, SectionStart(kind, meta) + 1, SectionStart(kind, meta) + meta.size)

\* A section has been decoded; the string table is kept in the context.
SectionLoaded(c, kind, status) ==
    [c EXCEPT !.status = status, !.table = @ \/ kind = "STRING"]

\* readCacheData and the decoding of one section.  A stage after a failed one
\* does nothing.
LoadSection(p, kind, next, statusAfter) ==
    LET c == cache[p]
        meta == c.entry.meta[kind]
        file == files[c.path]
    IN  /\ Goto(p, next)
        /\ \/ /\ c.status # "IN_PROGRESS"
              /\ UNCHANGED <<cache, loaded>>
           \/ /\ c.status = "IN_PROGRESS"
              /\ Readable(file, kind, meta)
              /\ loaded' = [loaded EXCEPT ![p][kind] = Section(file, kind, meta)]
              /\ SetCache(p, SectionLoaded(c, kind, statusAfter))
           \/ /\ c.status = "IN_PROGRESS"
              /\ SetCache(p, Failed(c))
              /\ UNCHANGED loaded
        /\ UNCHANGED <<disk, lock, clock, src, info, toClear>>

\* The call of loadCacheStringTable at the end of prepareCacheLoading.
LoadCacheStringTable(p) ==
    /\ pc[p] = "loadString"
    /\ LoadSection(p, "STRING", "loadTree", "IN_PROGRESS")

LoadCodeBlockTree(p) ==
    /\ pc[p] = "loadTree"
    /\ LoadSection(p, "CODEBLOCK", "loadByteCode", "IN_PROGRESS")

LoadByteCodeBlock(p) ==
    /\ pc[p] = "loadByteCode"
    /\ LoadSection(p, "BYTECODE", "postLoad", "FINISH")

\* postCacheLoading: the script runs from the cache, or the cache is wiped.
PostCacheLoading(p) ==
    /\ pc[p] = "postLoad"
    /\ \/ /\ cache[p].status = "FINISH"
          /\ SetCache(p, Ready(cache[p]))
          /\ EndScript(p)
          /\ UNCHANGED toClear
       \/ /\ cache[p].status # "FINISH"
          /\ StartClearAll(p, "clearLoad")
          /\ UNCHANGED <<src, cache, loaded>>
    /\ UNCHANGED <<disk, lock, clock, info>>

-----------------------------------------------------------------------------
(* Writing: the cache-miss branch of initializeScript                       *)

\* A cacheable script that is not listed: setCodeBlockCacheInfo.
CacheMiss(p, s) ==
    /\ pc[p] = "idle"
    /\ cache[p].enabled
    /\ ~CacheHit(cache[p], HashOf[s])
    /\ src' = [src EXCEPT ![p] = s]
    /\ info' = [info EXCEPT ![p] = TRUE]
    /\ Goto(p, "parse")
    /\ UNCHANGED <<disk, lock, clock, cache, toClear, loaded>>

\* parseProgram and the generation of the CodeBlock tree, or a syntax error.
Parse(p) ==
    /\ pc[p] = "parse"
    /\ Goto(p, "prepareWrite")
    /\ UNCHANGED <<disk, lock, clock, src, cache, info, toClear, loaded>>

ParseError(p) ==
    /\ pc[p] = "parse"
    /\ info' = [info EXCEPT ![p] = FALSE]
    /\ EndScript(p)
    /\ UNCHANGED <<disk, lock, clock, cache, toClear>>

PrepareCacheWriting(p) ==
    /\ pc[p] = "prepareWrite"
    /\ SetCache(p, InProgress(cache[p], HashOf[src[p]], cache[p].entry, TRUE))
    /\ Goto(p, "storeTree")
    /\ UNCHANGED <<disk, lock, clock, src, info, toClear, loaded>>

\* The data file as fopen leaves it: mode "wb" for the tree, "ab" otherwise.
OpenedFile(h, kind) ==
    IF kind = "CODEBLOCK" \/ files[h] = NoFile THEN <<>> ELSE files[h]

\* writeCacheData records the meta info before it opens the file; the offset
\* advances and the writer's buffer is emptied once the data is written.
MetaRecorded(c, kind, size) ==
    [c EXCEPT !.entry.meta[kind] = [offset |-> c.offset, size |-> size]]
FaultySectionStored(c, status, size) ==     \* the offset does not advance
    [c EXCEPT !.status = status, !.buffer = <<>>]
SectionStored(c, status, size) ==
    [c EXCEPT !.status = status, !.offset = @ + size, !.buffer = <<>>]

\* A failed write: fwrite failures empty the writer's buffer, fopen failures do not.
SectionNotStored(c, buffer) == [c EXCEPT !.status = "FAILED", !.buffer = buffer]

\* What a write of the buffer leaves in the file when it stops early.
Truncated(buffer) ==
    {SubSeq(buffer, 1, n) : n \in 0 .. Len(buffer) - 1} \cup
    {SubSeq(buffer, 1, n - 1) \o <<[buffer[n] EXCEPT !.kind = "TORN"]>> : n \in 1 .. Len(buffer)}

\* One store stage and its writeCacheData.  fwrite may only have filled the
\* stream's buffer: nobody looks at the result of fflush and fclose.
StoreSection(p, kind, next, statusAfter) ==
    LET c == cache[p]
        cell == [kind |-> kind, src |-> src[p], ver |-> VersionOf[p]]
        buffer == Append(c.buffer, cell)
        recorded == MetaRecorded(c, kind, Len(buffer))
        opened == OpenedFile(c.path, kind)
    IN  /\ Goto(p, next)
        /\ \/ /\ c.status # "IN_PROGRESS"
              /\ UNCHANGED <<cache, files>>
           \/ /\ c.status = "IN_PROGRESS"
              /\ \E part \in {buffer} \cup (IF FlushFails THEN Truncated(buffer) ELSE {}) :
                   files' = [files EXCEPT ![c.path] = opened \o part]
              /\ SetCache(p, SectionStored(recorded, statusAfter, Len(buffer)))
           \/ /\ c.status = "IN_PROGRESS"   \* fopen fails
              /\ SetCache(p, SectionNotStored(recorded, buffer))
              /\ UNCHANGED files
           \/ /\ c.status = "IN_PROGRESS"   \* fwrite fails
              /\ \E part \in Truncated(buffer) :
                   files' = [files EXCEPT ![c.path] = opened \o part]
              /\ SetCache(p, SectionNotStored(recorded, <<>>))
        /\ UNCHANGED <<listFile, lock, clock, src, info, toClear, loaded>>

StoreCodeBlockTree(p) ==
    /\ pc[p] = "storeTree"
    /\ StoreSection(p, "CODEBLOCK", "generate", "IN_PROGRESS")

\* ByteCodeGenerator::generateByteCode up to the point where it stores.
GenerateByteCode(p) ==
    /\ pc[p] = "generate"
    /\ Goto(p, "storeByteCode")
    /\ UNCHANGED <<disk, lock, clock, src, cache, info, toClear, loaded>>

\* The generator throws "register limit exceed ..." or "native stack limit
\* exceed ...": initializeScript returns a SyntaxError from its catch block.
GenerateByteCodeThrows(p) ==
    /\ pc[p] = "generate"
    /\ Throws
    /\ cache[p].offset + Len(cache[p].buffer) <= MaxStray
    /\ EndScript(p)
    /\ UNCHANGED <<disk, lock, clock, cache, info, toClear>>

StoreByteCodeBlock(p) ==
    /\ pc[p] = "storeByteCode"
    /\ StoreSection(p, "BYTECODE", "storeString", "IN_PROGRESS")

StoreStringTable(p) ==
    /\ pc[p] = "storeString"
    /\ StoreSection(p, "STRING", "postWrite", "FINISH")

\* removeLRUCacheEntry picks an entry with the smallest time stamp; which one
\* among equals depends on the order of the hash table.
LRUCandidates(list) ==
    {h \in Listed(list) : \A g \in Listed(list) : list[h].timeStamp <= list[g].timeStamp}

\* Room is made one entry too late.
FaultyListFull(list) == Cardinality(Listed(list)) > MaxCacheNum

\* addCacheEntry has to make room first.
ListFull(list) == Cardinality(Listed(list)) = MaxCacheNum

\* The time stamp postCacheWriting puts into the entry, and the insertion of the
\* entry into a list by addCacheEntry.
Stamped(entry) == [entry EXCEPT !.timeStamp = clock]
EntryAdded(c, list, h) ==
    [c EXCEPT !.list = [list EXCEPT ![h] = Stamped(c.entry)], !.entry = Stamped(c.entry)]

\* postCacheWriting up to writeCacheList: stamp the entry, evict when full (the
\* victim's file first, then its entry), insert.  Otherwise clearAll.
PostCacheWriting(p) ==
    LET c == cache[p]
    IN  /\ pc[p] = "postWrite"
        /\ \/ /\ c.status = "FINISH" /\ ~ListFull(c.list)
              /\ SetCache(p, EntryAdded(c, c.list, HashOf[src[p]]))
              /\ Goto(p, "writeList")
              /\ UNCHANGED <<files, toClear>>
           \/ /\ c.status = "FINISH" /\ ListFull(c.list)
              /\ \E h \in LRUCandidates(c.list) :
                   /\ files[h] # NoFile
                   /\ files' = [files EXCEPT ![h] = NoFile]
                   /\ SetCache(p, EntryAdded(c, [c.list EXCEPT ![h] = NoEntry],
                                             HashOf[src[p]]))
              /\ Goto(p, "writeList")
              /\ UNCHANGED toClear
           \/ /\ c.status # "FINISH" \/ ListFull(c.list)   \* remove() may fail
              /\ StartClearAll(p, "clearWrite")
              /\ UNCHANGED <<files, cache>>
        /\ UNCHANGED <<listFile, lock, clock, src, info, loaded>>

\* writeCacheList rewrites the whole file, or cuts it short when fflush fails
\* unseen, and postCacheWriting finishes; on a failure that is seen the list is
\* untouched (fopen) or cut short (fwrite) and all is cleared.
WriteCacheList(p) ==
    /\ pc[p] = "writeList"
    /\ \/ /\ \/ listFile' = [ver |-> VersionOf[p], entries |-> cache[p].list]
             \/ FlushFails /\ listFile' = TornList
          /\ SetCache(p, Ready(cache[p]))
          /\ info' = [info EXCEPT ![p] = FALSE]
          /\ EndScript(p)
          /\ UNCHANGED toClear
       \/ /\ listFile' \in {listFile, TornList}
          /\ Goto(p, "clearWrite")
          /\ toClear' = [toClear EXCEPT ![p] =
                            {h \in Hashes : files[h] # NoFile}
                              \cup (IF listFile' = NoList THEN {} ELSE {"cache_list"})]
          /\ UNCHANGED <<src, cache, info, loaded>>
    /\ UNCHANGED <<files, lock, clock>>

-----------------------------------------------------------------------------
\* What process p does when it is scheduled.
Step(p) ==
    \/ LockCacheDir(p) \/ LockCacheDirFails(p)
    \/ InitCacheList(p) \/ InitCacheListFails(p)
    \/ \E f \in FileNames : ClearCacheDir(p, f)
    \/ ClearAfterClearDir(p)
    \/ \E s \in Sources : PrepareCacheLoading(p, s)
    \/ LoadCacheStringTable(p) \/ LoadCodeBlockTree(p) \/ LoadByteCodeBlock(p)
    \/ PostCacheLoading(p)
    \/ \E s \in Sources : CacheMiss(p, s)
    \/ Parse(p) \/ ParseError(p)
    \/ PrepareCacheWriting(p) \/ StoreCodeBlockTree(p)
    \/ GenerateByteCode(p) \/ GenerateByteCodeThrows(p)
    \/ StoreByteCodeBlock(p) \/ StoreStringTable(p)
    \/ PostCacheWriting(p) \/ WriteCacheList(p)

Next ==
    \/ \E p \in Procs : Step(p) \/ Clear(p) \/ Destroy(p) \/ Crash(p)
    \/ LosePower
    \/ Tick

Spec == Init /\ [][Next]_vars
-----------------------------------------------------------------------------
(* Correctness                                                              *)

\* The three sections a completed write session for s leaves in its file, in
\* the order storeCodeBlockTree, storeByteCodeBlock, storeStringTable.
Image(s, v) == <<[kind |-> "CODEBLOCK", src |-> s, ver |-> v],
                 [kind |-> "BYTECODE", src |-> s, ver |-> v],
                 [kind |-> "STRING", src |-> s, ver |-> v]>>

\* The meta infos of such a file: the tree starts it, the other sections follow.
ImageMeta == [k \in Kinds |->
                [offset |-> CASE k = "CODEBLOCK" -> 0 [] k = "BYTECODE" -> 1
                              [] k = "STRING" -> 2,
                 size |-> 1]]

\* The list file can be read by a process of its version.
ListReadable == listFile \notin {NoList, TornList}

\* Every variable has its type (the state CodeCache.h declares).
TypeOK ==
    /\ files \in [Hashes -> Seq(Cell) \cup {NoFile}]
    /\ listFile \in List \cup {NoList, TornList}
    /\ lock \in Procs \cup {NoProc}
    /\ clock \in Nat
    /\ pc \in [Procs -> Steps]
    /\ src \in [Procs -> Sources \cup {NoSource}]
    /\ cache \in [Procs -> Object]
    /\ info \in [Procs -> BOOLEAN]
    /\ toClear \in [Procs -> SUBSET FileNames]
    /\ loaded \in [Procs -> [Kinds -> Seq(Cell)]]

\* A process that is initialising a script knows the script, and its cache works
\* on the data file of that script from prepareCache... on.
SessionNamed ==
    \A p \in Procs :
      /\ pc[p] \in LoadSteps \cup WriteSteps \cup {"parse"} => src[p] \in Sources
      /\ pc[p] \in LoadSteps \cup (WriteSteps \ {"prepareWrite"}) =>
           cache[p].path = HashOf[src[p]]

\* The flock taken in tryInitCacheDir covers every access: a process whose cache
\* is enabled, or that is anywhere between the lock and clear(), holds it, so no
\* two processes ever read or write the directory at the same time.
ExclusiveDirectory ==
    \A p \in Procs : cache[p].enabled \/ pc[p] \notin {"down", "idle"} => lock = p

\* A data file that has lost part of an image: too few sections, or a torn one.
Damaged(file, s, v) ==
    /\ Len(file) < 3 \/ ~Whole(file)
    /\ \A i \in 1 .. Len(file) : file[i].src = s /\ file[i].ver = v

\* Crash consistency of the directory: whatever crashed, failed or was evicted,
\* the list lays every entry out as a complete session does, and the data file it
\* names is the image of one source with the listed hash, of the list's version,
\* or is missing or shorter than the list says.
ListedFilesSound ==
    ListReadable =>
      \A h \in Listed(listFile.entries) :
        /\ listFile.entries[h].meta = ImageMeta
        /\ \/ files[h] = NoFile
           \/ \E s \in Sources :
                /\ HashOf[s] = h
                /\ \/ files[h] = Image(s, listFile.ver)
                   \/ Damaged(files[h], s, listFile.ver)

\* Nothing but the section that was asked for is ever decoded, not even from a
\* damaged file (the decoder checks nothing): the string table is last in the file
\* and is read first.  All sections come from one source that has the hash of the
\* script and were written by the running version, and a load that reports success
\* has all three.
LoadCorrect ==
    \A p \in Procs : src[p] \in Sources =>
      /\ \E s \in Sources :
           /\ HashOf[s] = HashOf[src[p]]
           /\ \A k \in Kinds :
                loaded[p][k] \in {<<>>, <<[kind |-> k, src |-> s, ver |-> VersionOf[p]]>>}
      /\ pc[p] = "postLoad" /\ cache[p].status = "FINISH" =>
           \A k \in Kinds : loaded[p][k] # <<>>

\* The precondition prepareCacheLoading, prepareCacheWriting, storeCodeBlockTree
\* and setCodeBlockCacheInfo assert, at the moment the next script may call them:
\* between two scripts an enabled cache is READY and carries nothing over.  It
\* holds where bytecode generation does not throw: the catch block of
\* initializeScript ends neither the session nor the parser's cache info.
ReadyBetweenScripts ==
    \A p \in Procs : pc[p] = "idle" /\ cache[p].enabled =>
      /\ cache[p].status = "READY"
      /\ ResetContext(cache[p]) = cache[p]
      /\ cache[p].buffer = <<>>
      /\ ~info[p]

\* What tryInitCacheList asserts of a list file it can read: between one and
\* CODE_CACHE_MAX_CACHE_NUM entries.
ListWithinLimit ==
    ListReadable => Cardinality(Listed(listFile.entries)) \in 1 .. MaxCacheNum

\* Between two scripts the list in memory and the list on disk agree, so a restart
\* finds what the running process would have found, unless the list on disk is cut
\* short and a restart clears the directory.  A generation that throws leaves its
\* session open, and both lists as they are.
MemoryMatchesDisk ==
    \A p \in Procs : pc[p] = "idle" /\ cache[p].enabled =>
      \/ listFile = NoList /\ cache[p].list = EmptyList
      \/ listFile \in {[ver |-> VersionOf[p], entries |-> cache[p].list], TornList}

\* A data file that the list on disk names is only ever removed (or cut by a
\* power failure), never rewritten in place.
ListedFilesNotRewritten ==
    [][\A h \in Hashes :
         ListReadable /\ listFile.entries[h] # NoEntry /\ files[h] # NoFile =>
           \/ files'[h] \in {files[h], NoFile}
           \/ LosePower]_vars
=============================================================================
