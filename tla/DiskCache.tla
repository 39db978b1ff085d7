------------------------------ MODULE DiskCache ------------------------------
(***************************************************************************)
(* The disk cache of one resource: cache/DiskCachePool with the list of    *)
(* CachePool, the worker thread of WorkQueue, the files of ResourceCache   *)
(* and what a crash and a restart leave of them.                           *)
(*                                                                         *)
(* Full segments are saved by the worker; its results are posted back to   *)
(* the main thread.  The list of CachePool is a sequence here (CachePool   *)
(* shows that the pointers implement one); the level and lru of every      *)
(* entry stay 0, as check() always finds an entry touched.                 *)
(***************************************************************************)
EXTENDS Integers, Sequences, FiniteSets, SequencesExt

CONSTANTS
  SegCount,     \* the number of segments of the resource
  Blocks,       \* Segment2::block_count of every segment
  Slots,        \* the number of caches of the pool (twice the segments of Total)
  Total,        \* total_: the capacity in blocks
  BPS,          \* BLOCK_PER_SEGMENT
  External,     \* ResourceCache::is_external_
  Crashes,      \* whether the program may crash and restart
  ConcurrentLoad \* whether segments are downloaded while their files are checked

Segment == 1 .. SegCount

ASSUME DiskAssumption ==
  /\ SegCount \in Nat \ {0} /\ Slots \in Nat \ {0} /\ BPS \in Nat \ {0} /\ Total \in Nat \ {0}
  /\ Blocks \in [Segment -> 1 .. BPS]
  /\ External \in BOOLEAN /\ Crashes \in BOOLEAN /\ ConcurrentLoad \in BOOLEAN

\* caches_ and, once it has grown, caches2_ (DiskCachePool::alloc).
Growth(u) == ((Total * (Total - u) * 2) \div u) \div BPS
Entry == 1 .. Slots + Growth(1)

VARIABLES
  list, free,  \* the lists of CachePool
  grown,       \* whether caches2_ is not empty
  ent,         \* the contents of the caches
  used,        \* used_ in blocks
  queue, done, \* jobs of the worker, results posted to the main thread
  run,         \* the job the worker is running
  map,         \* the segments load_cache has still to go through
  mem,         \* whether a segment is complete in memory, with the md5 of its meta
  pinned,      \* the segments other holders (downloader, sinks) have locked
  saved,       \* Segment2::saved
  file,        \* the file of every segment
  metaFile,    \* whether meta.xml is there
  dirty        \* meta_dirty_

poolVars == <<list, free, grown, ent, used>>
workVars == <<queue, done, run>>
dataVars == <<mem, pinned, saved>>
diskVars == <<file, metaFile, dirty>>
vars == <<poolVars, workVars, map, dataVars, diskVars>>

\* data: NULL, the segment (a job is or was posted) or `this' (saved).
Empty == [seg |-> 0, load |-> FALSE, data |-> "NULL", lock |-> FALSE]
NoRun == [c |-> 0, seg |-> 0, load |-> FALSE, writing |-> FALSE]

\* Mutant of KeptBy: no lock is allocated for the entry.
KeptBy_NoLock(e, pin, s) == s \in pin

\* A segment stays in memory as long as a lock covers it.  The lock of an entry
\* that is loaded has the `top' bit of its id set and covers no data.
KeptBy(e, pin, s) == s \in pin \/ \E c \in Entry : e[c].lock /\ ~e[c].load /\ e[c].seg = s
Keep(e, pin) == [s \in Segment |-> IF KeptBy(e, pin, s) THEN mem[s] ELSE "no"]

Init ==
  /\ list = <<>> /\ free = 1 .. Slots /\ grown = FALSE
  /\ ent = [c \in Entry |-> Empty] /\ used = 0
  /\ queue = <<>> /\ done = <<>> /\ run = NoRun /\ map = {}
  /\ mem = [s \in Segment |-> "no"] /\ pinned = {} /\ saved = {}
  /\ file = [s \in Segment |-> "none"] /\ metaFile = FALSE /\ dirty = TRUE

-----------------------------------------------------------------------------
(* CachePool::alloc_cache with DiskCachePool::free and alloc *)

\* The head of the list goes when no cache is free, unless its save has not
\* finished: DiskCachePool::free takes its status and its file away.
CanEvict == free = {} /\ list # <<>> /\ ent[Head(list)].data = "this"

Evicted ==
  IF CanEvict
  THEN LET c == Head(list)
       IN  [list |-> Tail(list), free |-> {c}, ent |-> [ent EXCEPT ![c] = Empty],
            used |-> used - Blocks[ent[c].seg], lost |-> {ent[c].seg}]
  ELSE [list |-> list, free |-> free, ent |-> ent, used |-> used, lost |-> {}]

\* There is a cache for segment s, and room for its blocks.
HasRoom(e, s, load) == e.free # {} /\ (load \/ External \/ e.used + Blocks[s] <= Total)

\* The pool grows, once, when the last cache is taken before the capacity is.
Grows(f, u) == f = {} /\ ~grown /\ u < Total /\ Growth(u) > 0

alloc_cache(s, load) ==
  LET e == Evicted
      c == CHOOSE x \in e.free : TRUE
      f == e.free \ {c}
      u == e.used + Blocks[s]
  IN  /\ saved' = saved \ e.lost
      /\ file' = [x \in Segment |-> IF x \in e.lost THEN "none" ELSE file[x]]
      /\ IF HasRoom(e, s, load)
         THEN /\ list' = Append(e.list, c)
              /\ ent' = [e.ent EXCEPT ![c] = [seg |-> s, load |-> load, data |-> "segment", lock |-> TRUE]]
              /\ used' = u
              /\ free' = IF Grows(f, u) THEN Slots + 1 .. Slots + Growth(u) ELSE f
              /\ grown' = (grown \/ Grows(f, u))
              /\ queue' = Append(queue, [c |-> c, seg |-> s, load |-> load])
         ELSE /\ list' = e.list /\ free' = e.free /\ ent' = e.ent /\ used' = e.used
              /\ UNCHANGED <<grown, queue>>
      /\ UNCHANGED <<done, run>>

-----------------------------------------------------------------------------
(* The main thread; it does nothing else while load_cache runs *)

\* The file of the segment is still to be checked, and its result to be handled.
Loading(s) == \E c \in Entry : ent[c].seg = s /\ ent[c].load /\ ent[c].lock

\* The last piece of a segment arrives, with or without a wrong byte in it.
\* segment_full is raised only when the piece was the one at data_ready.id.
Download(s, md5) ==
  /\ map = {}
  /\ s \in pinned /\ mem[s] = "no" /\ s \notin saved
  /\ ConcurrentLoad \/ ~Loading(s)
  /\ mem' = [mem EXCEPT ![s] = md5]
  /\ \/ alloc_cache(s, FALSE)
     \/ UNCHANGED <<poolVars, workVars, saved, file>>
  /\ UNCHANGED <<map, pinned, metaFile, dirty>>

Pin(s) ==
  /\ map = {} /\ s \notin pinned
  /\ pinned' = pinned \union {s}
  /\ UNCHANGED <<poolVars, workVars, map, mem, saved, diskVars>>

Unpin(s) ==
  /\ map = {} /\ s \in pinned
  /\ pinned' = pinned \ {s}
  /\ mem' = Keep(ent, pinned')
  /\ UNCHANGED <<poolVars, workVars, map, saved, diskVars>>

\* Mutant of on_not_saved: set_segment_status is called for a failed save as well.
on_not_saved_Marked ==
  /\ map = {} /\ done # <<>> /\ (External \/ ~Head(done).ok)
  /\ used' = used - Blocks[Head(done).seg]
  /\ ent' = [ent EXCEPT ![Head(done).c].lock = FALSE]
  /\ saved' = saved \union {Head(done).seg}
  /\ mem' = Keep(ent', pinned)
  /\ done' = Tail(done)
  /\ UNCHANGED <<list, free, grown, queue, run, map, pinned, diskVars>>

\* on_save of a job that succeeded, in the cache of the program itself.
on_saved ==
  /\ map = {} /\ done # <<>> /\ Head(done).ok /\ ~External
  /\ LET c == Head(done).c
     IN  /\ ent' = [ent EXCEPT ![c].data = "this", ![c].lock = FALSE]
         /\ saved' = saved \union {Head(done).seg}
  /\ mem' = Keep(ent', pinned)
  /\ done' = Tail(done)
  /\ UNCHANGED <<list, free, grown, used, queue, run, map, pinned, diskVars>>

\* on_save otherwise: the blocks are given back and free_cache is called, which
\* returns at once as the data of the entry is not `this': the entry stays.
on_not_saved ==
  /\ map = {} /\ done # <<>> /\ (External \/ ~Head(done).ok)
  /\ used' = used - Blocks[Head(done).seg]
  /\ ent' = [ent EXCEPT ![Head(done).c].lock = FALSE]
  /\ saved' = IF Head(done).ok THEN saved \union {Head(done).seg} ELSE saved
  /\ mem' = Keep(ent', pinned)
  /\ done' = Tail(done)
  /\ UNCHANGED <<list, free, grown, queue, run, map, pinned, diskVars>>

\* check_caches finds every entry touched and appends them in reversed order.
check_caches ==
  /\ map = {}
  /\ list' = Reverse(list)
  /\ UNCHANGED <<free, grown, ent, used, workVars, map, dataVars, diskVars>>

save_status ==
  /\ map = {} /\ dirty
  /\ metaFile' = TRUE /\ dirty' = FALSE
  /\ UNCHANGED <<poolVars, workVars, map, dataVars, file>>

\* set_meta: the resource is fetched again.
set_meta ==
  /\ map = {} /\ dirty' = TRUE
  /\ UNCHANGED <<poolVars, workVars, map, dataVars, file, metaFile>>

-----------------------------------------------------------------------------
(* The worker thread: do_save *)

Result(ok) == done' = Append(done, [c |-> run.c, seg |-> run.seg, load |-> run.load, ok |-> ok])

StartJob ==
  /\ run = NoRun /\ queue # <<>>
  /\ run' = [c |-> Head(queue).c, seg |-> Head(queue).seg, load |-> Head(queue).load, writing |-> FALSE]
  /\ queue' = Tail(queue)
  /\ UNCHANGED <<poolVars, done, map, dataVars, diskVars>>

\* save_segment: the md5 is checked, then the file is opened; either may fail.
OpenFile ==
  /\ run # NoRun /\ ~run.load /\ ~run.writing
  /\ mem[run.seg] = "right"
  /\ run' = [run EXCEPT !.writing = TRUE]
  /\ file' = [file EXCEPT ![run.seg] = "partial"]
  /\ UNCHANGED <<poolVars, queue, done, map, dataVars, metaFile, dirty>>

SaveFails ==
  /\ run # NoRun /\ ~run.load
  /\ Result(FALSE)
  /\ run' = NoRun
  /\ UNCHANGED <<poolVars, queue, map, dataVars, diskVars>>

\* The file is complete, unless it was removed while it was written.
CloseFile ==
  /\ run.writing
  /\ file' = [file EXCEPT ![run.seg] = IF @ = "none" THEN @ ELSE "good"]
  /\ Result(TRUE)
  /\ run' = NoRun
  /\ UNCHANGED <<poolVars, queue, map, dataVars, metaFile, dirty>>

\* Mutant of CheckFile: the md5 of the file is not looked at.
CheckFile_NoMd5 ==
  /\ run # NoRun /\ run.load
  /\ Result(TRUE)
  /\ run' = NoRun
  /\ UNCHANGED <<poolVars, queue, map, dataVars, diskVars>>

\* load_segment: a file whose md5 is not that of the meta is removed.
CheckFile ==
  /\ run # NoRun /\ run.load
  /\ Result(file[run.seg] = "good")
  /\ file' = [file EXCEPT ![run.seg] = IF @ = "good" THEN @ ELSE "none"]
  /\ run' = NoRun
  /\ UNCHANGED <<poolVars, queue, map, dataVars, metaFile, dirty>>

-----------------------------------------------------------------------------
(* Crash and restart *)

\* startup: an empty pool, and nothing in memory.
Startup ==
  /\ list' = <<>> /\ free' = 1 .. Slots /\ grown' = FALSE
  /\ ent' = [c \in Entry |-> Empty] /\ used' = 0
  /\ queue' = <<>> /\ done' = <<>> /\ run' = NoRun
  /\ mem' = [s \in Segment |-> "no"] /\ pinned' = {} /\ saved' = {}

\* CacheManager::load_cache finds the resource when there is a meta.xml, and
\* load_status goes through its files, removes those of a wrong size and lists the
\* others.
load_status(F) == IF metaFile' THEN [s \in Segment |-> IF F[s] = "partial" THEN "none" ELSE F[s]] ELSE F
Listed == IF metaFile' THEN {s \in Segment : file'[s] # "none"} ELSE {}

\* What was being written may have its size but not its data; meta.xml may have
\* been cut off.
Crash ==
  /\ Crashes
  /\ Startup
  /\ metaFile' \in {metaFile, metaFile /\ ~dirty}
  /\ \E F \in [Segment -> {"none", "partial", "bad", "good"}] :
       /\ \A s \in Segment : F[s] = file[s] \/ (file[s] = "partial" /\ F[s] = "bad")
       /\ file' = load_status(F)
  /\ map' = Listed
  /\ dirty' = ~metaFile'

\* load_cache: an entry for the next file that was listed.
load_cache ==
  /\ \E s \in map :
       /\ \A t \in map : s <= t
       /\ map' = map \ {s}
       /\ alloc_cache(s, TRUE)
  /\ UNCHANGED <<mem, pinned, metaFile, dirty>>

\* The main thread: what CacheManager does on the events of the resource and of the
\* timers, and what other parts of the program do with the resource.
Main ==
  \/ \E s \in Segment : Pin(s) \/ Unpin(s) \/ \E md5 \in {"right", "wrong"} : Download(s, md5)
  \/ on_saved \/ on_not_saved \/ check_caches \/ save_status \/ set_meta
Worker == StartJob \/ OpenFile \/ SaveFails \/ CloseFile \/ CheckFile

Next == Main \/ Worker \/ Crash \/ load_cache

Spec == Init /\ [][Next]_vars

-----------------------------------------------------------------------------
(* Properties *)

TypeOK ==
  /\ list \in Seq(Entry) /\ free \subseteq Entry /\ grown \in BOOLEAN
  /\ ent \in [Entry -> [seg : 0 .. SegCount, load : BOOLEAN,
                        data : {"NULL", "segment", "this"}, lock : BOOLEAN]]
  /\ used \in Nat
  /\ queue \in Seq([c : Entry, seg : Segment, load : BOOLEAN])
  /\ done \in Seq([c : Entry, seg : Segment, load : BOOLEAN, ok : BOOLEAN])
  /\ run \in [c : {0} \union Entry, seg : 0 .. SegCount, load : BOOLEAN, writing : BOOLEAN]
  /\ map \subseteq Segment /\ mem \in [Segment -> {"no", "right", "wrong"}]
  /\ pinned \subseteq Segment /\ saved \subseteq Segment
  /\ file \in [Segment -> {"none", "partial", "bad", "good"}]
  /\ metaFile \in BOOLEAN /\ dirty \in BOOLEAN

\* A segment that is marked as saved can be mapped: its file is there, complete
\* and with the right md5, after failed writes, evictions and restarts too.
SavedIsOnDisk == \A s \in saved : file[s] = "good"

\* The worker never reads a segment that the main thread has released: the lock
\* of the entry keeps it in memory until its result is handled.
SaveHasItsSegment ==
  /\ \A i \in DOMAIN queue : ~queue[i].load => mem[queue[i].seg] # "no"
  /\ run # NoRun /\ ~run.load => mem[run.seg] # "no"

\* A job and its result belong to the entry they were posted for: it is not
\* given to another segment before on_save has run.
Owns(j) == ent[j.c] = [seg |-> j.seg, load |-> j.load, data |-> "segment", lock |-> TRUE]
JobsOwnTheirEntry ==
  /\ \A i \in DOMAIN queue : Owns(queue[i])
  /\ \A i \in DOMAIN done : Owns(done[i])
  /\ run # NoRun => Owns(run)

\* used_ counts the blocks of the entries that are saved or waiting for on_save,
\* each once.
InUse(e) == {c \in Entry : e[c].data = "this" \/ e[c].lock}
BlocksOf(e) == {cb \in Entry \X (1 .. BPS) : cb[1] \in InUse(e) /\ cb[2] <= Blocks[e[cb[1]].seg]}
UsedIsAccounted == used = Cardinality(BlocksOf(ent))

\* What the argument for these three rests on.  No two jobs or results are for one
\* entry; the job that runs has an entry and a segment; entries that are free, or come
\* with the growth of the pool, are empty, and those in use have a segment.
JobInv ==
  /\ \A i, j \in DOMAIN queue : queue[i].c = queue[j].c => i = j
  /\ \A i, j \in DOMAIN done : done[i].c = done[j].c => i = j
  /\ \A i \in DOMAIN queue, j \in DOMAIN done : queue[i].c # done[j].c
  /\ run # NoRun => /\ run.c \in Entry /\ run.seg \in Segment
                    /\ \A i \in DOMAIN queue : queue[i].c # run.c
                    /\ \A i \in DOMAIN done : done[i].c # run.c
  /\ \A c \in free : ent[c] = Empty
  /\ ~grown => free \subseteq 1 .. Slots /\ \A c \in Entry : c > Slots => ent[c] = Empty
  /\ \A c \in InUse(ent) : ent[c].seg \in Segment

\* Nothing is read, given away or counted twice while a job is under way, whatever is
\* evicted, fails or crashes meanwhile (DiskCachePool.cpp:76, :131).
IInv == TypeOK /\ SaveHasItsSegment /\ JobsOwnTheirEntry /\ UsedIsAccounted /\ JobInv

\* Every file the program takes for saved can be evicted again: it has an entry,
\* and only one.
SavedHasOneEntry ==
  ~External => \A s \in saved : Cardinality({c \in Entry : ent[c].seg = s /\ ent[c].data = "this"}) = 1
=============================================================================
