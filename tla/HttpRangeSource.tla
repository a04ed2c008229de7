--------------------------- MODULE HttpRangeSource ---------------------------
(***************************************************************************)
(* HttpRangeByteSource: the demux thread reads a remote file through a     *)
(* cache of blocks, and a worker downloads the blocks, the demanded one    *)
(* first and then some ahead of it.  Both wait on one condition variable.  *)
(* Another thread may cancel everything.                                   *)
(*                                                                         *)
(* Positions, reads and the cache's contents are counted in blocks (a last *)
(* one that is short counts as a whole one), fragments in bytes.  The      *)
(* cache is the sequence of its blocks, the least recently used first.     *)
(***************************************************************************)
EXTENDS Integers, Sequences

CONSTANTS
  LastBlock,      \* the resource is the blocks 0 .. LastBlock
  BlockSize, CacheBytes,  \* block_size, maximum_cache_bytes
  ReadAhead,      \* sequential_read_ahead_blocks
  FragmentAhead,  \* fragment_read_ahead_count
  Layouts,        \* lists of fragments; <<>> is a plain MP4
  Retries,        \* maximum_retry_count
  Failures,       \* how a transfer may fail: "retryable", "fatal"
  MaxRead,        \* blocks that one read() asks for at most
  MayCancel       \* cancel() is called

BlockIndex == 0 .. LastBlock
None == LastBlock + 1
\* How many blocks the cache holds.
Budget == CacheBytes \div BlockSize

\* A fragment, and the blocks of its first and of its last byte.
Fragment == [offset : Nat, size : Nat \ {0}]
First(f) == f.offset \div BlockSize
Last(f) == (f.offset + f.size - 1) \div BlockSize
Touches(f, b) == b \in First(f) .. Last(f)

\* A fragment lies within the resource and ends where the next one begins, which need
\* not be where a block does.
Contiguous(l) ==
  \A i \in DOMAIN l :
    /\ First(l[i]) \in BlockIndex /\ Last(l[i]) \in BlockIndex
    /\ i + 1 \in DOMAIN l => l[i + 1].offset = l[i].offset + l[i].size

ASSUME SourceAssumption ==
  /\ LastBlock \in Nat /\ BlockSize \in Nat \ {0} /\ CacheBytes \in Nat
  /\ Budget \in Nat \ {0} /\ ReadAhead \in 0 .. Budget
  /\ FragmentAhead \in Nat \ {0} /\ Retries \in Nat
  /\ Layouts \subseteq Seq(Fragment) /\ \A l \in Layouts : Contiguous(l)
  /\ Failures \subseteq {"retryable", "fatal"} /\ MaxRead \in Nat \ {0}
  /\ MayCancel \in BOOLEAN

VARIABLES
  cache,                   \* m_cache in order of last_use
  requested,               \* m_requested_block
  position,                \* m_position
  state, ready, error,     \* m_state, m_ready, m_error is set
  cancelled, stopped,      \* m_cancelled, m_worker_stopped
  layout,                  \* what the file is; m_fragments once it is known
  prefetch,                \* m_fragment_prefetch_enabled
  wpc, block, then, tries, \* worker: the block it downloads, where it goes on, attempts
  ahead,                   \* worker: blocks that it may still fetch ahead
  rpc, want, target,       \* reader: blocks still to copy, the block it waits for
  xpc                      \* the thread that cancels

streamVars == <<position, state, ready, error>>
flags == <<cancelled, stopped, layout, prefetch, xpc>>
workerVars == <<wpc, block, then, tries, ahead>>
readerVars == <<rpc, want, target>>
sourceVars == <<cache, requested, streamVars, flags, workerVars, readerVars>>

Downloading == {"attempt", "transfer", "rebuffer", "pause", "insert", "fail"}

SourceTypeOK ==
  /\ cache \in Seq(BlockIndex) /\ Len(cache) <= Budget
  /\ \A i, j \in DOMAIN cache : cache[i] = cache[j] => i = j
  /\ {requested, target, block} \subseteq BlockIndex \cup {None}
  /\ position \in 0 .. LastBlock + 1
  /\ state \in {"Opening", "Ready", "Rebuffering", "Error", "Cancelled", "Ended"}
  /\ {ready, error, cancelled, stopped, prefetch} \subseteq BOOLEAN
  /\ layout \in Layouts \cup {<<>>}
  /\ wpc \in Downloading \cup {"discover", "index", "indexed", "top", "wait", "checked",
                               "blocked", "after", "ahead", "end", "gone"}
  /\ then \in {"index", "indexed", "after", "ahead"} /\ tries \in 0 .. Retries
  /\ ahead \subseteq BlockIndex
  /\ rpc \in {"idle", "test", "lookup", "wait", "checked", "blocked", "copy"}
  /\ want \in 0 .. MaxRead
  /\ xpc \in {"idle", "lock", "done"}

SourceInit ==
  /\ cache = <<>> /\ requested = 0 /\ position = 0
  /\ state = "Opening" /\ ready = FALSE /\ error = FALSE
  /\ cancelled = FALSE /\ stopped = FALSE
  /\ layout \in Layouts /\ prefetch = FALSE
  /\ wpc = "discover" /\ block = None /\ then = "index" /\ tries = 0 /\ ahead = {}
  /\ rpc = "idle" /\ want = 0 /\ target = None
  /\ xpc = "idle"

-----------------------------------------------------------------------------
(* The mutex and the condition variable.  A thread in "checked" has found  *)
(* its condition false and still holds the mutex; in "blocked" it waits.   *)

Unlocked == rpc # "checked" /\ wpc # "checked"

Silence == rpc                                     \* mutant: no notification
NotifiedReader == IF rpc = "blocked" THEN "wait" ELSE rpc
NotifiedWorker == IF wpc = "blocked" THEN "wait" ELSE wpc

-----------------------------------------------------------------------------
(* The worker: one download, download_block().                             *)

Cached(b) == \E i \in DOMAIN cache : cache[i] = b

\* insert_block(): b becomes the most recently used, and evict_to_budget() drops
\* the least recently used others.
Evicted(q) == SubSeq(q, IF Len(q) > Budget THEN Len(q) - Budget + 1 ELSE 1, Len(q))
MovedToBack(i) ==
  [j \in DOMAIN cache |-> IF j < i THEN cache[j] ELSE IF j < Len(cache) THEN cache[j + 1] ELSE cache[i]]
Touched(b) ==
  IF Cached(b) THEN MovedToBack(CHOOSE i \in DOMAIN cache : cache[i] = b) ELSE Append(cache, b)

Start(b, t) == block' = b /\ then' = t /\ tries' = 0 /\ wpc' = "attempt"

\* Where the worker goes on when a download has failed or was cancelled: without its
\* first block the source is not opened, without its tail the file is a plain one.
GivesUp ==
  /\ wpc' = CASE then = "index" -> "gone"
              [] then = "after" -> "end"
              [] then = "indexed" -> "top"
              [] then = "ahead" -> IF layout = <<>> THEN "gone" ELSE "top"
  /\ layout' = IF then = "indexed" THEN <<>> ELSE layout

Attempt ==
  /\ wpc = "attempt"
  /\ IF cancelled THEN GivesUp ELSE wpc' = "transfer" /\ UNCHANGED layout
  /\ UNCHANGED <<cache, requested, streamVars, cancelled, stopped, prefetch, xpc, block,
                 then, tries, ahead, readerVars>>

Transfer ==
  /\ wpc = "transfer"
  /\ \/ wpc' = "insert"
     \/ "retryable" \in Failures /\ tries < Retries /\ wpc' = "rebuffer"
     \/ "retryable" \in Failures /\ tries = Retries /\ wpc' = "fail"
     \/ ("fatal" \in Failures \/ cancelled) /\ wpc' = "fail"
  /\ UNCHANGED <<cache, requested, streamVars, flags, block, then, tries, ahead,
                 readerVars>>

Insert ==
  /\ wpc = "insert" /\ Unlocked
  /\ cache' = Evicted(Touched(block))
  /\ state' = "Ready" /\ ready' = TRUE
  /\ rpc' = NotifiedReader
  /\ wpc' = then
  /\ UNCHANGED <<requested, position, error, flags, block, then, tries, ahead, want,
                 target>>

\* set_state(Rebuffering), whatever the state was, and wait_before_retry().
Rebuffer ==
  /\ wpc = "rebuffer" /\ Unlocked
  /\ state' = "Rebuffering"
  /\ rpc' = NotifiedReader
  /\ wpc' = "pause"
  /\ UNCHANGED <<cache, requested, position, ready, error, flags, block, then, tries,
                 ahead, want, target>>

Pause ==
  /\ wpc = "pause" /\ Unlocked
  /\ IF cancelled THEN GivesUp /\ UNCHANGED tries
     ELSE wpc' = "attempt" /\ tries' = tries + 1 /\ UNCHANGED layout
  /\ UNCHANGED <<cache, requested, streamVars, cancelled, stopped, prefetch, xpc, block,
                 then, ahead, readerVars>>

Fail ==
  /\ wpc = "fail" /\ Unlocked
  /\ error' = (error \/ ~cancelled)
  /\ state' = IF cancelled THEN "Cancelled" ELSE "Error"
  /\ stopped' = TRUE
  /\ rpc' = NotifiedReader
  /\ GivesUp
  /\ UNCHANGED <<cache, requested, position, ready, cancelled, prefetch, xpc, block, then,
                 tries, ahead, want, target>>

Download == Attempt \/ Transfer \/ Insert \/ Rebuffer \/ Pause \/ Fail

-----------------------------------------------------------------------------
(* The worker: worker_loop().                                              *)

\* discover_resource(): a metadata request, which is not repeated, and the first block.
Discover ==
  /\ wpc = "discover"
  /\ \/ Start(0, "index")
     \/ Failures # {} /\ wpc' = "fail" /\ UNCHANGED <<block, then, tries>>
  /\ UNCHANGED <<cache, requested, streamVars, flags, ahead, readerVars>>

\* discover_fragment_index(): the index of a fragmented file is in its last block.
Index ==
  /\ wpc = "index"
  /\ IF layout # <<>> /\ LastBlock # 0 THEN Start(LastBlock, "indexed")
     ELSE /\ wpc' = IF layout = <<>> THEN "top" ELSE "indexed"
          /\ UNCHANGED <<block, then, tries>>
  /\ UNCHANGED <<cache, requested, streamVars, flags, ahead, readerVars>>

Indexed ==
  /\ wpc = "indexed" /\ Unlocked
  /\ requested' = IF requested = None THEN First(layout[1]) ELSE requested
  /\ rpc' = NotifiedReader
  /\ wpc' = "top"
  /\ UNCHANGED <<cache, streamVars, flags, block, then, tries, ahead, want, target>>

Loop ==
  /\ wpc = "top"
  /\ wpc' = IF cancelled THEN "end" ELSE "wait"
  /\ block' = None /\ then' = "after" /\ tries' = 0
  /\ UNCHANGED <<cache, requested, streamVars, flags, ahead, readerVars>>

HasWork == cancelled \/ requested # None

Await ==
  /\ wpc = "wait" /\ Unlocked /\ ~HasWork
  /\ wpc' = "checked"
  /\ UNCHANGED <<cache, requested, streamVars, flags, block, then, tries, ahead,
                 readerVars>>

Sleep ==
  /\ wpc = "checked"
  /\ wpc' = "blocked"
  /\ UNCHANGED <<cache, requested, streamVars, flags, block, then, tries, ahead,
                 readerVars>>

TakeRequest ==
  /\ wpc = "wait" /\ Unlocked /\ HasWork
  /\ \/ cancelled /\ wpc' = "end" /\ UNCHANGED <<requested, block, then, tries>>
     \/ /\ ~cancelled
        /\ requested' = None
        /\ IF Cached(requested)
           THEN block' = requested /\ wpc' = "after" /\ UNCHANGED <<then, tries>>
           ELSE Start(requested, "after")
  /\ UNCHANGED <<cache, streamVars, flags, ahead, readerVars>>

\* What is fetched after block b.  In a plain file the blocks that follow it; in a
\* fragmented one, once it plays, all blocks of its fragment, whatever its size, and of
\* the next ones while the bytes of all of them together are within the budget.
FragmentOf(b) ==
  CHOOSE i \in DOMAIN layout :
    Touches(layout[i], b) /\ \A j \in 1 .. i - 1 : ~Touches(layout[j], b)
BytesOf(l, i, j) == l[j].offset + l[j].size - l[i].offset
Scheduled(l, i) ==
  {j \in i .. Len(l) : j - i < FragmentAhead /\ (j = i \/ BytesOf(l, i, j) <= CacheBytes)}
Window(l, i) == {x \in BlockIndex : \E j \in Scheduled(l, i) : Touches(l[j], x)}
OneBlockMore(b) ==                                  \* mutant: counts from 0 to ReadAhead
  IF layout = <<>> THEN {x \in BlockIndex : b < x /\ x <= b + ReadAhead + 1} ELSE {}
AheadOf(b) ==
  IF layout = <<>> THEN {x \in BlockIndex : b < x /\ x <= b + ReadAhead}
  ELSE IF prefetch /\ \E i \in DOMAIN layout : Touches(layout[i], b)
       THEN Window(layout, FragmentOf(b))
       ELSE {}

PlanAhead ==
  /\ wpc = "after"
  /\ ahead' = AheadOf(block)
  /\ wpc' = "ahead"
  /\ UNCHANGED <<cache, requested, streamVars, flags, block, then, tries, readerVars>>

\* A new request supersedes what would have been fetched ahead.
Superseded == requested # None

FetchAhead ==
  /\ wpc = "ahead" /\ Unlocked
  /\ \/ /\ ahead = {} \/ Superseded \/ (cancelled /\ layout = <<>>)
        /\ wpc' = "top" /\ ahead' = {} /\ UNCHANGED <<block, then, tries>>
     \/ /\ ~Superseded /\ ~(cancelled /\ layout = <<>>)
        /\ \E b \in ahead :
             /\ \A x \in ahead : b <= x
             /\ ahead' = ahead \ {b}
             /\ IF Cached(b) THEN UNCHANGED <<wpc, block, then, tries>> ELSE Start(b, "ahead")
  /\ UNCHANGED <<cache, requested, streamVars, flags, readerVars>>

End ==
  /\ wpc = "end" /\ Unlocked
  /\ stopped' = TRUE
  /\ rpc' = NotifiedReader
  /\ wpc' = "gone"
  /\ UNCHANGED <<cache, requested, streamVars, cancelled, layout, prefetch, xpc, block,
                 then, tries, ahead, want, target>>

Worker ==
  \/ Discover \/ Index \/ Indexed \/ Loop \/ Await \/ Sleep \/ TakeRequest \/ PlanAhead
  \/ FetchAhead \/ End \/ Download

-----------------------------------------------------------------------------
(* The demux thread: read() and seek().                                    *)

ReadReturn == rpc' = "idle" /\ want' = 0 /\ target' = None

ReadEnter(n) ==
  /\ rpc = "idle" /\ ready
  /\ rpc' = "test" /\ want' = n
  /\ UNCHANGED <<cache, requested, streamVars, flags, workerVars, target>>

ReadTest ==
  /\ rpc = "test" /\ Unlocked
  /\ IF error \/ cancelled
     THEN ReadReturn /\ UNCHANGED state
     ELSE IF position > LastBlock
     THEN ReadReturn /\ state' = "Ended"
     ELSE rpc' = "lookup" /\ target' = position /\ UNCHANGED <<want, state>>
  /\ UNCHANGED <<cache, requested, position, ready, error, flags, workerVars>>

\* wait_for_block(): the request replaces any other.
ReadLookup ==
  /\ rpc = "lookup" /\ Unlocked
  /\ IF Cached(target)
     THEN /\ rpc' = "copy"
          /\ UNCHANGED <<requested, wpc, want, target>>
     ELSE /\ requested' = target
          /\ wpc' = NotifiedWorker
          /\ IF error \/ cancelled \/ stopped
             THEN ReadReturn
             ELSE rpc' = "checked" /\ UNCHANGED <<want, target>>
  /\ UNCHANGED <<cache, streamVars, flags, block, then, tries, ahead>>

ReadSleep ==
  /\ rpc = "checked"
  /\ rpc' = "blocked"
  /\ UNCHANGED <<cache, requested, streamVars, flags, workerVars, want, target>>

ReadWait ==
  /\ rpc = "wait" /\ Unlocked
  /\ IF Cached(target) THEN rpc' = "copy" /\ UNCHANGED <<want, target>>
     ELSE IF error \/ cancelled \/ stopped THEN ReadReturn
     ELSE rpc' = "checked" /\ UNCHANGED <<want, target>>
  /\ UNCHANGED <<cache, requested, streamVars, flags, workerVars>>

\* The mutex was released since the block was seen: it may have been evicted.
ReadBlock ==
  /\ rpc = "copy" /\ Unlocked
  /\ IF ~Cached(target)
     THEN ReadReturn /\ UNCHANGED <<cache, position>>
     ELSE /\ cache' = Touched(target)
          /\ position' = position + 1
          /\ IF want = 1 THEN ReadReturn
             ELSE rpc' = "test" /\ want' = want - 1 /\ UNCHANGED <<target>>
  /\ UNCHANGED <<requested, state, ready, error, flags, workerVars>>

SeekTo(b) ==
  /\ rpc = "idle" /\ wpc # "checked"
  /\ ready /\ ~cancelled /\ ~error
  /\ position' = b
  /\ state' = IF state = "Ended" THEN "Ready" ELSE state
  /\ UNCHANGED <<cache, requested, ready, error, flags, workerVars, readerVars>>

Reading == ReadTest \/ ReadLookup \/ ReadSleep \/ ReadWait \/ ReadBlock

\* enable_fragment_prefetch(), once the container has been probed.
EnablePrefetch ==
  /\ rpc = "idle" /\ ready /\ ~prefetch
  /\ prefetch' = TRUE
  /\ UNCHANGED <<cache, requested, streamVars, cancelled, stopped, layout, xpc, workerVars,
                 readerVars>>

-----------------------------------------------------------------------------
(* Another thread: cancel().                                               *)

CancelFlag ==
  /\ MayCancel /\ xpc = "idle" /\ ready
  /\ cancelled' = TRUE
  /\ xpc' = "lock"
  /\ UNCHANGED <<cache, requested, streamVars, stopped, layout, prefetch, workerVars,
                 readerVars>>

NeedsNoLock == TRUE                                \* mutant: m_mutex is not taken
CancelLocks == Unlocked

CancelNotify ==
  /\ xpc = "lock" /\ CancelLocks
  /\ state' = "Cancelled"
  /\ rpc' = NotifiedReader /\ wpc' = NotifiedWorker
  /\ xpc' = "done"
  /\ UNCHANGED <<cache, requested, position, ready, error, cancelled, stopped, layout,
                 prefetch, block, then, tries, ahead, want, target>>

-----------------------------------------------------------------------------
SourceNext ==
  \/ Worker
  \/ (\E n \in 1 .. MaxRead : ReadEnter(n)) \/ Reading
  \/ (\E b \in 0 .. LastBlock + 1 : SeekTo(b)) \/ EnablePrefetch
  \/ CancelFlag \/ CancelNotify

SourceSpec == SourceInit /\ [][SourceNext]_sourceVars

\* Both threads run, a transfer ends one way or the other, and cancel() is carried on.
FairSource == SourceSpec /\ WF_sourceVars(Worker) /\ WF_sourceVars(Reading) /\ WF_sourceVars(CancelNotify)

-----------------------------------------------------------------------------
(* Properties.                                                             *)

\* read() returns: with the blocks, at the end of the resource, or with an error when the
\* retries are exhausted or the source is cancelled.  And so does the destructor: cancel()
\* ends the worker, which it joins, whatever the worker waits for.
CallsReturn ==
  /\ rpc # "idle" ~> rpc = "idle"
  /\ cancelled ~> wpc = "gone"

\* No wake-up is lost and no demand is forgotten: the reader sleeps only while its block
\* is missing, nothing has ended, and the block is asked for or on its way; the worker
\* sleeps only when nothing is asked for.  Either may have to wait for a cancel() that
\* has set the flag and is about to notify.  (With ReadAhead = Budget, or fragments that
\* together touch more blocks than the cache holds, a demand is forgotten: see README.)
NeverAsleepInVain ==
  /\ rpc = "blocked" =>
       /\ ~Cached(target) /\ ~error /\ ~stopped
       /\ cancelled => xpc = "lock"
       /\ ~cancelled => requested = target \/ (block = target /\ wpc \in Downloading)
  /\ wpc = "blocked" => requested = None /\ (cancelled => xpc = "lock")

\* read(): "Never report a prefix of a failed logical read as success": the block that
\* was waited for is there to be copied.
ReadsWhole == [][(rpc = "copy" /\ rpc' # "copy") => Cached(target)]_sourceVars

\* A cancelled source says so.
CancelledStays == xpc = "done" => state = "Cancelled"
=============================================================================
