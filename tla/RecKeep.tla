------------------------------- MODULE RecKeep -------------------------------
(***************************************************************************)
(* RecKeep of src/server/datakeep.{hpp,cpp}: the server's store of game    *)
(* records, across crashes and restarts.                                   *)
(*                                                                         *)
(* A record that passes the worker's tests is numbered, saved as one file  *)
(* of the pool, and appended to the archive under way (arch's temp file).  *)
(* When the pool holds more than a cluster, the archive under way is       *)
(* closed and renamed and the cluster's pool files are removed.  start()   *)
(* repairs what a crash left: it drops pool files of a cluster that was    *)
(* archived, archives whole clusters again, and rewrites the archive under *)
(* way from the pool.                                                      *)
(*                                                                         *)
(* Each step leaves the directories as a crash at that point would leave   *)
(* them.  A crash is that of the process (die(), a kill): what was given   *)
(* to the file system stays, what was in memory or in a stream is lost.    *)
(***************************************************************************)
EXTENDS Integers, Sequences, FiniteSets

CONSTANTS
  Records,      \* the games that can be received
  Bad,          \* those the worker rejects: not xz, not CSA, too short, few children
  NoResign,     \* those played without resignation, which the EMA is fed with
  NoRec,        \* no record: an idle worker's, or a lost one
  SizeCluster,  \* size_cluster (10000 in the code)
  SizeTable,    \* _redundancy_table: 2U << log2_nindex_redun
  MaxlenJob,    \* the capacity of the JQueue
  MaxId,        \* bound: no record beyond this number
  MaxCrash      \* bound: crashes and stops

ASSUME RecKeepAssumption ==
  /\ Bad \subseteq Records
  /\ NoResign \subseteq Records
  /\ NoRec \notin Records
  /\ SizeCluster \in Nat \ {0}
  /\ SizeTable \in Nat \ {0}
  /\ MaxlenJob \in Nat \ {0}
  /\ MaxId \in Nat
  /\ MaxCrash \in Nat

VARIABLES
  \* on disk
  pool,      \* the files of the pool that _pool names: record number -> record
  left,      \* the files of the pool that _pool no longer names: remove() failed
  arch,      \* the archive directory: first number -> contents
  ema,       \* ema.cfg: how many records the estimates have been fed with
  \* in memory
  stream,    \* what _xze has been given for the archive under way
  bFirst,    \* _bFirst: the next record of the stream takes no separator
  xze,       \* _xze: "open" on arch's temp file, or "ended" on a stream that is gone
  table,     \* _redundancy_table: digests (here: the records), the latest first
  jobs,      \* _pJQueue: the records queued, the newest last
  job,       \* _pJQueue: the record the worker is at, or NoRec
  ended,     \* _pJQueue: end() has been called
  upto,      \* i64_end of the removal loops
  pc,        \* where the process is
  born,      \* the first number given since start() (used by properties only)
  crashes    \* crashes so far (bounded)

disk == <<pool, left, arch, ema>>
encoder == <<stream, bFirst, xze>>
queue == <<jobs, job, ended>>
vars == <<pool, left, arch, ema, stream, bFirst, xze, table, jobs, job, ended, upto, pc, born, crashes>>

\* The queue between the main thread and the worker is a bounded stack: module
\* JQueue shows that the code's slots, mutex and condition variable make one.
JQ == INSTANCE JobStack WITH
        Jobs <- Records, NoJob <- NoRec, MaxlenQueue <- MaxlenJob,
        stack <- jobs, current <- job, ended <- ended

-----------------------------------------------------------------------------
(* Numbers and contents.                                                   *)

Begin == CHOOSE i \in DOMAIN pool : \A k \in DOMAIN pool : i <= k   \* _pool.begin()
Last == CHOOSE i \in DOMAIN pool : \A k \in DOMAIN pool : k <= i    \* _pool.rbegin()
PoolEmpty == DOMAIN pool = {}

\* Mutation: numbers from the size of the pool.
NextIdFromSize == Cardinality(DOMAIN pool)

\* The number transact() gives to the next record.
NextId == IF PoolEmpty THEN 0 ELSE Last + 1

\* One record of an archive: its number, its text, and whether CSA's separator
\* stands before it.
Entry(i, r, sep) == [id |-> i, rec |-> r, sep |-> sep]
Entries == [id : 0 .. MaxId, rec : Records, sep : BOOLEAN]

\* Pool records number first .. last as the body of an archive.
Encoded(first, last) ==
  [n \in 1 .. last - first + 1 |-> Entry(first + n - 1, pool[first + n - 1], n > 1)]

Without(f, i) == [k \in DOMAIN f \ {i} |-> f[k]]
With(f, i, v) == [k \in DOMAIN f \cup {i} |-> IF k = i THEN v ELSE f[k]]

\* The end of the cluster that number i belongs to.
ClusterEnd(i) == (i \div SizeCluster + 1) * SizeCluster

\* Mutation: off by one, the cluster is archived when its last record is saved,
\* which the stream does not hold yet.
ClusterDoneEarly == Begin + SizeCluster <= Last + 1

\* A record after the first cluster of the pool is there.
ClusterDone == Begin + SizeCluster <= Last

\* Mutation: the digest is not remembered.
TouchNothing(d) == table

Known(d) == \E n \in 1 .. Len(table) : table[n] = d

\* Where a digest stands in the table. A new one takes the next place, or in a full
\* table that of the least recently used one.
Place(d) ==
  IF Known(d) THEN CHOOSE n \in 1 .. Len(table) : table[n] = d
  ELSE IF Len(table) < SizeTable THEN Len(table) + 1 ELSE SizeTable

\* It comes first, and those that stood before it move down by one.
Touch(d) ==
  [n \in 1 .. (IF Known(d) THEN Len(table) ELSE Place(d)) |->
     IF n = 1 THEN d ELSE IF n <= Place(d) THEN table[n - 1] ELSE table[n]]

-----------------------------------------------------------------------------

Init ==
  /\ pool = <<>> /\ left = <<>>
  /\ arch = <<>>
  /\ ema = 0
  /\ stream = <<>> /\ bFirst = TRUE /\ xze = "ended"
  /\ table = <<>>
  /\ JQ!Init
  /\ upto = 0
  /\ pc = "down"
  /\ born = 0
  /\ crashes = 0

Goto(label) == pc' = label

(* RecKeep::start().                                                       *)

\* Fresh memory, open_arch_tmp().
Start ==
  /\ pc = "down"
  /\ stream' = <<>> /\ bFirst' = TRUE /\ xze' = "open"
  /\ table' = <<>>
  /\ jobs' = <<>> /\ job' = NoRec /\ ended' = FALSE
  /\ born' = NextId
  /\ Goto("loaded")
  /\ UNCHANGED <<disk, upto, crashes>>

\* The files that grab_files() finds, the ones a removal left behind among them.
Files == [i \in DOMAIN pool \cup DOMAIN left |-> IF i \in DOMAIN pool THEN pool[i] ELSE left[i]]

PoolContiguous == \A i, k \in DOMAIN Files : i .. k \subseteq DOMAIN Files

\* grab_files(), and a pool with a hole is refused (die()).
StartCheck ==
  /\ pc = "loaded"
  /\ IF PoolContiguous THEN Goto("checked") /\ pool' = Files /\ left' = <<>>
     ELSE Goto("refused") /\ UNCHANGED <<pool, left>>
  /\ UNCHANGED <<arch, ema, encoder, table, queue, upto, born, crashes>>

\* A cluster whose first files are gone was archived before the crash.
HasReminders == Begin % SizeCluster # 0 /\ ClusterEnd(Begin) <= Last

\* Nothing to repair, reminders to remove, or none.
StartRepair ==
  /\ pc = "checked"
  /\ IF PoolEmpty THEN Goto("idle") /\ UNCHANGED upto
     ELSE IF HasReminders THEN Goto("reminders") /\ upto' = ClusterEnd(Begin)
     ELSE Goto("clusters") /\ UNCHANGED upto
  /\ UNCHANGED <<disk, encoder, table, queue, born, crashes>>

\* Creates the archive of a whole cluster of the pool; _xze leaves arch's temp file.
StartCluster ==
  /\ pc = "clusters"
  /\ ClusterDone
  /\ arch' = With(arch, Begin, <<>>)
  /\ upto' = Begin + SizeCluster
  /\ Goto("encode")
  /\ UNCHANGED <<pool, left, ema, encoder, table, queue, born, crashes>>

\* Encodes the cluster from the pool files and ends _xze; ofs goes out of scope.
StartEncode ==
  /\ pc = "encode"
  /\ arch' = With(arch, Begin, Encoded(Begin, upto - 1))
  /\ xze' = "ended"
  /\ Goto("archived")
  /\ UNCHANGED <<pool, left, ema, stream, bFirst, table, queue, upto, born, crashes>>

StartTail ==
  /\ pc = "clusters"
  /\ ~ClusterDone
  /\ Goto("tail")
  /\ UNCHANGED <<disk, encoder, table, queue, upto, born, crashes>>

\* The rest of the pool is written to arch's temp file...
StartAppend ==
  /\ pc = "tail"
  /\ xze = "open"
  /\ stream' = Encoded(Begin, Last)
  /\ bFirst' = FALSE
  /\ Goto("idle")
  /\ UNCHANGED <<disk, xze, table, queue, upto, born, crashes>>

\* ... unless _xze was ended: lzma_code() then returns LZMA_STREAM_END without
\* consuming anything, and XZEncode::append() goes on for ever.  (It also calls
\* write() on the stream that is gone, which may end the process: a Crash.)
StartAppendSpins ==
  /\ pc = "tail"
  /\ xze = "ended"
  /\ Goto("spinning")
  /\ UNCHANGED <<disk, encoder, table, queue, upto, born, crashes>>

-----------------------------------------------------------------------------
(* The removal loops of start() and transact(): one file a step, in order, *)
(* its name erased from _pool with it.                                     *)

AfterRemoval == [reminders |-> "clusters", archived |-> "clusters", remove |-> "reopen"]

\* Mutation: the newest file of the cluster goes first.
RemovedNewest == CHOOSE i \in DOMAIN pool : i < upto /\ \A k \in DOMAIN pool : k < upto => k <= i

Removed == Begin

Remove ==
  /\ pc \in DOMAIN AfterRemoval
  /\ ~PoolEmpty
  /\ Begin < upto
  /\ pool' = Without(pool, Removed)
  /\ UNCHANGED <<left, arch, ema, encoder, table, queue, upto, pc, born, crashes>>

\* Where start() has archived a cluster again, remove() may fail without die(): the
\* name leaves _pool all the same, and the file stays.
RemoveFails ==
  /\ pc = "archived"
  /\ ~PoolEmpty
  /\ Begin < upto
  /\ pool' = Without(pool, Begin)
  /\ left' = With(left, Begin, pool[Begin])
  /\ UNCHANGED <<arch, ema, encoder, table, queue, upto, pc, born, crashes>>

RemoveEnds ==
  /\ pc \in DOMAIN AfterRemoval
  /\ PoolEmpty \/ upto <= Begin
  /\ Goto(IF pc = "reminders" /\ PoolEmpty THEN "idle" ELSE AfterRemoval[pc])
  /\ UNCHANGED <<disk, encoder, table, queue, upto, born, crashes>>

-----------------------------------------------------------------------------
(* Serving: RecKeep::add() by the main thread, RecKeep::worker() and       *)
(* RecKeep::transact() by the worker.                                      *)

ServingAt == {"idle", "examine", "save", "ema", "archive", "remove", "reopen", "append"}

Add(r) ==
  /\ pc \in ServingAt
  /\ ~ended
  /\ JQ!Push(r)
  /\ UNCHANGED <<disk, encoder, table, upto, pc, born, crashes>>

Pop ==
  /\ pc = "idle"
  /\ NextId <= MaxId
  /\ JQ!Take
  /\ Goto("examine")
  /\ UNCHANGED <<disk, encoder, table, upto, born, crashes>>

Reject ==
  /\ pc = "examine"
  /\ job \in Bad
  /\ JQ!Finish
  /\ Goto("idle")
  /\ UNCHANGED <<disk, encoder, table, upto, born, crashes>>

\* The table is consulted and updated by the same operator[], before the save.
Duplicate ==
  /\ pc = "examine"
  /\ job \notin Bad
  /\ Known(job)
  /\ table' = Touch(job)
  /\ JQ!Finish
  /\ Goto("idle")
  /\ UNCHANGED <<disk, encoder, upto, born, crashes>>

Admit ==
  /\ pc = "examine"
  /\ job \notin Bad
  /\ ~Known(job)
  /\ table' = Touch(job)
  /\ Goto("save")
  /\ UNCHANGED <<disk, encoder, queue, upto, born, crashes>>

\* write_pooltemp(), rename(), _pool.insert(): the record is there or it is not.
Save ==
  /\ pc = "save"
  /\ pool' = With(pool, NextId, job)
  /\ Goto("ema")
  /\ UNCHANGED <<left, arch, ema, encoder, table, queue, upto, born, crashes>>

\* Mutation: every record feeds the EMA.
FeedsEmaAlways == TRUE

FeedsEma == job \in NoResign

\* EMAKeep::update(), by a temporary file and rename() too.
UpdateEma ==
  /\ pc = "ema"
  /\ ema' = IF FeedsEma THEN ema + 1 ELSE ema
  /\ Goto("archive")
  /\ UNCHANGED <<pool, left, arch, encoder, table, queue, upto, born, crashes>>

\* close_arch_tmp() and rename(): the archive under way becomes the cluster's.
Archive ==
  /\ pc = "archive"
  /\ ClusterDone
  /\ arch' = With(arch, Begin, stream)
  /\ xze' = "ended"
  /\ upto' = Begin + SizeCluster
  /\ Goto("remove")
  /\ UNCHANGED <<pool, left, ema, stream, bFirst, table, queue, born, crashes>>

NoArchive ==
  /\ pc = "archive"
  /\ ~ClusterDone
  /\ Goto("append")
  /\ UNCHANGED <<disk, encoder, table, queue, upto, born, crashes>>

\* open_arch_tmp().
Reopen ==
  /\ pc = "reopen"
  /\ stream' = <<>> /\ bFirst' = TRUE /\ xze' = "open"
  /\ Goto("append")
  /\ UNCHANGED <<disk, table, queue, upto, born, crashes>>

SavedId == Last

AppendRec ==
  /\ pc = "append"
  /\ stream' = Append(stream, Entry(SavedId, job, ~bFirst))
  /\ bFirst' = FALSE
  /\ JQ!Finish
  /\ Goto("idle")
  /\ UNCHANGED <<disk, xze, table, upto, born, crashes>>

-----------------------------------------------------------------------------
(* The end of the process.                                                 *)

Gone ==
  /\ pc' = "down"
  /\ crashes' = crashes + 1
  /\ UNCHANGED <<disk, encoder, table, queue, upto, born>>

\* A kill, or a die() anywhere.
Crash ==
  /\ pc # "down"
  /\ crashes < MaxCrash
  /\ Gone

\* RecKeep::end(), by the main thread...
End ==
  /\ pc \in ServingAt
  /\ JQ!End
  /\ UNCHANGED <<disk, encoder, table, upto, pc, born, crashes>>

\* ... and the worker leaves its loop at pop(), the jobs still queued lost.
Stop ==
  /\ pc = "idle"
  /\ ended
  /\ crashes < MaxCrash
  /\ Gone

StartStep ==
  \/ Start \/ StartCheck \/ StartRepair
  \/ StartCluster \/ StartEncode \/ StartTail \/ StartAppend \/ StartAppendSpins

TransactStep ==
  \/ Pop \/ Reject \/ Duplicate \/ Admit \/ Save \/ UpdateEma
  \/ Archive \/ NoArchive \/ Reopen \/ AppendRec

Next ==
  \/ StartStep
  \/ TransactStep
  \/ Remove \/ RemoveFails \/ RemoveEnds
  \/ \E r \in Records : Add(r)
  \/ End \/ Stop \/ Crash

Spec == Init /\ [][Next]_vars
-----------------------------------------------------------------------------
(* Properties.                                                             *)

Numbers == 0 .. MaxId
Partial(S, T) == UNION {[D -> T] : D \in SUBSET S}

\* Types of the variables.
TypeOK ==
  /\ DOMAIN pool \subseteq Numbers /\ \A i \in DOMAIN pool : pool[i] \in Records \ Bad
  /\ DOMAIN left \subseteq Numbers /\ \A i \in DOMAIN left : left[i] \in Records \ Bad
  /\ DOMAIN arch \subseteq Numbers
  /\ \A k \in DOMAIN arch : \A n \in DOMAIN arch[k] : arch[k][n] \in Entries
  /\ ema \in 0 .. MaxId + 1
  /\ \A n \in DOMAIN stream : stream[n] \in Entries
  /\ bFirst \in BOOLEAN
  /\ xze \in {"open", "ended"}
  /\ \A n \in DOMAIN table : table[n] \in Records \ Bad
  /\ Len(table) <= SizeTable
  /\ \A n \in DOMAIN jobs : jobs[n] \in Records
  /\ Len(jobs) <= MaxlenJob
  /\ job \in Records \cup {NoRec}
  /\ ended \in BOOLEAN
  /\ upto \in 0 .. MaxId + 1
  /\ pc \in ServingAt \cup {"down", "loaded", "refused", "checked", "reminders", "clusters", "encode",
                            "archived", "tail", "spinning"}
  /\ born \in 0 .. MaxId + 1
  /\ crashes \in 0 .. MaxCrash

\* What an archive of the cluster that starts at k must be: its SizeCluster records,
\* in order, each but the first after a separator.
Whole(k) ==
  /\ Len(arch[k]) = SizeCluster
  /\ \A n \in 1 .. SizeCluster : arch[k][n].id = k + n - 1 /\ arch[k][n].sep = (n > 1)

\* Number i is in the cluster that starts at k.
Covers(k, i) == k <= i /\ i < k + SizeCluster

\* A record number that is no longer in the pool is in the whole archive of its
\* cluster; an archive that is not whole is one whose records are all still in
\* the pool.  This has to hold between any two file operations: a crash there
\* leaves the directories just so.
ArchivesWhole ==
  /\ \A k \in DOMAIN arch : Whole(k) \/ k .. k + SizeCluster - 1 \subseteq DOMAIN pool
  /\ \A k \in DOMAIN arch : k % SizeCluster = 0

\* The record the disk holds under number i.
Stored(i) ==
  LET k == (i \div SizeCluster) * SizeCluster
      n == i - k + 1
  IN IF i \in DOMAIN pool THEN pool[i]
     ELSE IF k \in DOMAIN arch /\ n \in DOMAIN arch[k] /\ arch[k][n].id = i
          THEN arch[k][n].rec
          ELSE NoRec

StoreOf == [n \in 1 .. NextId |-> Stored(n - 1)]

\* Whatever crashes, the accepted records form a sequence that only grows at its
\* end: no number is given twice, no record is lost, none changes between the
\* pool and the archive.
Abstract == INSTANCE RecStore WITH store <- StoreOf
ImplementsRecStore == Abstract!Spec

\* The file after number i is missing though a later one is there.
HoleAfter(i) == i + 1 \notin DOMAIN Files /\ \E k \in DOMAIN Files : i < k

\* The server refuses to start on a pool of its own making only where remove() failed
\* on files whose cluster it had archived whole: each hole of the pool is right after
\* such a file, so that nothing is missing.  The assert before the archive under way is
\* rewritten (datakeep.cpp:580) holds: the pool then starts at a cluster's first number.
RestartFindsItsPool ==
  /\ pc = "refused" =>
       \A i \in DOMAIN Files : HoleAfter(i) =>
         i \in DOMAIN left /\ \E k \in DOMAIN arch : Covers(k, i) /\ Whole(k)
  /\ pc = "tail" => Begin % SizeCluster = 0

\* Two records with one digest are accepted in one life of the server only if the
\* table has had to make room in between: as many other digests as it holds have
\* been accepted since the start.
NoDuplicateInOneLife ==
  \A i, k \in born .. NextId - 1 :
    (i < k /\ Stored(i) = Stored(k)) =>
      Cardinality({Stored(n) : n \in born .. k - 1} \ {Stored(k)}) >= SizeTable

NoResignStored == Cardinality({i \in 0 .. NextId - 1 : Stored(i) \in NoResign})

\* The estimates of the resign threshold are fed with each stored record played
\* without resignation, once: a crash between the save and ema.cfg loses one and
\* nothing feeds one twice.
EmaFollowsStore ==
  /\ ema <= NoResignStored
  /\ NoResignStored - ema <= crashes + (IF pc = "ema" THEN 1 ELSE 0)

\* xzi.cpp:86 asserts that the encoder is not given data after its end: append()
\* relies on it to terminate.
EncoderOpenForAppend == ~(pc = "tail" /\ xze = "ended")
=============================================================================
