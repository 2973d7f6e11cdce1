# AobaZero: a TLA+ verification project

AobaZero plays Shogi against itself on volunteers' machines, collects the games
on a server, trains a network on them and sends the new weights back. This
directory holds TLA+ models of the part of the program that has to be right
when threads interleave, connections break and processes are killed: the record
server (`src/server`), the client and its manager of engines (`src/autousi`),
the shared machinery under both (`src/common`), and the parallel tree search of
the engine (`src/usi-engine`). Paths below are relative to the repository; the
modules speak of the commit they stand beside.

## 1. The system

Three programs run.

* **server** (`src/server/server.cpp`): one main thread that loops in
  `Listen::wait()`, and three workers: `RecKeep::worker` (records),
  `WghtKeep::worker` (polls the weight directory), `Listen::worker` (reloads the
  address lists).
* **autousi** (`src/autousi/autousi.cpp`): one main thread that loops in
  `PlayManager::manage_play()`, `Client::reader` (downloads weights),
  `Client::sender` (uploads games), one reader thread per child process, and the
  service of the network.
* **aobaz** (`src/usi-engine`): the engine, one or more child processes of
  autousi, spoken to over pipes in USI.

```
 weight dir -> WghtKeep --shared_ptr--> Listen <--TCP--> Client::reader -> w*.txt
                                          |  ^                               |
 pool, archives <- RecKeep <- JQueue -----+  +-TCP-- Client::sender <- JQueue|
                                                        ^                    v
                                          PlayManager --+--- NNetService, NNetIPC
                                               |  pipes (Child)        ^
                                               +------ aobaz ----------+ shared memory
```

| Component | State it keeps | Operations | What is hard | What makes it correct |
|---|---|---|---|---|
| JQueue (`common/jqueue.*`) | slots, two stacks of pointers, `_bEnd`, mutex, condition variable | `get_free`, `push_free`, `pop`, `end` | interleaving of two threads, lost wakeups, full and empty queue, `_bEnd` written without the mutex | a slot has one owner; a job is taken once and whole; nobody sleeps on work |
| RecKeep, EMAKeep (`server/datakeep.*`) | pool and archive directories, `ema.cfg`, the archive under way, table of digests | `start`, `add`, `transact`, `end` | a crash between any two file operations, repair at the next start, duplicates | numbers are never reused, records are never lost or doubled, archives are whole |
| WghtKeep (`server/datakeep.*`) | newest weight, list of digests | `start`, poll, `get_pw`, `get_crc64` | a new weight while connections download the old one; map read by another thread | one connection sees one weight |
| Listen (`server/listen.*`) | per-connection automaton, per-address ring of accept times, deny and ignore lists | `handle_connect`, `handle_recv`, `handle_send`, `wait` | protocol sequences, limits, timeouts, resources of refused connections | limits hold; a refused connection costs nothing; only announced weights are sent |
| Logger (`server/logging.*`) | log file, numbered archives | `out`, rotation | restart between rotation steps | no log archive is overwritten |
| Client (`autousi/client.*`) | weight directory: information file, blocks, weights; retry counters | `get_new_wght`, `reader`, `sender`, `start`, `end` | broken connections, resumption after a crash, a weight that changes on the server between attempts | a weight file is one weight, whole; a record is sent, or counted as discarded; the sender goes on whatever the server does |
| PlayManager, USIEngine (`autousi/play.*`) | engines, their games, the weight in use | `start`, `manage_play`, `update`, `end` | engines at different moments of a game when a weight arrives; death of an engine | no move of a game is computed by two weights; every engine goes on |
| NNetService, NNetIPC (`common/nnet-srv.*`, `nnet-ipc.*`) | queue of entries, shared memory, semaphores | Register, FeedForward, NNReset, End, flush of partial batches | producer/consumer across processes, reset while requests wait | each request is answered once, to who asked |
| Child, Reader (`common/child.*`) | pipe, line buffer, hand-off flags | `getline_*`, `close`, `wait` | hand-off between a reading and a consuming thread, end of file | lines arrive once and in order |
| HashTable (`common/hashtbl.hpp`) | hash chains, LRU list, unused list | `operator[]`, `at`, `reset` | eviction of an entry that is in the chain being searched | it is a map that forgets the least recently used key |
| Node, records (`common/shogibase.*`, `autousi/play.*`, `server/datakeep.*`) | the positions of a game, runs of checks | `take_action`, `update`, `examine_record` | three pieces of code that must agree on how a game ended | the server finds the winner that the client saw |
| aobaz (`src/usi-engine/bona/ysszero.cpp`) | tree of nodes in a table with a lock per slot, virtual losses, marks of decided moves | `uct_search_start`, `uct_tree`, `HashShogiReadLock`, `hash_half_del` | threads that release a node's lock between reading and writing it | counts are exact, marks are true, one position has one node |

## 2. Modules

| Module | Models | Code |
|---|---|---|
| `JobStack` | what the queue between two threads promises: a bounded stack of jobs | `common/jqueue.hpp` |
| `JQueue` | slots, mutex, condition variable; implements `JobStack` | `common/jqueue.cpp`, the callers in `server/datakeep.cpp` |
| `LruMap` | what the hash table promises: a map that forgets the key asked for longest ago | `common/hashtbl.hpp` |
| `LruTable` | chains, list of use, unused entries, pointer by pointer; implements `LruMap` | `common/hashtbl.hpp` |
| `LineReader` | the hand-over of a child's lines, and the two loops that take them | `common/child.cpp`, `autousi/play.cpp` |
| `CommonProofs` | theorems about `JQueue`, `LineReader` and `LruTable`, through `MCCommon` | |
| `RecStore` | what the record store promises: a sequence that only grows at its end | `server/datakeep.cpp` |
| `RecKeep` | pool, archives, crashes, repair; uses `JobStack` for its queue; implements `RecStore` | `server/datakeep.cpp`, `common/xzi.cpp` |
| `RecKeepProofs` | theorems about `RecKeep` | |
| `WghtKeep` | the weights the server finds, lists and gives out | `server/datakeep.cpp` |
| `ConnLimit` | limits on the connections of one address | `server/listen.cpp`, `common/hashtbl.hpp` |
| `AddrList` | a list of addresses and its file | `server/listen.cpp` |
| `Logger` | the log and its archives | `server/logging.cpp` |
| `ServerProofs` | theorems about `ConnLimit`, `AddrList`, `Logger` and `WghtKeep`, through `MCServer` | |
| `Peer` | the server's end of its connections, byte by byte | `server/listen.cpp` |
| `Upload` | the client's end: sender and a download; extends `Peer` | `autousi/client.cpp`, `common/osi.cpp` |
| `WghtFetch` | the files of a download, composed with the server's side of it | `autousi/client.cpp`, `server/datakeep.cpp`, `server/listen.cpp` |
| `ClientProofs` | theorems about `WghtFetch`, `Upload` and `Peer`, through `MCClient` | |
| `NNetService` | the evaluation service, the engines that use it and the part of `manage_play()` that resets it | `common/nnet-srv.cpp`, `common/nnet-ipc.cpp`, `autousi/play.cpp` |
| `ServiceProofs` | theorems about `NNetService` | |
| `PlayManager` | games of several engines, connections and weights coming and going | `autousi/play.cpp`, `usi-engine/bona/proce.cpp` |
| `Game` | a game, its record, and the server's reading of it | `common/shogibase.cpp`, `autousi/play.cpp`, `server/datakeep.cpp` |
| `EngineRules` | the engine's own rule of repetition; used by `Game` and `UctSearch` | `usi-engine/bona/ysszero.cpp` |
| `AutousiProofs` | theorems about `PlayManager` and `Game` (with `EngineRules`), through `MCAutousi` | |
| `UctSearch` | the parallel tree search | `usi-engine/bona/ysszero.cpp` |
| `NodeTable` | the table of its nodes, slot by slot | `usi-engine/bona/ysszero.cpp` |
| `EngineProofs` | theorems about `NodeTable` and `UctSearch`, through `MCEngine` | |
| `Induction` | induction over numbers, laws of sequences, chains of sets; used by the proofs | |
| `MC...` | the modules that TLC runs | |

`MCCommon`, `MCServer`, `MCClient`, `MCAutousi` and `MCEngine` put modules that
share no state **side by side**: a variable `side`, set at the start, says which of
them runs, the others rest in one initial state, and fairness is assumed of the one
that runs. The states of such a run are the sum of those of its parts, and every
property is a property of its part alone. Modules that do share state are composed:
`Upload` with `Peer`, `WghtFetch` and `NNetService` with both of their sides, `Game`
and `UctSearch` with `EngineRules`.

**JQueue.** A thread is at a place (`pc`): outside the queue, about to take
`_m`, holding it, between a predicate that was false and the block, blocked,
about to notify. `Block` releases the mutex and joins the waiters in one step, as
`wait` does; `end()` is two steps, the store to `_bEnd` and the notification,
and takes no mutex. Any waiter may wake spuriously. `get_free()` and the copy of
the job are `Prepare`.

**LruTable.** A pointer is named by the entry it is a field of, and the pointers to
pointers (`bfp`, `used_bfp`) hold such names, so that every assignment of the code is
one here. The refinement mapping reads the list from its head.

**LineReader.** All waits have a predicate that changes under the one mutex, so a wait
is a guard. What a reader has left in its buffer is kept for the next line, as every
build of the code does, though the array is declared inside the loop.

**RecKeep.** The disk is four variables: `pool` (number to record), `left` (the files of the
pool that `_pool` no longer names), `arch` (first number to contents) and `ema`. A step is one operation on a file: a record is in
the pool after the `rename`, a cluster's files are removed one by one. `Crash` keeps
the disk and drops the rest; `Start` and the steps after it are `start()`.
`Remove` is one file of any of the three removal loops. Two of them end the process when
`remove()` fails, which is a crash; the one after the archiving of `start()`
(`datakeep.cpp:574-575`) goes on, takes the name out of `_pool` and leaves the file
(`RemoveFails`). The next `start()` finds it again (`Files`): `StartCheck` takes it back, or
refuses a pool with a hole. A game
is a model value, which stands for its text and its digest.

**WghtKeep.** The operator copies a weight in two steps and may remove it again;
`get_new_wght()` looks at one file a step and does the append, the map and the
exchange of `_pwght` one after the other. `Crash` keeps `dir` and `list`.

**ConnLimit.** One address; `OtherPeer` and `Evict` are what the others do to it.
A handled connection is one step of the only thread that touches the table:
`Deny`, `Refuse` or `Count`. `counted` is history, read by properties only.

**AddrList.** The file is its lines, of one length each, and its time of modification;
several edits may fall into one tick. `missed` is history: an edit was made that the
comparison of size and time cannot show.

**Logger.** Each file operation is a step, and `Crash` falls between any two. `replaced`
is history: the lines of an archive whose number was given out again.

**Peer, Upload.** A connection carries units: a command, a number, a part of a body or of a
block; TCP may cut the stream between any two, in both directions. `Recv` takes any number
of units and handles all the records that are whole, as the loop over the buffer does; whole records go to
`RecKeep::add()`, or, from an address that is on the ignore list at that read, to the log only
(`ignored`; the operator may change the list between any two reads). The
client's `Write` is any number of units too. The server may refuse, close, time out and the
network reset at any moment; `Fail` is every exception of `OSI::Conn`. The limit on traffic
(`_maxlen_com`) only delays the server's writes, which `Send` may do anyway. `pop()` is in steps
here too: a sender that finds the queue empty and `_bEnd` not set is about to block (`Block`), then
blocks (`Sleep`) until a notification or for no reason (`Wakeup`); `Client::end()` sets `_quit`,
then `_bEnd`, then notifies (`Quit`, `SetEnd`, `Notify`), which a sender that is not blocked
yet does not notice. `via` is history.

**WghtFetch.** A block is the weight it came from and whether its write was
completed. Info file, blocks, the gathered file and the weights are variables, so
`Kill` can leave any of them behind. `KillTears` says whether it may fall amid the
write of a block. On the server, `pinned` is the weight a connection was told of.
The conversation itself is taken for whole here; `Upload` has it byte by byte.

**NNetService.** The three threads of the service each have a place; a lock that is
held throughout makes one step. A request is "who, and which", so a result can be
compared with what was asked. The network has no weight between the reset and the
end of the load. `LateBoot` says whether a weight may arrive before every engine has
registered. A spurious wakeup may happen to both sleepers. Locks that only protect
one step (`_sem_service_lock`, `_m_srv`) are that step; `_entries_pool` holds spare
objects without contents and is left out.

**PlayManager.** An engine is its object in the manager and its process, with a queue of
commands and a queue of lines between them. What the manager does with an engine is a
function of the two (`Start`, `Update`, `EngineWghtUpdate`), applied once for each line and once for
each engine when a weight is changed, in the order of the code. A search reads the
weight of the devices (`net`). `missed` is history.

**Game.** A move is the position it leads to. `node` is `Node`, with its runs of checks
shifted by one as in the code; `PlayMove` and `PlayEnd` are the branches of
`USIEngine::update()`; `Examine` folds the lines of a record as `examine_record()` does.

**UctSearch.** A thread has the lock of one node at most, so a critical section is a
step: entering a node and selecting a move, dfpn's result, the creation of a leaf, the
parent again, the way back. The path of a thread is its stack. PUCT may choose any move
that the tests of the code let through; the value of a move is the integer
`games * value`. A node belongs to a position, whatever moves led there. The legal moves by which
a pawn, a lance, a bishop or a rook could promote and does not are `Unpromoted`: `create_node()`
gives them the value of an illegal move, so that `Moves`, what selection looks at, is without
them, while who wins (`LostPos`, `WonPos`) is decided with them. A position whose other moves all
lose and which such a move saves is `Missed`. dfpn does not generate these moves either: what it may
take for lost is `DfpnMates`, a constant.

**NodeTable.** Slots have a spin lock each; a lookup is a sequence of steps, one for each
slot, and another thread may take the free slot it has seen.

Lines that begin with "Mutation:" introduce altered copies of the definition that
follows; no specification uses them. Each stands for a plausible slip in the code
and shows that a property would notice it.

## 3. Runs

| Run | Bounds | Checks |
|---|---|---|
| `MCCommon.cfg` | queue: 2 jobs, length 2; lines: `ab`, an empty one and `c` without an end in one pipe, one line in the other, a buffer of 3; table: 4 keys, 3 of them in one chain, 3 entries | `OneOwner`, `ImplementsJobStack`, `NobodySleepsOnWork`, `EndStopsWorkerUnlessBlocking`; `LinesInOrder`, `ChildIsClosed`; `ImplementsLruMap` |
| `MCJQueueEnd.cfg` | 1 job, length 1 | `EndStopsWorker`: **violated** |
| `MCRecKeep.cfg` | cluster of 2, numbers to 4, table of 2, 2 crashes, any removal of the repair may fail, 3 good games and a bad one | `ArchivesWhole` at every point a crash can hit, `RestartFindsItsPool`, `NoDuplicateInOneLife`, `EmaFollowsStore`, that it implements `RecStore` |
| `MCRecKeepEncoder.cfg` | cluster of 2, numbers to 3 | `EncoderOpenForAppend`: **violated** |
| `MCServer.cfg` | limits 2 a second, 3 a minute, 3 to be denied, a minute of 4 seconds, 6 seconds, a clock that may be set back; 2 addresses, 2 lines, 3 ticks; archives of 2 lines, 7 lines, 3 lives; weights 0 to 2 | `RateLimited`, `DeniedOverLimit`; `StaleOnlyIfMissed`; `LinesKept`; `ServedIsKnown` |
| `MCConnLimitSockets.cfg` | limits 2, 2, 3; 2 slots | `OpenSocketsBounded`: **violated** |
| `MCClient.cfg` | download: weights of 2, 1 and 3 blocks, 2 ends of the process, 3 failures, 1 return of the server with less, 2 retries; upload: 2 games of 1 and 2 parts, buffers of 3 and 2 units, weights of 5 and 2 parts in blocks of 2, 4 connections, 1 slot, 1 retry, 1 reset, an ignore list that may change at each read, `end()` at any moment | `FilesHoldTheirWeight`, `UsesNewestFile`, `ResumeWorks`, `DownloadCatchesUp`; `RecordedOnceAndWhole`, `SentArrives`, `AnswersAsAsked`, `SenderEnds` |
| `MCWghtFetchTorn.cfg` | the download, a write may be torn | `ResumeWorks`: **violated** |
| `MCAutousi.cfg` | service: 3 engines (symmetric), batches of 2, 2 weights; games: 2 engines, games of 2 moves, 2 weights; a game: 13 moves, 8 positions, 5 openings | `AnswersOwnRequest`, `OneWghtPerSearch`; `ThinkingCounted`, `RecordNamesItsFirstWght`, `StrandedOnlyWithoutConn`; `RecordSaysGame`, `EngineAgrees` |
| `MCNNetServiceBoot.cfg` | 2 engines, a weight may come at any time | `ResetFindsServiceIdle`: **violated** |
| `MCEngine.cfg` | search: 2 threads, 3 playouts, 2 searches, dfpn at 2 games, 20 positions, 5 starts, 2 moves that are passed over; table: 3 keys, 7 slots, 2 probes, 3 searches; service: 2 engines, batches of 2, 2 weights | `VirtualLossIsThreadsBelow`, `MeanInRange`, `PlayoutsBounded`, `ExactIsTrue`, `TreeSearchEnds`; `OneNodePerSearch`; `EveryRequestAnswered`, `NewWghtUsed` |
| `MCEngineLine.cfg` | the search, from a perpetual check whose defender is to move | `ExactNotByLine`: **violated** |

Why the bounds are enough.

* *JQueue*: a stack of two tells top from bottom and full from empty; the theorems of
  section 5 hold for every length.
* *LruTable*: with three entries and three keys in one chain, the entry that is given up
  is the first, a middle or the last one of the chain that the new key goes into, or of another;
  the refinement is proved for any number of entries, keys and chains.
* *LineReader*: a buffer of three holds an end of line at its start, middle and end; `LinesInOrder`
  is proved for every text and buffer.
* *RecKeep*: with a cluster of two, five records fill two clusters and begin a third; two
  crashes let the second one hit the repair of the first; a table of two digests forgets
  one of three games.
* *ConnLimit*: the ring of four slots is written over within six seconds, and every branch of
  `handle_connect()` is taken; the theorems hold for every limit.
* *AddrList*: three ticks allow for an edit before, within and after the tick of another.
* *Logger*: seven lines fill three archives, so a later life takes the number of an earlier one.
* *WghtKeep*: of three weights, two can be new while one is given out.
* *Upload*: of the two records one fits into the server's buffer exactly and one does not;
  one slot is used again by every connection; four connections are one for the download and
  three for the two tries of each game, the last of which may be one that `connect()` refuses.
* *WghtFetch*: the weights differ in their number of blocks both ways, so blocks of one can
  be too many or too few for another; two ends of the process let the resumption itself be
  cut. Every failure counts against `MaxRetry` = 2 and three of them make a client give up.
* *NNetService*: with three engines and batches of two, one batch is full while another waits
  for company; with two engines, a batch is only full when both ask. The limit of 16 batches
  at the device is the constant `MaxWait`; no run fills the device beyond it, since that
  takes more engines than TLC can bear.
* *PlayManager*: one engine ends its game while the other goes on, and a weight arrives at
  any moment of both.
* *Game*: thirteen moves hold the third repetition of a cycle of two or of four; the openings
  put the check, the counter-check and the declaration where the repetition closes.
* *UctSearch*: two threads with three playouts meet on every edge; two orders of moves lead to
  one position; three and four earlier occurrences come before two of the roots; of the two moves that are passed over one changes
  nothing and the other is the way out of a position that the search and dfpn take for lost,
  so that a false mark is passed up to the root of its start. Two
  threads are the least with virtual losses of others, and the most TLC can bear.
* *NodeTable*: two keys collide at their home and the third at the next probe, so that holes
  come before and behind each.

Deadlock is checked, except where the program really stops: the server that has
used up its numbers, lives, lines or crashes (`MCRecKeep*`, `MCServer`), the client that
ended itself or has sent everything (`MCClient`, `MCWghtFetch*`), and the engine that has made its
searches (`MCEngine*`).

## 4. Fairness

* **JQueue**: weak fairness of each thread, since the operating system runs a
  thread that can run, and strong fairness of taking the mutex, since a thread
  is not overtaken for ever. The producer need not push, and no blocked thread
  wakes by itself: spurious wakeups are allowed and never relied on.
* **LineReader**: weak fairness of the two readers and of the main thread, whose waits have a
  time-out. The child writes what it writes and ends.
* **WghtFetch**: weak fairness of the client's own steps: the reader polls for as
  long as it lives. Failures, ends of the process and new weights are not
  fair, and they are finitely many in a run; this is the assumption of `CatchesUp`, which
  says what happens after they stop.
* **Upload**: weak fairness of the sender's thread, whose waits for the server have a time-out each,
  and of the thread that has called `end()`. The wait in `pop()` has none, and nothing is assumed that would end it:
  neither `end()` is called nor a wakeup comes by itself. Nothing is
  assumed of the server and the network. `SenderEnds` says that every game is sent or given up
  though nobody answers, after which the sender blocks in `pop()`; and that a sender
  to which `end()` comes ends, unless it stands between its test of the predicate and its block
  when `_bEnd` is set. There the notification may miss it, which is run `jqueue_end`.
* **NNetService**: weak fairness of the three threads, of every engine and of the
  main thread of autousi, for each engine's lines (`manage_play()` visits all of
  them on each pass) and for the change of weight. A search ends after a number of
  positions (`MaxSubmit`), as one with a limit on visits does.
* **UctSearch**: weak fairness of each search thread. dfpn comes back by its own limit of nodes,
  which is the fairness of `Dfpn`.
* The others are checked for safety only.

## 5. Proofs

TLAPS checks the following for every value of the constants, under the named assumptions
of each module only: every safety invariant, every property of steps and every refinement that
a passing run checks. Two kinds of theorems have one more hypothesis, which is a constant
of the model that says what may happen; a run shows that it is needed.

| Module | Assumptions | Hypothesis |
|---|---|---|
| `CommonProofs` | `QueueAssumption`: a positive length, jobs that are not `NoJob`; `LinesAssumption`: the texts are lines of letters, the end of a line is no letter, a pipe that ends amid a line has something in it, a positive buffer, room for two readers; `TableAssumption`: two entries at least, as `reset()` asserts, some key, and chains that are numbered | |
| `RecKeepProofs` | `RecKeepAssumption`: positive sizes of the cluster and of the table, `NoRec` is no record | |
| `ServerProofs` | `ConnLimitAssumption`: limits above one, as `server.cpp` requires of its options; `ServerAssumption`: no list of lines is taken for no file | |
| `ClientProofs` | `WghtFetchAssumption`: every weight has a block; `UploadAssumption`: connections, slots, buffers and lengths are numbers, blocks, games and weights are not empty, and the server's buffer for what it sends has room for two units, the number of a block and a part of it | `ResumesWhole`: `~KillTears`, see `wghtfetch_torn` |
| `AutousiProofs` | `PlayAssumption`: the number of engines is a number; `GameAssumption`: a move leads to a position of the other side to move, an opening is a line of moves in which no position comes more than three times | |
| `EngineProofs` | `TableAssumption`: homes are slots, and the steps of the probes differ from each other and are below the table's size, as primes below it do; `ThreadsAssumption`, `LimitAssumption`: finitely many threads and no more of them than playouts; `PositionsAssumption`: finitely many positions, moves lead to positions, a result is -1, 0 or 1, a search starts after a line of moves; `BoundsAssumption`: a repetition needs two earlier occurrences at least; `MateAssumption`: at a calm position (below) the mates that `is_mate_in3ply()` and dfpn find are mates | |
| `ServiceProofs` | `NNetServiceAssumption`: finitely many engines, positive sizes | all: `~LateBoot`, see `nnet_boot` |

The bounds of the models (numbers of crashes, weights, failures) are constants too, so a
theorem holds however large they are. Each invariant was first checked by TLC, on the
instance of the run and on a larger one.

**Induction.** The library's induction takes an operator as a parameter, which no installed prover
instantiates. Here what is to be proved is the *set* of the numbers for which it holds
(`AllNumbers`, from `LeastMember`, which rests on the well-foundedness of strict inclusion of
finite sets), and a recursive function is given by a step from function to function
(`Recursion`). With these, what a loop over a buffer or a record computes can be proved. `Cut`
and `Concatenation` are what the streams need, `ChainStops` what the recursions over sets of
positions need.

**CommonProofs.** For the queue `IInv` is the invariant: the types, one owner for each slot, no slot lost,
the queued slots filled, who holds the mutex agrees with where the threads are, and
the slots a thread owns are filled while it relies on that. The last two are what
makes the first four inductive: that the producer may write the prepared slot
without the mutex rests on who owns it, and that a queued slot is filled rests on
where the producer is when it queues it. From it follow `QueueTypeCorrect`,
`SlotsHaveOneOwner`, `SlotsAreKept`, and, with one lemma for the push and one for
the take, `QueueRefinement`: every step is one of `JobStack` or a stutter.

For the lines `LinesInv` says, for each reader, that the lines taken, the line in its hand, what it
has found so far, the rest of its buffer and the text not read yet are together the text of the
pipe (`Has`, and `Scanning`, `Giving`, `Holding`, `AtEnd` for where the reader is). The loop over a
buffer moves letters from the rest to the line, so it keeps this sum; a line is taken when the flags
say that it waits for this hand, and they say so for one line at a time.

For the table `TableInv` names the sequences that the pointers stand for (`TableIs`): one for each
chain and one for the entries in use, in which forward and backward pointers are each other's
inverse. Following the pointers reads these sequences (`Reads`); an entry is taken out of one by two
assignments (`Unlink`) and put at an end by two more (`LinkLast`), and on the list of
use the two are the move of a key to the end (`MovesAccess`). The hard case is an
entry that is given up while its chain is the one searched: its successor in the chain may be
where the pointer to the end is held. `TableRefinement` follows since the abstract
map is read from the sequences (`TableReads`, `ValuesRead`).

**RecKeepProofs.** The disk's part of the invariant says that the pool is a run of numbers
(`PoolIsRun`), that a number before it is in a whole archive (`GoneIsArchived`) and that a
whole archive agrees with the pool where they overlap (`ArchiveAgrees`); the process's part
says, for each place of `start()` and `transact()`, where the pool begins and ends with respect
to the clusters and what is in the archive under way (`PoolAtStart`, `PoolHasPlace`,
`StreamIsPool`). So a record that is stored under a number is the same after each step
that removes a file, writes an archive or ends the process (`StoreKept`), and one step adds
the next number (`StoreGrows`). The files that a failed removal left lie before the run and hold what
the whole archives hold (`LeftIsArchived`), so `start()` may take them back into the pool, and
a hole that it refuses is right after one of them.
`ArchivesAreWhole` and `RestartIsSafe` are parts of it,
`Refinement` to `RecStore` is `StoreKept` and `StoreGrows`, and the estimates (`EmaIsFedOnce`)
and duplicates (`NoDuplicates`) follow the sequence of records.

**ServerProofs.** For `ConnLimit`, `IInv` adds two parts to the properties. `RingTells` says
that the ring, read at `(len - n) mod` its length, gives the n-th last counted time
for every n up to its length; its step needs that two different n below the
length have different slots (`ModDiffer`, from the linear facts `NoMultiple` and
`ModRange`). `InOrder` says that times do not decrease when the clock does not
step back. `RatesHold` then follows for every choice of limits, also when the clock
steps back. `DenyListUnreachable` is about the order of the limits: `NeverDenied`
needs `RateLimited` and `InOrder`. `DeniedForCause` is a property of steps, proved from `IInv`.
`ListIsFresh` needs that no time of the file is in the future, `LinesAreKept` that the encoder
has what is in the log file but for the line being written and that the name of the next
archive is not one of this life, and `ServedAreKnown` that what was given out is in the map,
what is in the map is in the list (but for the weight being added), and the list only grows.

**ClientProofs.** For the download: `info.txt` names the weight of the blocks beside it at every moment
(`BlocksAreInfos`), and a connection gives blocks of one weight, the one the client asked for
(`OneWeight`). So the blocks that a resumed download finds are of its own weight, and they are
whole unless a write may be torn (`BlocksAreThere`): `FilesAreTrue`, and `ResumesWhole` for
the steps in which the client ends itself. `NewestInUse` needs that the weight in use is that
of the newest file at the other places too (`WidIsNewest`).

For the upload `UpInv` is about streams. What the slot of a connection has in its buffer, followed by what the
network carries, is a beginning of the stream of one record; it is the whole stream only for a game that
counts as sent over this connection, and that is not recorded yet (`Carries`, `Sends`, `Recorded`). So a
turn of the server's loop that finds a whole record finds exactly that game's and takes it once, however
the stream was cut, and as a slot starts empty nothing of an earlier connection is in front. For the
download's slot `Loads` says which question is on its way, is being answered or was answered (`Asks`,
`Unread`, `HasRead`): what has been read is the beginning of the weight that was told, and the
number in front of a block is its length also if a newer weight has come meanwhile.
From it `UploadsAreRecorded`, `UploadsArrive` and `AnswersFit`. `UploadsArrive` says recorded *or
logged as ignored*: `IgnoredAreTaken` ties the ignored records to those that were read whole.

**EngineProofs.** For the table of nodes: slots are only filled within a search, so what a lookup knows of the slots it
has passed stays true (`GoodWalk`), and the first lookup of a key that returns fixes the probe
at which the key is from then on (`Settled`). The hard part is a lookup that passed that probe
before the key was there: it remembers a free slot, which is this one or taken by then
(`LastProbed`, `ProbedBeyond`).

For the search: a node's virtual losses are counted as threads whose path takes the edge
(`Losses`, the same set for every node in `BelowOf`); a step that goes down or comes back
changes one of these sets by one thread. The mean needs the stronger fact that a move without
the threads below it is in range (`InRange`): `w + vl` against `n - vl`, which a visit changes by
one game and its result. The number of playouts needs that the threads which have seen the
threshold are as many as the playouts counted since, and start none (`Playouts`). `MeanInRange`
was first stated for the moves without a mark only; a larger instance than the run's showed
that it is not so, as a mark may be taken away again, and the property is now about the moves
where dfpn was not tried or did not find a mate.

The marks need a notion of who wins. `Decided` and `Ahead` are recursions over sets of positions that are
cut off after a number of steps; as the sets grow within a finite one they have stopped by then, so a
position is lost if and only if each of its moves leads to a won one, and what lies ahead of a position is closed
under moves. `MarksInv` says that every line of moves in a thread's hand is one of the game (`Lines`), that a mark
at a calm position is true (`TrueMarks`) and that a value on its way back tells the truth about the
position it comes from (`Tells`). A position is calm if neither a perpetual check nor a missed position lies ahead. So no move is left out there
as illegal, and a position all of whose moves that are looked at lead to won ones is a lost one, as
it is not missed (`SelectsTruly`): "no other move left" means what it says. `CalmAhead` carries this along a
line, since what lies ahead of a move lies ahead of its position. `MarksAreTrue` is `ExactIsTrue`. Neither
condition can be spared: run `engine_line` shows the first, and `ExactIsTrue` without the second fails in the
third game of `MCEngine`.

**AutousiProofs.** For the manager: `Fits` relates the manager's object of an engine, the commands and lines in its
pipes and what it does: a move that was asked for is in one place (`OneMove`), the last weight
it is told of is the devices' (`ToldLast`), and `usinewgame` is followed by its `go` with the
weight of the record (`GameBegins`). `Counts` makes `_num_thinking` the number of objects that
think, so the weight is only changed when nobody does (`MovesAreCounted`), and the record's
weight is that of the first search (`RecordsNameTheirWght`). That an engine which will say
nothing more was left for want of a connection (`SilentIsMissed`) is the invariant behind
`NoneStranded`. The loop over the engines with a line, and the one over all when the weight is
changed, keep it for each engine by itself.

For a game `GameInv` has three parts. `NodeOk`: the type that `Node` keeps of the game is what its path and
its runs of checks say, and the runs are those of the path. `GameGoesOn`: while there is no record, reading
the moves so far as the server would gives the node that the client has; the next move keeps this, as
the reading of a longer record is that of the shorter one and of its last line. `RecordSays`: what the server
finds in a finished record is what the client found (`RecordsSayTheGame`). The engine's rule looks for the last
occurrences backwards and asks whether each move between them gave check; `Node` counts occurrences and keeps
the lengths of runs. The two are
compared on a given path (`EngineAgreesWithNode`): which occurrence each of them stops at, and that a run reaches
back to it if and only if no move between was without check. It needs that the sides alternate.

**ServiceProofs.** An engine that waits has one request, and it is in one place: among the jobs,
in a batch to be filled or given, at the device, with `worker_wait` or, answered, in the
semaphore (`OnePlace`). Without it a second answer, or the answer to an earlier position, could
wake the engine. Every step of the three threads moves the requests of one job or one batch
to the next place (`HeldMoves`) and leaves the others (`HeldStays`), which needs that no number is
twice in a batch or in two batches (`EachOnce`, `Elsewhere`). `Renewal` is about the weight: who
waits thinks, nobody thinks from the reset until all go on, and until then the only job is that of the
manager (`NoRequests`, `JobTells`), so a batch is given to the device with the weight of the
games (`WeightIsWid`). `Bounds` adds that `worker_push` gives the device a batch only while it has no more
than `MaxWait`, and that a position goes into a batch with room (`ServiceTypeCorrect`). From the
invariant follow `OwnAnswers` and `OneWght`, which are about the one step that lets an engine go on
(`Wakes`), and `ResetsFindIdle`.

Only model-checked:

* Liveness (`NobodySleepsOnWork`, `EndStopsWorkerUnlessBlocking`, `ChildIsClosed`,
  `DownloadCatchesUp`, `SenderEnds`, `TreeSearchEnds`, `EveryRequestAnswered`, `NewWghtUsed`): TLAPS does
  not reason about `ENABLED` and fairness.
* The properties of the runs that end in a violation, which TLC refutes.

## 6. Where the code and its documents disagree

Each is a run that ends in a violation; TLC prints the steps.

1. **A stop that hangs** (`jqueue_end`). `end()` (`jqueue.hpp:57`) sets the flag and
   notifies without the mutex. If the worker has just found the queue empty and
   has not blocked yet, nobody wakes it, and `join()` waits. `README_en.md:49` says that the
   program stops after a while. A stop takes effect surely when the worker is
   elsewhere: `EndStopsWorkerUnlessBlocking`.
2. **A restart that never ends** (`reckeep_encoder`). A server that was stopped after
   a cluster became complete and before its pool files were gone archives it again at
   the next start, with the encoder that then has to go on with the archive
   under way (`datakeep.cpp:550-600`); `xzi.cpp:86` asserts that this does not happen.
3. **Sockets that stay open** (`connlimit_sockets`). `listen.cpp:325` and `:330` return
   without closing; `server.cfg:4` says what bounds the connections.
4. **A torn block** (`wghtfetch_torn`). A block file is written in place
   (`client.cpp:208`) and trusted later (`client.cpp:185-192`); `CHANGELOG.md:14` lists
   the resumption of downloads as working.
5. **A weight during the start** (`nnet_boot`). `manage_play()` takes an engine that has
   not registered yet for one that does not think (`play.cpp:790`), and the service
   dies of its own check (`nnet-srv.cpp:217`).
6. **A mark by the line of moves** (`engine_line`). A move that is perpetual check after one
   line of moves is left out there (`ysszero.cpp:2026-2093`); if no other is left, the move
   before is marked as a win (`:2000`) in a node that every line shares. `shogi.h:147` says
   that marks that depend on the sequence are off. Where no perpetual check can
   arise, and no position is missed (below), the marks are true: `ExactIsTrue`, theorem
   `MarksAreTrue`.

What the models also show.

* The assertion of `datakeep.cpp:581` does not hold for a pool of exactly one cluster, which
  the server leaves whenever it stops between the last record of a cluster and the next
  (`StartTail` is then taken with as many records); builds define `NDEBUG` by default, and
  nothing else depends on it.
* A `remove()` that fails after `start()` has archived a cluster (`datakeep.cpp:575`, an `ERR_CLL`
  without `die`) leaves a file that the next `start()` may find with a hole behind it, and refuse
  (`:522`): the server then does not start until somebody removes the file. No record is lost, as
  `RestartFindsItsPool` says: the file's record is in a whole archive.
* A game from an address on the ignore list counts as sent at the client; the server reads it
  whole, logs it and does not record it (`listen.cpp:481`).
* `end()` may leave the sender in `pop()` for the same reason as the workers of the server (1. above);
  `Client::end()` then waits in `join()`.
* A position whose only way out is a move that `create_node()` passes over counts as lost, and the move
  that leads to it is marked as a win in a node that is shared (`ysszero.cpp:1997`); the comment at
  `:1651` names the case, a mate by a dropped pawn. `Missed` says where, and `Calm` how far up it is felt.
* With the defaults no address is ever put into the deny list (theorem
  `DenyListUnreachable`), since a refused connection is not counted and `CutConnPerAddrMin`
  is above `MaxConnPerAddrMin`.
* The `wait()` after `nnreset()` is not needed for the order of weights and requests: jobs are
  taken in their order, and the thread that loads the weight is the one that takes them.
* The numbers of log archives start from 0 in every life, as the pattern that is scanned
  (`logging.cpp:21`) is not that of the names (`:19`). `LinesKept` holds but for the
  archives that are replaced in this way.
* An engine whose game ends while there is no connection waits for a new weight, not for the
  connection (`play.cpp:777` is reached for an engine that has a line only):
  `StrandedOnlyWithoutConn` says that this is the one way to be left alone.
* The engine's rule of repetition differs from `Node`'s in two places that `EngineAgrees` names: it
  leaves a perpetual check out one repetition earlier, and takes a perpetual check that ends in
  a counter-check for a draw (`ysszero.cpp:2057`), where `Node` lets the checking side lose.
* A record longer than the server's buffer (the client allows 1 MiB, `client.cpp:59`) counts
  as sent and is dropped by the server; `SentArrives` speaks of those that fit. The game that
  the sender has in hand at `end()` is neither sent nor counted as lost.

## 7. What is not modelled

* Of the engine (`src/usi-engine`): the choice of PUCT, noise, the choice of the move to play,
  time control beyond "the main thread may stop", dfpn (taken for an oracle that may find any of
  `DfpnMates`), the branch for two positions with one hash (`ysszero.cpp:2003-2012`, met once in 170000
  games by its comment), the deletion of nodes by their age (`hash_half_del()` deletes all of them or
  none in `UctSearch`; `NodeTable` has it slot by slot), the evaluation cache and the thread pool of Leela Zero, opening book, USI input
  while thinking. It is about 60,000 lines, most of them Bonanza's and Leela Zero's, tables of
  attacks and kernels among them: sequential code over large data. This, the networks and
  the training code (`src/learn`) are about four fifths of the repository's lines, so the share of the lines
  that the modules stand for is small though the protocols between threads, processes and
  machines are covered.
* The tables of `Board` (attacks, pins, generation of moves), the networks and their kernels,
  compression itself, the wrappers of the operating system.
* Training, tools of one pass (`extract`, `gencode`, `net-test`, `ocldevs`, `crc64`,
  `playshogi`) and vendored code.
* Of what is modelled: a crash of the machine (what was given to the file system
  may be lost), failures of single system calls that end the process at once
  (they are crashes; the removals of `start()` and `transact()` that `die()` are among them), several devices, the destructor of the service, a `send()` of the server that
  fails otherwise than by a reset (`listen.cpp:438`, the process ends).
* `_map_wght` is written by the worker (`datakeep.cpp:404`) while the main thread searches it
  (`:375` by way of `get_crc64`) without a common lock. `WghtKeep` has it change in one step; what a
  search of a `std::map` amid an insertion may do is not modelled.
* Requests that the client never makes: a block that starts just at the end of a weight
  (`listen.cpp:515`, which the assertion of `:416` then meets), a record of length 0 (`:473`), two
  commands sent at once (`:525`). `Peer` takes them as the code does; no peer in `Upload` sends them.
* The components with status *partly* or *not_modelled* in `PROJECT.json`.

## 8. Plan

1. `Listen` as a whole: `ConnLimit`, `AddrList` and `Peer` composed, so that a refusal and the end of a
   connection give a slot back, with an abstract specification of what an address may have open.
2. `_map_wght` as a tree under insertion while it is searched, as a nondeterministic outcome.
3. Several devices and the destructor of the service.
4. The engine's evaluation cache and thread pool.
