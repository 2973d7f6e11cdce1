---------------------------- MODULE NNetService ----------------------------
(***************************************************************************)
(* The service of a network (src/common/nnet-srv.cpp), the engines that    *)
(* use it through shared memory (src/common/nnet-ipc.cpp) and what         *)
(* PlayManager::manage_play() asks of it (src/autousi/play.cpp).           *)
(*                                                                         *)
(* An engine registers when it starts: it takes the next number of         *)
(* id_ipc_next and from then on shares the memory and the semaphore of     *)
(* that number with the service.  It leaves a position there, appends a    *)
(* job to those of the service and sleeps on the semaphore.  Three threads *)
(* serve: worker_srv takes the jobs and puts positions into a batch,       *)
(* worker_push gives batches to the device, also one that is not full when *)
(* the device has nothing to do, and worker_wait returns the results.      *)
(* A new weight is loaded by a job too, when no engine thinks.             *)
(***************************************************************************)
EXTENDS Integers, Sequences, FiniteSets, TLC

CONSTANTS
  Engines,    \* the engines of the device; nipc is their number
  SizeBatch,  \* _size_batch
  MaxWait,    \* batches the device may hold (16 in the code)
  LateBoot,   \* a new weight may come before every engine has said usiok
  MaxWght,    \* bound: the last weight
  MaxSubmit   \* bound: positions an engine has evaluated for one move

ASSUME NNetServiceAssumption ==
  /\ IsFiniteSet(Engines) /\ Engines # {}
  /\ SizeBatch \in Nat \ {0} /\ MaxWait \in Nat \ {0}
  /\ LateBoot \in BOOLEAN
  /\ MaxWght \in Nat /\ MaxSubmit \in Nat \ {0}

Nipc == Cardinality(Engines)
Ids == 0 .. Nipc - 1
NoId == -1
NoWght == -1   \* a network that has not loaded its weight yet
Controller == "controller"

VARIABLES
  \* shared memory and semaphores
  id_ipc_next,  \* SharedService::id_ipc_next
  jobs,         \* SharedService::jobs; _sem_service counts them
  given,        \* SharedIPC: the position an engine left (here: who asks, and which)
  result,       \* SharedIPC: what was returned (here: for which position, by which weight)
  sem,          \* _sem_ipc
  \* the service
  srv,          \* where worker_srv is
  pusher,       \* where worker_push is
  waiter,       \* where worker_wait is
  entries_push, \* _entries_push: the batches to fill or give, each a sequence of
                \* ids and copies of what was left
  entries_wait, \* _entries_wait: the batches the device works at
  pe_push,      \* the batch worker_push is at
  pe_wait,      \* the batch worker_wait is at
  net,          \* the weight of _pnnet
  flag_srv,     \* _flag_srv
  \* an engine
  at,           \* where it is
  id,           \* its _id
  count,        \* positions evaluated for this move
  \* manage_play()
  ctl,          \* where it is
  wid,          \* PlayManager::_wid
  latest,       \* the client's weight
  thinking      \* the engines with _flag_thinking

shm == <<id_ipc_next, jobs, given, result, sem>>
queues == <<entries_push, entries_wait, pe_push, pe_wait>>
workers == <<srv, pusher, waiter>>
engine == <<at, id, count>>
manager == <<ctl, wid, latest, thinking>>
vars == <<shm, queues, workers, net, flag_srv, engine, manager>>

Init ==
  /\ id_ipc_next = 0 /\ jobs = <<>>
  /\ given = [i \in Ids |-> <<>>] /\ result = [i \in Ids |-> [what |-> <<>>, wght |-> NoWght]]
  /\ sem = [i \in Ids |-> 0]
  /\ srv = "take" /\ pusher = "check" /\ waiter = "check"
  /\ entries_push = <<>> /\ entries_wait = <<>> /\ pe_push = <<>> /\ pe_wait = <<>>
  /\ net = 0 /\ flag_srv = FALSE
  /\ at = [e \in Engines |-> "boot"] /\ id = [e \in Engines |-> NoId]
  /\ count = [e \in Engines |-> 0]
  /\ ctl = "free" /\ wid = 0 /\ latest = 0 /\ thinking = {}

EngineAt(e, label) == at' = [at EXCEPT ![e] = label]
Job(type, i) == [type |-> type, id |-> i]
Submit(type, i) == jobs' = Append(jobs, Job(type, i))

-----------------------------------------------------------------------------
(* An engine: NNetIPC, and the search that uses it.                        *)

\* Mutation: without the lock the increment is lost.
TakeIdShared(e) ==
  /\ at[e] = "boot"
  /\ id' = [id EXCEPT ![e] = id_ipc_next]
  /\ EngineAt(e, "named")
  /\ UNCHANGED <<shm, queues, workers, net, flag_srv, count, manager>>

\* NNetIPC::start(): the next number...
TakeId(e) ==
  /\ at[e] = "boot"
  /\ id' = [id EXCEPT ![e] = id_ipc_next]
  /\ id_ipc_next' = id_ipc_next + 1
  /\ EngineAt(e, "named")
  /\ UNCHANGED <<jobs, given, result, sem, queues, workers, net, flag_srv, count, manager>>

\* ... and the job that registers it.
Register(e) ==
  /\ at[e] = "named"
  /\ Submit("Register", id[e])
  /\ EngineAt(e, "registering")
  /\ UNCHANGED <<id_ipc_next, given, result, sem, queues, workers, net, flag_srv, id, count, manager>>

Registered(e) ==
  /\ at[e] = "registering"
  /\ 0 < sem[id[e]]
  /\ sem' = [sem EXCEPT ![id[e]] = @ - 1]
  /\ EngineAt(e, "idle")
  /\ UNCHANGED <<id_ipc_next, jobs, given, result, queues, workers, net, flag_srv, id, count, manager>>

\* submit_block()
SubmitBlock(e) ==
  /\ at[e] = "search"
  /\ count[e] < MaxSubmit
  /\ count' = [count EXCEPT ![e] = @ + 1]
  /\ given' = [given EXCEPT ![id[e]] = <<e, count[e] + 1>>]
  /\ Submit("FeedForward", id[e])
  /\ EngineAt(e, "blocked")
  /\ UNCHANGED <<id_ipc_next, result, sem, queues, workers, net, flag_srv, id, manager>>

Answered(e) ==
  /\ at[e] = "blocked"
  /\ 0 < sem[id[e]]
  /\ sem' = [sem EXCEPT ![id[e]] = @ - 1]
  /\ EngineAt(e, "search")
  /\ UNCHANGED <<id_ipc_next, jobs, given, result, queues, workers, net, flag_srv, id, count, manager>>

\* The search ends and the engine writes bestmove.
BestMove(e) ==
  /\ at[e] = "search"
  /\ 0 < count[e]
  /\ EngineAt(e, "moved")
  /\ UNCHANGED <<shm, queues, workers, net, flag_srv, id, count, manager>>

-----------------------------------------------------------------------------
(* worker_srv().                                                           *)

Take(type) ==
  /\ srv = "take"
  /\ jobs # <<>>
  /\ Head(jobs).type = type
  /\ jobs' = Tail(jobs)

SrvRegister ==
  /\ Take("Register")
  /\ sem' = [sem EXCEPT ![Head(jobs).id] = @ + 1]
  /\ UNCHANGED <<id_ipc_next, given, result, queues, workers, net, flag_srv, engine, manager>>

SrvNOP ==
  /\ Take("NOP")
  /\ flag_srv' = TRUE
  /\ UNCHANGED <<id_ipc_next, given, result, sem, queues, workers, net, engine, manager>>

LastIsFull(q) == q # <<>> /\ Len(q[Len(q)]) = SizeBatch

\* The batches with room in the last.
OpenBatch ==
  IF entries_push = <<>> \/ LastIsFull(entries_push) THEN Append(entries_push, <<>>) ELSE entries_push

\* A position goes into the last batch.  Is worker_push to be notified?
SrvFeedForward ==
  /\ Take("FeedForward")
  /\ LET i == Head(jobs).id
         filled == [OpenBatch EXCEPT ![Len(OpenBatch)] = Append(@, [id |-> i, what |-> given[i]])]
     IN /\ entries_push' = filled
        /\ srv' = IF entries_push = <<>> \/ (Len(filled) = 1 /\ LastIsFull(filled))
                  THEN "notify" ELSE "take"
  /\ UNCHANGED <<id_ipc_next, given, result, sem, pusher, waiter, entries_wait, pe_push, pe_wait,
                 net, flag_srv, engine, manager>>

\* notify_one() wakes the thread if it sleeps.
Woken(thread) == IF thread = "asleep" THEN "check" ELSE thread

SrvNotify ==
  /\ srv = "notify"
  /\ pusher' = Woken(pusher)
  /\ srv' = "take"
  /\ UNCHANGED <<shm, queues, waiter, net, flag_srv, engine, manager>>

\* A reset wants nothing in the queues and no job waiting; otherwise die().  The
\* numbers start anew, and so does the network.
SrvReset ==
  /\ Take("NNReset")
  /\ IF entries_push # <<>> \/ entries_wait # <<>> THEN srv' = "died" /\ UNCHANGED <<id_ipc_next, flag_srv>>
     ELSE /\ id_ipc_next' = 0
          /\ IF Tail(jobs) # <<>> THEN srv' = "died" /\ UNCHANGED flag_srv
             ELSE srv' = "load" /\ flag_srv' = TRUE
  /\ net' = IF srv' = "load" THEN NoWght ELSE net
  /\ UNCHANGED <<given, result, sem, queues, pusher, waiter, engine, manager>>

\* NNetOCL::reset(), NNetCPU::reset()
SrvLoad ==
  /\ srv = "load"
  /\ net' = latest
  /\ srv' = "take"
  /\ UNCHANGED <<shm, queues, pusher, waiter, flag_srv, engine, manager>>

-----------------------------------------------------------------------------
(* worker_push() and worker_wait().                                        *)

\* The predicate of _cv_entries_push.
MayPush ==
  /\ entries_push # <<>>
  /\ Len(entries_wait) <= MaxWait
  /\ entries_wait = <<>> \/ Len(entries_push[1]) = SizeBatch

PushCheck ==
  /\ pusher = "check"
  /\ IF MayPush
     THEN /\ pe_push' = entries_push[1]
          /\ entries_push' = Tail(entries_push)
          /\ pusher' = "push"
     ELSE pusher' = "asleep" /\ UNCHANGED <<pe_push, entries_push>>
  /\ UNCHANGED <<shm, srv, waiter, entries_wait, pe_wait, net, flag_srv, engine, manager>>

\* push_ff(): the device evaluates the batch with the weight it has now.
Evaluated(batch) == [n \in DOMAIN batch |-> [id |-> batch[n].id, what |-> batch[n].what, wght |-> net]]

PushToDevice ==
  /\ pusher = "push"
  /\ entries_wait' = Append(entries_wait, Evaluated(pe_push))
  /\ pe_push' = <<>>
  /\ pusher' = "notify"
  /\ UNCHANGED <<shm, srv, waiter, entries_push, pe_wait, net, flag_srv, engine, manager>>

PushNotify ==
  /\ pusher = "notify"
  /\ waiter' = Woken(waiter)
  /\ pusher' = "check"
  /\ UNCHANGED <<shm, queues, srv, net, flag_srv, engine, manager>>

WaitCheck ==
  /\ waiter = "check"
  /\ IF entries_wait # <<>>
     THEN /\ pe_wait' = entries_wait[1]
          /\ entries_wait' = Tail(entries_wait)
          /\ waiter' = "wait"
     ELSE waiter' = "asleep" /\ UNCHANGED <<pe_wait, entries_wait>>
  /\ UNCHANGED <<shm, srv, pusher, entries_push, pe_push, net, flag_srv, engine, manager>>

\* wait_ff(): the results one by one, each with its semaphore.
WaitAnswer ==
  /\ waiter = "wait"
  /\ pe_wait # <<>>
  /\ LET r == Head(pe_wait)
     IN /\ result' = [result EXCEPT ![r.id] = [what |-> r.what, wght |-> r.wght]]
        /\ sem' = [sem EXCEPT ![r.id] = @ + 1]
  /\ pe_wait' = Tail(pe_wait)
  /\ UNCHANGED <<id_ipc_next, jobs, given, workers, entries_push, entries_wait, pe_push, net, flag_srv,
                 engine, manager>>

WaitPool ==
  /\ waiter = "wait"
  /\ pe_wait = <<>>
  /\ waiter' = "notify"
  /\ UNCHANGED <<shm, queues, srv, pusher, net, flag_srv, engine, manager>>

\* Mutation: worker_wait does not tell worker_push that the device is idle.
WaitSilent ==
  /\ waiter = "notify"
  /\ waiter' = "check"
  /\ UNCHANGED <<shm, queues, srv, pusher, net, flag_srv, engine, manager>>

WaitNotify ==
  /\ waiter = "notify"
  /\ pusher' = Woken(pusher)
  /\ waiter' = "check"
  /\ UNCHANGED <<shm, queues, srv, net, flag_srv, engine, manager>>

\* std::condition_variable may wake a thread for no reason.
SpuriousWakeup ==
  /\ pusher = "asleep" \/ waiter = "asleep"
  /\ \/ pusher' = Woken(pusher) /\ UNCHANGED waiter
     \/ waiter' = Woken(waiter) /\ UNCHANGED pusher
  /\ UNCHANGED <<shm, queues, srv, net, flag_srv, engine, manager>>

-----------------------------------------------------------------------------
(* manage_play(): one engine after the other, and the weight.              *)

\* Mutation: the engine is not taken off _num_thinking.
NotThinkingForgotten(e) == thinking

NotThinking(e) == thinking \ {e}

\* A line of the engine, usiok or bestmove, is read; it goes on if its weight is the
\* newest.  (A game that ended is followed by the next.)
Line(e) ==
  /\ ctl = "free"
  /\ at[e] \in {"idle", "moved"}
  /\ IF wid = latest
     THEN /\ EngineAt(e, "search")
          /\ count' = [count EXCEPT ![e] = 0]
          /\ thinking' = thinking \cup {e}
     ELSE /\ EngineAt(e, "stopped")
          /\ thinking' = NotThinking(e)
          /\ UNCHANGED count
  /\ UNCHANGED <<shm, queues, workers, net, flag_srv, id, ctl, wid, latest>>

\* The client has a new weight.
NewWght ==
  /\ ctl = "free"
  /\ latest < MaxWght
  /\ LateBoot \/ \A e \in Engines : at[e] \notin {"boot", "named", "registering"}
  /\ latest' = latest + 1
  /\ UNCHANGED <<shm, queues, workers, net, flag_srv, engine, ctl, wid, thinking>>

\* Mutation: the engines that think are not waited for.
QuietAlways == TRUE

Quiet == thinking = {}

\* nnreset(): when _num_thinking is 0.
NNReset ==
  /\ ctl = "free"
  /\ wid # latest
  /\ Quiet
  /\ wid' = latest
  /\ Submit("NNReset", NoId)
  /\ ctl' = "resetting"
  /\ UNCHANGED <<id_ipc_next, given, result, sem, queues, workers, net, flag_srv, engine, latest, thinking>>

\* The engines that stopped go on.
Resume ==
  /\ thinking' = {e \in Engines : at[e] = "stopped"}
  /\ at' = [e \in Engines |-> IF at[e] = "stopped" THEN "search" ELSE at[e]]
  /\ count' = [e \in Engines |-> IF at[e] = "stopped" THEN 0 ELSE count[e]]
  /\ ctl' = "free"

\* The flag is up; wait() follows.
NNWait ==
  /\ ctl = "resetting"
  /\ flag_srv
  /\ flag_srv' = FALSE
  /\ Submit("NOP", NoId)
  /\ ctl' = "waiting"
  /\ UNCHANGED <<id_ipc_next, given, result, sem, queues, workers, net, engine, wid, latest, thinking>>

\* wait() is over.
NNGo ==
  /\ ctl = "waiting"
  /\ flag_srv
  /\ flag_srv' = FALSE
  /\ Resume
  /\ UNCHANGED <<shm, queues, workers, net, id, wid, latest>>

-----------------------------------------------------------------------------
EngineStep(e) ==
  TakeId(e) \/ Register(e) \/ Registered(e) \/ SubmitBlock(e) \/ Answered(e) \/ BestMove(e)
SrvStep == SrvRegister \/ SrvNOP \/ SrvFeedForward \/ SrvNotify \/ SrvReset \/ SrvLoad
PushStep == PushCheck \/ PushToDevice \/ PushNotify
WaitStep == WaitCheck \/ WaitAnswer \/ WaitPool \/ WaitNotify
WghtStep == NNReset \/ NNWait \/ NNGo

Next ==
  \/ \E e \in Engines : EngineStep(e) \/ Line(e)
  \/ SrvStep \/ PushStep \/ WaitStep \/ SpuriousWakeup
  \/ NewWght \/ WghtStep

Spec == Init /\ [][Next]_vars

\* Every thread and every process gets its turn, and manage_play() reads the lines of
\* every engine.  A search ends, here after MaxSubmit positions at the latest.
Fairness ==
  /\ \A e \in Engines : WF_vars(EngineStep(e)) /\ WF_vars(Line(e))
  /\ WF_vars(SrvStep) /\ WF_vars(PushStep) /\ WF_vars(WaitStep)
  /\ WF_vars(WghtStep)

FairSpec == Spec /\ Fairness

-----------------------------------------------------------------------------
(* Properties.                                                             *)

\* Types of the variables.
TypeOK ==
  /\ id_ipc_next \in 0 .. Nipc
  /\ \A n \in DOMAIN jobs : jobs[n].type \in {"Register", "FeedForward", "NNReset", "NOP"}
                            /\ jobs[n].id \in Ids \cup {NoId}
  /\ DOMAIN given = Ids /\ DOMAIN result = Ids
  /\ sem \in [Ids -> 0 .. 1]
  /\ srv \in {"take", "notify", "load", "died"}
  /\ pusher \in {"check", "asleep", "push", "notify"}
  /\ waiter \in {"check", "asleep", "wait", "notify"}
  /\ \A n \in DOMAIN entries_push : Len(entries_push[n]) \in 1 .. SizeBatch
  /\ Len(entries_wait) <= MaxWait + 1
  /\ net \in {NoWght} \cup 0 .. MaxWght /\ wid \in 0 .. MaxWght /\ latest \in 0 .. MaxWght
  /\ flag_srv \in BOOLEAN
  /\ at \in [Engines -> {"boot", "named", "registering", "idle", "search", "blocked", "moved", "stopped"}]
  /\ id \in [Engines -> Ids \cup {NoId}]
  /\ count \in [Engines -> 0 .. MaxSubmit]
  /\ ctl \in {"free", "resetting", "waiting"}
  /\ thinking \subseteq Engines

\* What an engine finds when its semaphore lets it go is the result for the position
\* it left, though batches of several engines are under way and their memory is used
\* again: one number, one engine.
AnswersOwnRequest ==
  [][\A e \in Engines : at[e] = "blocked" /\ at'[e] = "search" =>
       result[id[e]].what = <<e, count[e]>>]_vars

\* All positions of a search are evaluated by one weight, the one the record of the
\* game is updated with: a reset never happens amid a search.
OneWghtPerSearch ==
  [][\A e \in Engines : at[e] = "blocked" /\ at'[e] = "search" => result[id[e]].wght = wid]_vars

\* The service does not die of its own check that it is idle when it is reset
\* (nnet-srv.cpp:189-199, "Internal Error").
ResetFindsServiceIdle == srv # "died"

\* An engine that waits for a result gets it, also when its batch never fills: a batch
\* that is not full goes out when the device is idle, and no notification is lost.
EveryRequestAnswered == \A e \in Engines : at[e] = "blocked" ~> at[e] # "blocked"

\* A new weight comes into use, and every engine thinks again.
NewWghtUsed == wid # latest ~> (wid = latest /\ ctl = "free")
=============================================================================
