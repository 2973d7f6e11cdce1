------------------------------- MODULE JQueue -------------------------------
(***************************************************************************)
(* src/common/jqueue.hpp and jqueue.cpp: the queue of jobs between the     *)
(* main thread (the producer: RecKeep::add, Client::add_rec) and a worker  *)
(* thread (the consumer: RecKeep::worker, Client::sender).                 *)
(*                                                                         *)
(* The queue owns maxlen + 2 slots: those of _pT_free and of _pT_queue,    *)
(* the one the producer prepares (_pT_inprep) and the one the consumer     *)
(* works on (_pT_inuse).  Both pointer arrays are used as stacks.          *)
(*                                                                         *)
(* A step of this module is what a thread does between two points where    *)
(* the other one can see or change something: taking _m, evaluating the    *)
(* predicate of _cv.wait under _m, blocking (which releases _m), notifying *)
(* after the unlock.  end() changes _bEnd without taking _m, so it may     *)
(* fall between the consumer's evaluation of the predicate and its block.  *)
(***************************************************************************)
EXTENDS Naturals, Sequences

CONSTANTS Jobs,         \* the contents a job may have
          NoJob,        \* the content of a slot after Job::reset()
          MaxlenQueue   \* the constructor's maxlen_queue

ASSUME QueueAssumption ==
  /\ MaxlenQueue \in Nat \ {0}
  /\ NoJob \notin Jobs

VARIABLES
  slots,      \* _T_slots: the content of each slot
  pT_free,    \* _pT_free[0 .. _len_free - 1]
  pT_queue,   \* _pT_queue[0 .. _len_queue - 1]
  pT_inuse,   \* the consumer's slot
  pT_inprep,  \* the producer's slot
  bEnd,       \* _bEnd
  mutex,      \* the thread that holds _m, or Nobody
  waiting,    \* the threads blocked in _cv.wait
  pc          \* where each thread is

vars == <<slots, pT_free, pT_queue, pT_inuse, pT_inprep, bEnd, mutex, waiting, pc>>
pointers == <<pT_free, pT_queue, pT_inuse, pT_inprep>>

Producer == "producer"
Consumer == "consumer"
Nobody == "nobody"
Threads == {Producer, Consumer}

Slots == 1 .. MaxlenQueue + 2

\* Where a thread can be.  "outside": not in a method of the queue (the producer
\* is free, the consumer works on its job); "lock": about to take _m; "check":
\* holds _m, about to evaluate the predicate; "block": the predicate was false,
\* _m not yet released; "wait": blocked; "notify": _m released, notify_one() to
\* call; "ending": _bEnd set, notify_one() to call; "done": the consumer has
\* left its loop, or the producer has joined it.
ProducerAt == {"outside", "lock", "check", "block", "wait", "notify", "ending", "joining", "done"}
ConsumerAt == {"outside", "lock", "check", "block", "wait", "notify", "done"}

AllFree == [i \in 1 .. MaxlenQueue |-> i]

Init ==
  /\ slots = [s \in Slots |-> NoJob]
  /\ pT_free = AllFree
  /\ pT_queue = <<>>
  /\ pT_inuse = MaxlenQueue + 1
  /\ pT_inprep = MaxlenQueue + 2
  /\ bEnd = FALSE
  /\ mutex = Nobody
  /\ waiting = {}
  /\ pc = [t \in Threads |-> IF t = Producer THEN "outside" ELSE "lock"]

-----------------------------------------------------------------------------
(* Both methods take _m, and both wait on _cv.                             *)

Goto(t, label) == pc' = [pc EXCEPT ![t] = label]

Lock(t) ==
  /\ pc[t] = "lock"
  /\ mutex = Nobody
  /\ mutex' = t
  /\ Goto(t, "check")
  /\ UNCHANGED <<slots, pointers, bEnd, waiting>>

\* _cv.wait releases _m and blocks in one step, but only after the predicate
\* has been evaluated.
Block(t) ==
  /\ pc[t] = "block"
  /\ mutex' = Nobody
  /\ waiting' = waiting \cup {t}
  /\ Goto(t, "wait")
  /\ UNCHANGED <<slots, pointers, bEnd>>

\* A thread leaves _cv.wait because it was notified or for no reason; it takes
\* _m again and evaluates the predicate again.
SpuriousWakeup(t) ==
  /\ t \in waiting
  /\ waiting' = waiting \ {t}
  /\ Goto(t, "lock")
  /\ UNCHANGED <<slots, pointers, bEnd, mutex>>

\* Mutation: nobody is notified.
NotifyNobody(t, label) ==
  /\ Goto(t, label)
  /\ UNCHANGED <<slots, pointers, bEnd, mutex, waiting>>

\* notify_one() by thread t, which then goes to label.
NotifyOne(t, label) ==
  /\ \/ /\ waiting = {}
        /\ Goto(t, label)
        /\ UNCHANGED waiting
     \/ \E w \in waiting :
          /\ waiting' = waiting \ {w}
          /\ pc' = [pc EXCEPT ![w] = "lock", ![t] = label]
  /\ UNCHANGED <<slots, pointers, bEnd, mutex>>

-----------------------------------------------------------------------------
(* The producer.                                                           *)

\* get_free() and what its callers do with the slot: reset(len), memcpy.
Prepare(j) ==
  /\ pc[Producer] = "outside"
  /\ ~bEnd
  /\ slots' = [slots EXCEPT ![pT_inprep] = j]
  /\ Goto(Producer, "lock")
  /\ UNCHANGED <<pointers, bEnd, mutex, waiting>>

Pushed == pT_inprep

\* push_free(): the predicate held, the prepared slot goes on the stack.
PushFree ==
  /\ pc[Producer] = "check"
  /\ Len(pT_queue) < MaxlenQueue
  /\ pT_queue' = Append(pT_queue, Pushed)
  /\ pT_inprep' = pT_free[Len(pT_free)]
  /\ pT_free' = SubSeq(pT_free, 1, Len(pT_free) - 1)
  /\ mutex' = Nobody
  /\ Goto(Producer, "notify")
  /\ UNCHANGED <<slots, pT_inuse, bEnd, waiting>>

PushFull ==
  /\ pc[Producer] = "check"
  /\ Len(pT_queue) = MaxlenQueue
  /\ Goto(Producer, "block")
  /\ UNCHANGED <<slots, pointers, bEnd, mutex, waiting>>

PushNotify ==
  /\ pc[Producer] = "notify"
  /\ NotifyOne(Producer, "outside")

\* end(), called by the thread that pushes, once (RecKeep::end, Client::end).
End ==
  /\ pc[Producer] = "outside"
  /\ ~bEnd
  /\ bEnd' = TRUE
  /\ Goto(Producer, "ending")
  /\ UNCHANGED <<slots, pointers, mutex, waiting>>

EndNotify ==
  /\ pc[Producer] = "ending"
  /\ NotifyOne(Producer, "joining")

\* _thread.join() of the callers of end().
Join ==
  /\ pc[Producer] = "joining"
  /\ pc[Consumer] = "done"
  /\ Goto(Producer, "done")
  /\ UNCHANGED <<slots, pointers, bEnd, mutex, waiting>>

-----------------------------------------------------------------------------
(* The consumer.                                                           *)

\* Mutation: the two assignments of pop() in the other order.
FreedSwapped == Append(pT_free, pT_queue[Len(pT_queue)])

Freed == Append(pT_free, pT_inuse)

\* pop(): a job is there.  The slot of the last job becomes free.
PopJob ==
  /\ pc[Consumer] = "check"
  /\ ~bEnd
  /\ Len(pT_queue) > 0
  /\ pT_free' = Freed
  /\ pT_inuse' = pT_queue[Len(pT_queue)]
  /\ pT_queue' = SubSeq(pT_queue, 1, Len(pT_queue) - 1)
  /\ mutex' = Nobody
  /\ Goto(Consumer, "notify")
  /\ UNCHANGED <<slots, pT_inprep, bEnd, waiting>>

\* pop() returns nullptr and the worker leaves its loop, jobs left or not.
PopEnd ==
  /\ pc[Consumer] = "check"
  /\ bEnd
  /\ mutex' = Nobody
  /\ Goto(Consumer, "done")
  /\ UNCHANGED <<slots, pointers, bEnd, waiting>>

PopEmpty ==
  /\ pc[Consumer] = "check"
  /\ ~bEnd
  /\ Len(pT_queue) = 0
  /\ Goto(Consumer, "block")
  /\ UNCHANGED <<slots, pointers, bEnd, mutex, waiting>>

PopNotify ==
  /\ pc[Consumer] = "notify"
  /\ NotifyOne(Consumer, "outside")

\* Mutation: the worker resets the slot the producer is preparing.
FinishedInPrep == pT_inprep

Finished == pT_inuse

\* The worker has dealt with the job: pjob->reset(), then pop() again.
Finish ==
  /\ pc[Consumer] = "outside"
  /\ slots' = [slots EXCEPT ![Finished] = NoJob]
  /\ Goto(Consumer, "lock")
  /\ UNCHANGED <<pointers, bEnd, mutex, waiting>>

-----------------------------------------------------------------------------

ProducerStep ==
  \/ Lock(Producer) \/ Block(Producer)
  \/ PushFree \/ PushFull \/ PushNotify
  \/ EndNotify \/ Join

ConsumerStep ==
  \/ Lock(Consumer) \/ Block(Consumer)
  \/ PopJob \/ PopEnd \/ PopEmpty \/ PopNotify
  \/ Finish

\* Everything is over: the program goes on elsewhere.
Terminated ==
  /\ pc[Producer] = "done"
  /\ UNCHANGED vars

Next ==
  \/ \E j \in Jobs : Prepare(j)
  \/ End
  \/ ProducerStep
  \/ ConsumerStep
  \/ \E t \in Threads : SpuriousWakeup(t)
  \/ Terminated

Spec == Init /\ [][Next]_vars

\* The scheduler runs every thread that can run, and the worker comes back from
\* its job.  Nothing obliges the producer to push or to call end(), and nothing
\* wakes a blocked thread but a notification.  _m is not withheld for ever from a
\* thread that asks for it again and again: without that, a consumer woken
\* spuriously without end could keep the producer out.
Fairness ==
  /\ WF_vars(ProducerStep)
  /\ WF_vars(ConsumerStep)
  /\ \A t \in Threads : SF_vars(Lock(t))

FairSpec == Spec /\ Fairness

-----------------------------------------------------------------------------
(* Properties.                                                             *)

\* Types of the variables.
TypeOK ==
  /\ slots \in [Slots -> Jobs \cup {NoJob}]
  /\ pT_free \in Seq(Slots)
  /\ pT_queue \in Seq(Slots)
  /\ pT_inuse \in Slots
  /\ pT_inprep \in Slots
  /\ bEnd \in BOOLEAN
  /\ mutex \in Threads \cup {Nobody}
  /\ waiting \subseteq Threads
  /\ pc \in [Threads -> ProducerAt \cup ConsumerAt]
  /\ pc[Consumer] \in ConsumerAt

\* Every slot has exactly one owner at any time: it is free, queued, prepared or
\* in use.  A slot with two owners would let the producer overwrite the job the
\* worker reads; get_free() hands out the prepared slot without taking _m.
OneOwner ==
  /\ \A i, k \in 1 .. Len(pT_free) : pT_free[i] = pT_free[k] => i = k
  /\ \A i, k \in 1 .. Len(pT_queue) : pT_queue[i] = pT_queue[k] => i = k
  /\ \A i \in 1 .. Len(pT_free), k \in 1 .. Len(pT_queue) : pT_free[i] # pT_queue[k]
  /\ \A i \in 1 .. Len(pT_free) : pT_free[i] \notin {pT_inuse, pT_inprep}
  /\ \A k \in 1 .. Len(pT_queue) : pT_queue[k] \notin {pT_inuse, pT_inprep}
  /\ pT_inuse # pT_inprep

\* Between two calls no slot is out of sight: the two stacks share maxlen slots,
\* which is what keeps _pT_free[--_len_free] and _pT_free[_len_free++] within
\* their arrays (the asserts of pop and push_free).
NoSlotLost == Len(pT_free) + Len(pT_queue) = MaxlenQueue

\* A queued slot holds a job, whole: the worker never takes a slot that was
\* reset or never filled.
QueuedSlotsFilled ==
  \A k \in 1 .. Len(pT_queue) : slots[pT_queue[k]] \in Jobs

\* Who is where agrees with who holds _m and who is blocked; the mutex excludes.
LocksAgree ==
  /\ \A t \in Threads : mutex = t <=> pc[t] \in {"check", "block"}
  /\ \A t \in Threads : t \in waiting <=> pc[t] = "wait"

\* The prepared slot holds the job while the producer is in push_free(), and the
\* consumer's slot holds the job while the worker is at it.
OwnSlotsFilled ==
  /\ pc[Producer] \in {"lock", "check", "block", "wait"} => slots[pT_inprep] \in Jobs
  /\ pc[Consumer] \in {"notify", "outside"} => slots[pT_inuse] \in Jobs

\* The invariant that is inductive: ownership and content of the slots rest on
\* where the threads are.
IInv ==
  /\ TypeOK
  /\ OneOwner
  /\ NoSlotLost
  /\ QueuedSlotsFilled
  /\ LocksAgree
  /\ OwnSlotsFilled

\* What the two threads see of the queue, as a bounded stack of jobs.
WorkerHasJob == pc[Consumer] \in {"notify", "outside"}

Abstract ==
  INSTANCE JobStack WITH
    stack <- [k \in 1 .. Len(pT_queue) |-> slots[pT_queue[k]]],
    current <- IF WorkerHasJob THEN slots[pT_inuse] ELSE NoJob,
    ended <- bEnd

\* The slots, the mutex and the condition variable implement the bounded stack:
\* the worker takes each job once, whole, and in the order of a stack.
ImplementsJobStack == Abstract!Spec

\* A push that found the queue full returns: the worker's pop notifies it.
PushReturns == pc[Producer] = "lock" ~> pc[Producer] = "outside"

\* A pushed job does not lie in the queue while the worker sleeps: the queue
\* gets shorter or the worker has been told to stop.
WorkerWakesForJob ==
  (Len(pT_queue) > 0 /\ pc[Consumer] = "wait") ~> (bEnd \/ WorkerHasJob)

\* README.md says that after Ctrl+C the program stops when one waits a little:
\* end() makes the worker leave its loop, so that join returns.
EndStopsWorker == bEnd ~> pc[Consumer] = "done"

\* end() does stop a worker that is anywhere else than between its test of _bEnd
\* and its block when the notification is sent: at a job, about to take _m, or
\* blocked.
EndStopsWorkerUnlessBlocking ==
  (pc[Producer] = "ending" /\ pc[Consumer] # "block") ~> pc[Consumer] = "done"
=============================================================================
