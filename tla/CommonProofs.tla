---------------------------- MODULE CommonProofs ----------------------------
(***************************************************************************)
(* Proofs about the shared structures of src/common, for every length of   *)
(* the queue, every text and buffer, every table.                          *)
(*                                                                         *)
(* JQueue: IInv is inductive; it gives the ownership of the slots, and with *)
(* it the step simulation of the bounded stack of module JobStack.         *)
(* LineReader: LinesInv is inductive; it says where each reader is between *)
(* the lines that were taken and the text that is ahead.                   *)
(*                                                                         *)
(* LruTable: TableInv is inductive. It names the sequences that the        *)
(* pointers stand for (TableIs): one per chain and that of the entries in  *)
(* use. Reads says that following the pointers gives these sequences, so   *)
(* the map of the refinement is read from them (TableReads, ValuesRead).   *)
(* A step unlinks an entry (Unlink) and puts it at an end (LinkLast); in   *)
(* the sequences that is the operation of the map (MovesAccess).           *)
(***************************************************************************)
EXTENDS MCCommon, Induction

----------------------------------------------------------------------------
(* The queue of jobs.                                                            *)

\* Removing the last element of a stack leaves the others where they were.
LEMMA FrontOf ==
  ASSUME NEW S, NEW s \in Seq(S), Len(s) > 0
  PROVE  /\ SubSeq(s, 1, Len(s) - 1) \in Seq(S)
         /\ Len(SubSeq(s, 1, Len(s) - 1)) = Len(s) - 1
         /\ \A i \in 1 .. Len(s) - 1 : SubSeq(s, 1, Len(s) - 1)[i] = s[i]
         /\ s[Len(s)] \in S
<1> DEFINE n == Len(s) - 1
           t == SubSeq(s, 1, n)
<1>1. n \in Nat /\ 1 \in Int /\ n \in Int /\ n < Len(s) /\ n + 1 = Len(s)
  OBVIOUS
<1>2. /\ \A i \in 1 .. n : s[i] \in S
      /\ s[Len(s)] \in S
  OBVIOUS
<1>3. /\ t \in Seq(S)
      /\ Len(t) = IF 1 <= n THEN n - 1 + 1 ELSE 0
      /\ \A i \in 1 .. n - 1 + 1 : t[i] = s[1 + i - 1]
  <2> HIDE DEF n
  <2>. QED BY <1>1, <1>2, SubSeqProperties
<1> HIDE DEF t, n
<1>4. Len(t) = n
  BY <1>1, <1>3
<1>5. \A i \in 1 .. n : t[i] = s[i]
  BY <1>1, <1>3
<1>. QED BY <1>2, <1>3, <1>4, <1>5, Zenon DEF t, n

\* Pushing on a stack leaves the others where they were.
LEMMA AppendTo ==
  ASSUME NEW S, NEW s \in Seq(S), NEW e \in S
  PROVE  /\ Append(s, e) \in Seq(S)
         /\ Len(Append(s, e)) = Len(s) + 1
         /\ \A i \in 1 .. Len(s) : Append(s, e)[i] = s[i]
         /\ Append(s, e)[Len(s) + 1] = e
  OBVIOUS

\* The invariant holds at the start.
LEMMA QueueStart == Init => IInv
<1> SUFFICES ASSUME Init PROVE IInv
  OBVIOUS
<1> USE QueueAssumption DEF Init, AllFree
<1>1. pT_free \in Seq(Slots) /\ Len(pT_free) = MaxlenQueue
  BY DEF Slots
<1>2. pT_queue \in Seq(Slots) /\ Len(pT_queue) = 0
  OBVIOUS
<1>3. TypeOK
  <2>1. /\ pT_inuse \in Slots /\ pT_inprep \in Slots
        /\ slots \in [Slots -> Jobs \cup {NoJob}]
    BY DEF Slots
  <2>2. /\ pc \in [Threads -> ProducerAt \cup ConsumerAt]
        /\ pc[Consumer] \in ConsumerAt
    BY DEF Threads, Producer, Consumer, ProducerAt, ConsumerAt
  <2>. QED BY <1>1, <1>2, <2>1, <2>2 DEF TypeOK
<1>4. OneOwner
  BY <1>1, <1>2 DEF OneOwner
<1>5. NoSlotLost /\ QueuedSlotsFilled
  BY <1>1, <1>2 DEF NoSlotLost, QueuedSlotsFilled
<1>6. LocksAgree /\ OwnSlotsFilled
  BY DEF LocksAgree, OwnSlotsFilled, Threads, Producer, Consumer, Nobody
<1>. QED BY <1>3, <1>4, <1>5, <1>6 DEF IInv

\* Every step keeps the invariant.
LEMMA QueueNext == IInv /\ [Next]_vars => IInv'
<1> SUFFICES ASSUME IInv, [Next]_vars PROVE IInv'
  OBVIOUS
<1> USE QueueAssumption
<1> USE DEF Threads, Producer, Consumer, Nobody, pointers, Goto
\* Steps that leave the slots and the pointers alone.
<1>0. ASSUME UNCHANGED <<slots, pointers>>,
             TypeOK', LocksAgree', OwnSlotsFilled'
      PROVE  IInv'
  BY <1>0 DEF IInv, OneOwner, NoSlotLost, QueuedSlotsFilled
<1>1. ASSUME NEW j \in Jobs, Prepare(j) PROVE IInv'
  <2>1. TypeOK' /\ LocksAgree'
    BY <1>1 DEF Prepare, IInv, TypeOK, LocksAgree, ProducerAt, ConsumerAt
  <2>2. OneOwner' /\ NoSlotLost'
    BY <1>1 DEF Prepare, IInv, OneOwner, NoSlotLost
  <2>3. QueuedSlotsFilled' /\ OwnSlotsFilled'
    BY <1>1 DEF Prepare, IInv, TypeOK, OneOwner, QueuedSlotsFilled, OwnSlotsFilled, ProducerAt, ConsumerAt
  <2>. QED BY <2>1, <2>2, <2>3 DEF IInv
<1>2. ASSUME End PROVE IInv'
  BY <1>0, <1>2 DEF End, IInv, TypeOK, LocksAgree, OwnSlotsFilled, ProducerAt, ConsumerAt
<1>3. ASSUME NEW t \in Threads, Lock(t) PROVE IInv'
  BY <1>0, <1>3 DEF Lock, IInv, TypeOK, LocksAgree, OwnSlotsFilled, ProducerAt, ConsumerAt
<1>4. ASSUME NEW t \in Threads, Block(t) PROVE IInv'
  BY <1>0, <1>4 DEF Block, IInv, TypeOK, LocksAgree, OwnSlotsFilled, ProducerAt, ConsumerAt
<1>5. ASSUME NEW t \in Threads, SpuriousWakeup(t) PROVE IInv'
  BY <1>0, <1>5 DEF SpuriousWakeup, IInv, TypeOK, LocksAgree, OwnSlotsFilled, ProducerAt, ConsumerAt
<1>6. ASSUME PushFree PROVE IInv'
  <2>1. Len(pT_free) > 0
    BY <1>6 DEF PushFree, Pushed, IInv, NoSlotLost, TypeOK
  <2>a. /\ pT_free' \in Seq(Slots)
        /\ Len(pT_free') = Len(pT_free) - 1
        /\ \A i \in 1 .. Len(pT_free') : pT_free'[i] = pT_free[i]
        /\ pT_inprep' = pT_free[Len(pT_free)]
        /\ pT_inprep' \in Slots
    BY <1>6, <2>1, FrontOf, Zenon DEF PushFree, Pushed, IInv, TypeOK
  <2>b. /\ pT_queue' \in Seq(Slots)
        /\ Len(pT_queue') = Len(pT_queue) + 1
        /\ \A i \in 1 .. Len(pT_queue) : pT_queue'[i] = pT_queue[i]
        /\ pT_queue'[Len(pT_queue) + 1] = pT_inprep
    BY <1>6, AppendTo DEF PushFree, Pushed, IInv, TypeOK
  <2>2. TypeOK'
    BY <1>6, <2>a, <2>b DEF PushFree, Pushed, IInv, TypeOK, ProducerAt, ConsumerAt
  <2>3. OneOwner'
    <3>1. pT_inuse' = pT_inuse
      BY <1>6 DEF PushFree, Pushed
    <3>2. /\ \A i, k \in 1 .. Len(pT_free') : pT_free'[i] = pT_free'[k] => i = k
          /\ \A i \in 1 .. Len(pT_free') : pT_free'[i] \notin {pT_inuse', pT_inprep'}
      BY <2>1, <2>a, <3>1 DEF IInv, TypeOK, OneOwner
    <3>3. \A k \in 1 .. Len(pT_queue') :
            \/ k \in 1 .. Len(pT_queue) /\ pT_queue'[k] = pT_queue[k]
            \/ k = Len(pT_queue) + 1 /\ pT_queue'[k] = pT_inprep
      BY <2>b DEF IInv, TypeOK
    <3>4. \A i, k \in 1 .. Len(pT_queue') : pT_queue'[i] = pT_queue'[k] => i = k
      BY <3>3 DEF IInv, OneOwner
    <3>5. \A i \in 1 .. Len(pT_free'), k \in 1 .. Len(pT_queue') : pT_free'[i] # pT_queue'[k]
      <4>1. \A i \in 1 .. Len(pT_free') : i \in 1 .. Len(pT_free) /\ pT_free'[i] = pT_free[i]
        BY <2>a DEF IInv, TypeOK
      <4>. QED BY <3>3, <4>1 DEF IInv, OneOwner
    <3>6. \A k \in 1 .. Len(pT_queue') : pT_queue'[k] \notin {pT_inuse', pT_inprep'}
      <4>1. Len(pT_free) \in 1 .. Len(pT_free)
        BY <2>1 DEF IInv, TypeOK
      <4>. QED BY <2>a, <3>1, <3>3, <4>1 DEF IInv, OneOwner
    <3>7. pT_inuse' # pT_inprep'
      <4>1. Len(pT_free) \in 1 .. Len(pT_free)
        BY <2>1 DEF IInv, TypeOK
      <4>. QED BY <2>a, <3>1, <4>1 DEF IInv, OneOwner
    <3>. QED BY <3>2, <3>4, <3>5, <3>6, <3>7 DEF OneOwner
  <2>4. NoSlotLost'
    BY <2>a, <2>b DEF IInv, TypeOK, NoSlotLost
  <2>5. QueuedSlotsFilled'
    BY <1>6, <2>b DEF PushFree, Pushed, IInv, TypeOK, QueuedSlotsFilled, OwnSlotsFilled
  <2>6. LocksAgree' /\ OwnSlotsFilled'
    BY <1>6 DEF PushFree, Pushed, IInv, TypeOK, LocksAgree, OwnSlotsFilled
  <2>. QED BY <2>2, <2>3, <2>4, <2>5, <2>6 DEF IInv
<1>7. ASSUME PushFull PROVE IInv'
  BY <1>0, <1>7 DEF PushFull, IInv, TypeOK, LocksAgree, OwnSlotsFilled, ProducerAt, ConsumerAt
<1>8. ASSUME NEW t \in Threads, NEW l \in {"outside", "joining"}, pc[t] \in {"notify", "ending"},
             t = Consumer => pc[t] = "notify" /\ l = "outside", NotifyOne(t, l)
      PROVE  IInv'
  <2>1. CASE waiting = {} /\ Goto(t, l) /\ UNCHANGED waiting
    BY <1>0, <1>8, <2>1 DEF NotifyOne, IInv, TypeOK, LocksAgree, OwnSlotsFilled, ProducerAt, ConsumerAt
  <2>2. ASSUME NEW w \in waiting,
               waiting' = waiting \ {w},
               pc' = [pc EXCEPT ![w] = "lock", ![t] = l]
        PROVE  IInv'
    <3>1. w \in Threads /\ pc[w] = "wait" /\ w # t
      BY <1>8 DEF IInv, TypeOK, LocksAgree
    <3>2. pc'[w] = "lock" /\ pc'[t] = l /\ \A u \in Threads \ {w, t} : pc'[u] = pc[u]
      BY <2>2, <3>1 DEF IInv, TypeOK
    <3>3. TypeOK'
      BY <1>8, <2>2, <3>1, <3>2 DEF NotifyOne, IInv, TypeOK, ProducerAt, ConsumerAt
    <3>4. LocksAgree' /\ OwnSlotsFilled'
      BY <1>8, <2>2, <3>1, <3>2 DEF NotifyOne, IInv, TypeOK, LocksAgree, OwnSlotsFilled
    <3>. QED BY <1>0, <1>8, <3>3, <3>4 DEF NotifyOne
  <2>. QED BY <1>8, <2>1, <2>2 DEF NotifyOne
<1>9. ASSUME Join PROVE IInv'
  BY <1>0, <1>9 DEF Join, IInv, TypeOK, LocksAgree, OwnSlotsFilled, ProducerAt, ConsumerAt
<1>10. ASSUME PopJob PROVE IInv'
  <2>1. Len(pT_queue) > 0
    BY <1>10 DEF PopJob, Freed
  <2>a. /\ pT_queue' \in Seq(Slots)
        /\ Len(pT_queue') = Len(pT_queue) - 1
        /\ \A i \in 1 .. Len(pT_queue') : pT_queue'[i] = pT_queue[i]
        /\ pT_inuse' = pT_queue[Len(pT_queue)]
        /\ pT_inuse' \in Slots
    BY <1>10, <2>1, FrontOf, Zenon DEF PopJob, Freed, IInv, TypeOK
  <2>b. /\ pT_free' \in Seq(Slots)
        /\ Len(pT_free') = Len(pT_free) + 1
        /\ \A i \in 1 .. Len(pT_free) : pT_free'[i] = pT_free[i]
        /\ pT_free'[Len(pT_free) + 1] = pT_inuse
    BY <1>10, AppendTo DEF PopJob, Freed, IInv, TypeOK
  <2>2. TypeOK'
    BY <1>10, <2>a, <2>b DEF PopJob, Freed, IInv, TypeOK, ProducerAt, ConsumerAt
  <2>3. OneOwner'
    <3>1. pT_inprep' = pT_inprep
      BY <1>10 DEF PopJob, Freed
    <3>2. /\ \A i, k \in 1 .. Len(pT_queue') : pT_queue'[i] = pT_queue'[k] => i = k
          /\ \A k \in 1 .. Len(pT_queue') : pT_queue'[k] \notin {pT_inuse', pT_inprep'}
      BY <2>1, <2>a, <3>1 DEF IInv, TypeOK, OneOwner
    <3>3. \A i \in 1 .. Len(pT_free') :
            \/ i \in 1 .. Len(pT_free) /\ pT_free'[i] = pT_free[i]
            \/ i = Len(pT_free) + 1 /\ pT_free'[i] = pT_inuse
      BY <2>b DEF IInv, TypeOK
    <3>4. \A i, k \in 1 .. Len(pT_free') : pT_free'[i] = pT_free'[k] => i = k
      BY <3>3 DEF IInv, OneOwner
    <3>5. \A i \in 1 .. Len(pT_free'), k \in 1 .. Len(pT_queue') : pT_free'[i] # pT_queue'[k]
      <4>1. \A k \in 1 .. Len(pT_queue') : k \in 1 .. Len(pT_queue) /\ pT_queue'[k] = pT_queue[k]
        BY <2>a DEF IInv, TypeOK
      <4>. QED BY <3>3, <4>1 DEF IInv, OneOwner
    <3>6. \A i \in 1 .. Len(pT_free') : pT_free'[i] \notin {pT_inuse', pT_inprep'}
      <4>1. Len(pT_queue) \in 1 .. Len(pT_queue)
        BY <2>1 DEF IInv, TypeOK
      <4>. QED BY <2>a, <3>1, <3>3, <4>1 DEF IInv, OneOwner
    <3>7. pT_inuse' # pT_inprep'
      <4>1. Len(pT_queue) \in 1 .. Len(pT_queue)
        BY <2>1 DEF IInv, TypeOK
      <4>. QED BY <2>a, <3>1, <4>1 DEF IInv, OneOwner
    <3>. QED BY <3>2, <3>4, <3>5, <3>6, <3>7 DEF OneOwner
  <2>4. NoSlotLost'
    BY <2>a, <2>b DEF IInv, TypeOK, NoSlotLost
  <2>5. QueuedSlotsFilled'
    BY <1>10, <2>1, <2>a DEF PopJob, Freed, IInv, TypeOK, QueuedSlotsFilled
  <2>6. LocksAgree' /\ OwnSlotsFilled'
    BY <1>10, <2>1 DEF PopJob, Freed, IInv, TypeOK, LocksAgree, OwnSlotsFilled, QueuedSlotsFilled
  <2>. QED BY <2>2, <2>3, <2>4, <2>5, <2>6 DEF IInv
<1>11. ASSUME PopEnd PROVE IInv'
  BY <1>0, <1>11 DEF PopEnd, IInv, TypeOK, LocksAgree, OwnSlotsFilled, ProducerAt, ConsumerAt
<1>12. ASSUME PopEmpty PROVE IInv'
  BY <1>0, <1>12 DEF PopEmpty, IInv, TypeOK, LocksAgree, OwnSlotsFilled, ProducerAt, ConsumerAt
<1>13. ASSUME Finish PROVE IInv'
  <2>1. TypeOK' /\ LocksAgree'
    BY <1>13 DEF Finish, Finished, IInv, TypeOK, LocksAgree, ProducerAt, ConsumerAt
  <2>2. OneOwner' /\ NoSlotLost'
    BY <1>13 DEF Finish, Finished, IInv, OneOwner, NoSlotLost
  <2>3. QueuedSlotsFilled' /\ OwnSlotsFilled'
    BY <1>13 DEF Finish, Finished, IInv, TypeOK, OneOwner, QueuedSlotsFilled, OwnSlotsFilled
  <2>. QED BY <2>1, <2>2, <2>3 DEF IInv
<1>14. CASE UNCHANGED vars
  BY <1>14 DEF vars, IInv, TypeOK, OneOwner, NoSlotLost, QueuedSlotsFilled, LocksAgree, OwnSlotsFilled
<1>. QED
  BY <1>1, <1>2, <1>3, <1>4, <1>5, <1>6, <1>7, <1>8, <1>9, <1>10, <1>11, <1>12, <1>13, <1>14
  DEF Next, ProducerStep, ConsumerStep, PushNotify, EndNotify, PopNotify, Terminated

\* The inductive invariant holds of the queue, whatever its capacity.
THEOREM QueueInvariance == Spec => []IInv
<1>. QED BY QueueStart, QueueNext, PTL DEF Spec

\* Types of the variables hold of every behaviour.
THEOREM QueueTypeCorrect == Spec => []TypeOK
<1>1. IInv => TypeOK
  BY DEF IInv
<1>. QED BY <1>1, QueueInvariance, PTL

\* No slot of a JQueue ever has two owners, so the producer never writes the job
\* the worker reads although get_free() takes no lock.
THEOREM SlotsHaveOneOwner == Spec => []OneOwner
<1>1. IInv => OneOwner
  BY DEF IInv
<1>. QED BY <1>1, QueueInvariance, PTL

\* The two pointer stacks always hold maxlen slots between them.
THEOREM SlotsAreKept == Spec => []NoSlotLost
<1>1. IInv => NoSlotLost
  BY DEF IInv
<1>. QED BY <1>1, QueueInvariance, PTL

-----------------------------------------------------------------------------
(* The bounded stack is implemented.                                       *)

\* The jobs of the queue, the newest last: what Abstract puts for stack.
StackOf == [k \in 1 .. Len(pT_queue) |-> slots[pT_queue[k]]]
CurrentOf == IF WorkerHasJob THEN slots[pT_inuse] ELSE NoJob

\* The stack that the slots stand for is a sequence of jobs.
LEMMA StackType ==
  IInv => /\ StackOf \in Seq(Jobs)
          /\ Len(StackOf) = Len(pT_queue)
          /\ Len(StackOf) \in Nat
  BY DEF IInv, TypeOK, QueuedSlotsFilled, StackOf

\* The initial states of the queue are initial states of the stack.
LEMMA RefinesInit == Init => Abstract!Init
  BY QueueAssumption DEF Init, AllFree, Abstract!Init, WorkerHasJob, Threads, Producer, Consumer

\* PushFree pushes the prepared job.
LEMMA RefinesPush ==
  ASSUME IInv, PushFree
  PROVE  Abstract!Push(slots[pT_inprep])
<1>1. Len(StackOf) < MaxlenQueue
  BY StackType DEF PushFree, Pushed
<1>2. StackOf' = Append(StackOf, slots[pT_inprep])
  <2>1. /\ pT_queue' \in Seq(Slots)
        /\ Len(pT_queue') = Len(pT_queue) + 1
        /\ \A k \in 1 .. Len(pT_queue) : pT_queue'[k] = pT_queue[k]
        /\ pT_queue'[Len(pT_queue) + 1] = pT_inprep
        /\ slots' = slots
    BY AppendTo DEF PushFree, Pushed, IInv, TypeOK
  <2>2. \A k \in 1 .. Len(pT_queue') :
          StackOf'[k] = IF k = Len(pT_queue) + 1 THEN slots[pT_inprep] ELSE StackOf[k]
    BY <2>1 DEF StackOf, IInv, TypeOK
  <2>3. DOMAIN StackOf' = 1 .. Len(StackOf) + 1
    BY <2>1, StackType DEF StackOf
  <2>. QED BY <2>1, <2>2, <2>3, StackType DEF StackOf
<1>3. CurrentOf' = CurrentOf /\ bEnd' = bEnd
  BY DEF PushFree, Pushed, CurrentOf, WorkerHasJob, Goto, IInv, TypeOK, Threads, Producer, Consumer
<1>. QED BY <1>1, <1>2, <1>3 DEF Abstract!Push, StackOf, CurrentOf

\* PopJob takes the job on top.
LEMMA RefinesTake ==
  ASSUME IInv, PopJob
  PROVE  Abstract!Take
<1>1. ~bEnd /\ bEnd' = bEnd /\ StackOf # <<>> /\ CurrentOf = NoJob
  BY StackType DEF PopJob, Freed, CurrentOf, WorkerHasJob
<1>2. Len(pT_queue) > 0
  BY DEF PopJob, Freed
<1>3. /\ pT_queue' \in Seq(Slots)
      /\ Len(pT_queue') = Len(pT_queue) - 1
      /\ \A k \in 1 .. Len(pT_queue') : pT_queue'[k] = pT_queue[k]
      /\ pT_inuse' = pT_queue[Len(pT_queue)]
  <2>1. pT_queue \in Seq(Slots)
    BY DEF IInv, TypeOK
  <2>2. /\ pT_queue' = SubSeq(pT_queue, 1, Len(pT_queue) - 1)
        /\ pT_inuse' = pT_queue[Len(pT_queue)]
    BY DEF PopJob, Freed
  <2>3. /\ SubSeq(pT_queue, 1, Len(pT_queue) - 1) \in Seq(Slots)
        /\ Len(SubSeq(pT_queue, 1, Len(pT_queue) - 1)) = Len(pT_queue) - 1
        /\ \A k \in 1 .. Len(pT_queue) - 1 : SubSeq(pT_queue, 1, Len(pT_queue) - 1)[k] = pT_queue[k]
    BY <1>2, <2>1, FrontOf
  <2>. QED BY <2>2, <2>3
<1>6. slots' = slots
  BY DEF PopJob, Freed
<1>4. CurrentOf' = StackOf[Len(StackOf)]
  BY <1>2, <1>3, <1>6, StackType
  DEF PopJob, Freed, CurrentOf, StackOf, WorkerHasJob, Goto, IInv, TypeOK, Threads, Producer, Consumer
<1>5. StackOf' = SubSeq(StackOf, 1, Len(StackOf) - 1)
  <2>1. /\ SubSeq(StackOf, 1, Len(StackOf) - 1) \in Seq(Jobs)
        /\ Len(SubSeq(StackOf, 1, Len(StackOf) - 1)) = Len(StackOf) - 1
        /\ \A k \in 1 .. Len(StackOf) - 1 : SubSeq(StackOf, 1, Len(StackOf) - 1)[k] = StackOf[k]
    BY <1>2, StackType, FrontOf
  <2>2. /\ Len(StackOf') = Len(StackOf) - 1
        /\ \A k \in 1 .. Len(StackOf) - 1 : StackOf'[k] = StackOf[k]
    BY <1>2, <1>3, <1>6, StackType DEF StackOf
  <2>3. StackOf' \in Seq(Jobs)
    BY <1>2, <1>3, <1>6, <2>2, StackType DEF StackOf, IInv, TypeOK, QueuedSlotsFilled
  <2>. QED BY <2>1, <2>2, <2>3, SeqEqual
<1>. QED BY <1>1, <1>4, <1>5 DEF Abstract!Take, StackOf, CurrentOf

\* Every step of the queue is a step of the stack or leaves it as it was.
LEMMA RefinesNext ==
  ASSUME IInv, IInv', [Next]_vars
  PROVE  [Abstract!Next]_(Abstract!vars)
<1> USE DEF Threads, Producer, Consumer, pointers, Goto
<1>0. ASSUME UNCHANGED <<StackOf, CurrentOf, bEnd>>
      PROVE  [Abstract!Next]_(Abstract!vars)
  BY <1>0 DEF Abstract!vars, StackOf, CurrentOf
<1>1. ASSUME UNCHANGED <<slots, pointers, bEnd>>,
             pc'[Consumer] \in {"notify", "outside"} <=> pc[Consumer] \in {"notify", "outside"}
      PROVE  [Abstract!Next]_(Abstract!vars)
  BY <1>0, <1>1 DEF StackOf, CurrentOf, WorkerHasJob
<1>2. ASSUME NEW j \in Jobs, Prepare(j) PROVE [Abstract!Next]_(Abstract!vars)
  <2>1. /\ pT_queue' = pT_queue /\ bEnd' = bEnd
        /\ \A k \in 1 .. Len(pT_queue) : slots'[pT_queue[k]] = slots[pT_queue[k]]
    BY <1>2 DEF Prepare, IInv, TypeOK, OneOwner
  <2>2. CurrentOf' = CurrentOf
    BY <1>2 DEF Prepare, CurrentOf, WorkerHasJob, IInv, TypeOK, OneOwner
  <2>3. StackOf' = StackOf
    BY <2>1 DEF StackOf
  <2>. QED BY <1>0, <2>1, <2>2, <2>3
<1>3. ASSUME PushFree PROVE [Abstract!Next]_(Abstract!vars)
  <2>1. slots[pT_inprep] \in Jobs
    BY <1>3 DEF IInv, OwnSlotsFilled, PushFree, Pushed
  <2>2. Abstract!Push(slots[pT_inprep])
    BY <1>3, RefinesPush
  <2>3. \E j \in Jobs : Abstract!Push(j)
    BY <2>1, <2>2 DEF Abstract!Push
  <2>. QED BY <2>3 DEF Abstract!Next
<1>4. ASSUME PopJob PROVE [Abstract!Next]_(Abstract!vars)
  BY <1>4, RefinesTake DEF Abstract!Next
<1>5. ASSUME End PROVE [Abstract!Next]_(Abstract!vars)
  <2>1. Abstract!End
    BY <1>5 DEF End, Abstract!End, WorkerHasJob, IInv, TypeOK
  <2>. QED BY <2>1 DEF Abstract!Next
<1>6. ASSUME Finish PROVE [Abstract!Next]_(Abstract!vars)
  <2>1. /\ pT_queue' = pT_queue /\ bEnd' = bEnd
        /\ \A k \in 1 .. Len(pT_queue) : slots'[pT_queue[k]] = slots[pT_queue[k]]
    BY <1>6 DEF Finish, Finished, IInv, TypeOK, OneOwner
  <2>2. StackOf' = StackOf
    BY <2>1 DEF StackOf
  <2>3. CurrentOf # NoJob /\ CurrentOf' = NoJob
    BY <1>6, QueueAssumption DEF Finish, Finished, CurrentOf, WorkerHasJob, IInv, TypeOK, OwnSlotsFilled
  <2>4. Abstract!Finish
    BY <2>1, <2>2, <2>3 DEF Abstract!Finish, StackOf, CurrentOf
  <2>. QED BY <2>4 DEF Abstract!Next
<1>7. ASSUME NEW t \in Threads, Lock(t) \/ Block(t) \/ SpuriousWakeup(t)
      PROVE  [Abstract!Next]_(Abstract!vars)
  BY <1>1, <1>7 DEF Lock, Block, SpuriousWakeup, IInv, TypeOK, LocksAgree
<1>8. ASSUME PushFull \/ Join \/ PopEnd \/ PopEmpty \/ Terminated
      PROVE  [Abstract!Next]_(Abstract!vars)
  BY <1>1, <1>8 DEF PushFull, Join, PopEnd, PopEmpty, Terminated, vars, IInv, TypeOK
<1>9. ASSUME PushNotify \/ EndNotify \/ PopNotify
      PROVE  [Abstract!Next]_(Abstract!vars)
  <2>1. UNCHANGED <<slots, pointers, bEnd>>
    BY <1>9 DEF PushNotify, EndNotify, PopNotify, NotifyOne
  <2>2. pc'[Consumer] \in {"notify", "outside"} <=> pc[Consumer] \in {"notify", "outside"}
    BY <1>9 DEF PushNotify, EndNotify, PopNotify, NotifyOne, IInv, TypeOK, LocksAgree
  <2>. QED BY <1>1, <2>1, <2>2
<1>10. CASE UNCHANGED vars
  BY <1>1, <1>10 DEF vars
<1>. QED BY <1>2, <1>3, <1>4, <1>5, <1>6, <1>7, <1>8, <1>9, <1>10 DEF Next, ProducerStep, ConsumerStep

\* A JQueue is a bounded stack of jobs for the two threads that share it: each
\* job pushed is taken at most once, whole, the newest first, none after end().
THEOREM QueueRefinement == Spec => ImplementsJobStack
<1>1. IInv /\ IInv' /\ [Next]_vars => [Abstract!Next]_(Abstract!vars)
  BY RefinesNext
<1>. QED BY <1>1, RefinesInit, QueueInvariance, PTL DEF Spec, Abstract!Spec, ImplementsJobStack

----------------------------------------------------------------------------
(* The lines of a child: what a pipe carries.                                    *)

Pipes == {"in", "err"}
NL == Lines!NL
Chars == Letters \union {NL}
Ended(r) == [i \in DOMAIN Text[r] |-> Append(Text[r][i], NL)]
Count(r) == Len(Text[r])

\* The first k lines of pipe r with their ends, for every k up to all.
Begins(r, u) ==
  /\ u \in [0 .. Count(r) -> Seq(Chars)] /\ u[0] = <<>>
  /\ \A k \in 1 .. Count(r) : u[k] = u[k - 1] \o Append(Text[r][k], NL)
  /\ Lines!Stream(r) = IF r \in Broken THEN Lines!Front(u[Count(r)]) ELSE u[Count(r)]
Upto(r) == CHOOSE u : Begins(r, u)

\* The text of a pipe is of letters, and the end of a line is none.
LEMMA TextTypes ==
  ASSUME NEW r \in Pipes
  PROVE  /\ Count(r) \in Nat /\ DOMAIN Text[r] = 1 .. Count(r)
         /\ \A i \in 1 .. Count(r) : Text[r][i] \in Seq(Letters) /\ Text[r][i] \in Seq(Chars)
         /\ \A i \in 1 .. Count(r) : Append(Text[r][i], NL) \in Seq(Chars)
         /\ NL \in Chars /\ NL \notin Letters
         /\ r \in Broken => Count(r) # 0 /\ Text[r][Count(r)] # <<>>
<1>1. Text[r] \in Seq(Seq(Letters)) BY LinesAssumption DEF Pipes
<1>2. Count(r) \in Nat /\ DOMAIN Text[r] = 1 .. Count(r) BY <1>1 DEF Count
<1>3. \A i \in 1 .. Count(r) : Text[r][i] \in Seq(Letters) BY <1>1 DEF Count
<1>4. \A s \in Seq(Letters) : s \in Seq(Chars)
  <2>1. Letters \subseteq Chars BY DEF Chars
  <2> QED BY <2>1, SeqMonotonic
<1>5. NL \in Chars BY DEF Chars
<1>6. \A s \in Seq(Chars) : Append(s, NL) \in Seq(Chars) BY <1>5
<1>7. NL \notin Letters BY LinesAssumption DEF NL
<1>8. r \in Broken => Count(r) # 0 /\ Text[r][Count(r)] # <<>>
  <2>1. r \in Broken => Text[r] # <<>> /\ Text[r][Len(Text[r])] # <<>> BY LinesAssumption
  <2> QED BY <1>1, <2>1 DEF Count
<1> QED BY <1>2, <1>3, <1>4, <1>5, <1>6, <1>7, <1>8

\* There is what every number of its first lines makes; all of them are what the pipe carries.
LEMMA UptoBegins ==
  ASSUME NEW r \in Pipes
  PROVE  Begins(r, Upto(r))
<1> DEFINE n == Count(r)
           s == Ended(r)
           h == CHOOSE h : Flattens(h, n, s)
<1>1. n \in Nat /\ s \in [1 .. n -> Seq(Chars)] /\ Len(s) = n
  BY TextTypes DEF Ended
<1>2. Flattens(h, n, s)
  <2>1. \E g : Flattens(g, n, s)
    <3> HIDE DEF n, s
    <3> QED BY <1>1, ConcatenationDefined
  <2> QED BY <2>1
<1>3. \E u : Prefixes(u, Chars, n, s, h)
  <2> HIDE DEF n, s, h
  <2> QED BY <1>1, <1>2, Concatenation
<1> PICK u : Prefixes(u, Chars, n, s, h) BY <1>3
<1>a. /\ u \in [0 .. n -> Seq(Chars)] /\ u[0] = <<>>
      /\ \A k \in 1 .. n : u[k] = u[k - 1] \o s[k] /\ u[k] = h[k]
  <2> HIDE DEF n, s, h
  <2> QED BY DEF Prefixes
<1>4. Lines!FlattenSeq(s) = u[n]
  <2>1. CASE n = 0
    <3>1. s = <<>> BY <2>1, <1>1
    <3> QED BY <2>1, <3>1, <1>1, <1>a DEF Lines!FlattenSeq
  <2>2. CASE n # 0
    <3>1. Lines!FlattenSeq(s) = h[n]
      <4>1. Len(s) # 0 /\ Len(s) = n BY <1>1, <2>2
      <4> HIDE DEF s, n
      <4> QED BY <4>1 DEF Lines!FlattenSeq, Flattens
    <3>2. n \in 1 .. n BY <1>1, <2>2
    <3> HIDE DEF n, h, s
    <3> QED BY <1>a, <3>1, <3>2
  <2> QED BY <2>1, <2>2
<1>5. Lines!Stream(r) = IF r \in Broken THEN Lines!Front(u[n]) ELSE u[n]
  <2> HIDE DEF n
  <2> QED BY <1>4 DEF Lines!Stream, Ended, NL
<1>6. Begins(r, u)
  <2>1. \A k \in 1 .. n : s[k] = Append(Text[r][k], NL) BY TextTypes DEF Ended
  <2> HIDE DEF s, h
  <2> QED BY <1>a, <1>5, <2>1 DEF Begins
<1> QED BY <1>6 DEF Upto

\* What is ahead on the pipe, lines and ends, behind its first k lines.
Leaves(r, w) ==
  /\ w \in [0 .. Count(r) -> Seq(Chars)] /\ w[Count(r)] = <<>>
  /\ \A k \in 0 .. Count(r) - 1 : w[k] = Append(Text[r][k + 1], NL) \o w[k + 1]
  /\ w[0] = Upto(r)[Count(r)]
Left(r) == CHOOSE w : Leaves(r, w)

\* There is what is left of the text after every number of lines.
LEMMA LeftLeaves ==
  ASSUME NEW r \in Pipes
  PROVE  Leaves(r, Left(r))
<1> DEFINE n == Count(r)
           E == Ended(r)
           F == [j \in Nat |-> [x \in Seq(Chars) |-> IF j < n THEN E[n - j] \o x ELSE x]]
           u == Upto(r)
<1>1. n \in Nat /\ E \in [1 .. n -> Seq(Chars)] /\ <<>> \in Seq(Chars)
  BY TextTypes DEF Ended
<1>2. F \in [Nat -> [Seq(Chars) -> Seq(Chars)]]
  <2>1. \A j \in Nat, x \in Seq(Chars) : j < n => E[n - j] \o x \in Seq(Chars)
    <3> SUFFICES ASSUME NEW j \in Nat, NEW x \in Seq(Chars), j < n PROVE E[n - j] \o x \in Seq(Chars)
      OBVIOUS
    <3>1. n - j \in 1 .. n BY <1>1
    <3>2. E[n - j] \in Seq(Chars) BY <1>1, <3>1
    <3> HIDE DEF E, n
    <3> QED BY <3>2
  <2> HIDE DEF E, n
  <2> QED BY <2>1
<1>3. \E h : Defined(h, Seq(Chars), <<>>, F)
  <2> HIDE DEF F
  <2> QED BY <1>1, <1>2, Recursion
<1> PICK h : Defined(h, Seq(Chars), <<>>, F) BY <1>3
<1>4. h \in [Nat -> Seq(Chars)] /\ h[0] = <<>> /\ \A j \in Nat : h[j + 1] = F[j][h[j]]
  BY DEF Defined
<1> DEFINE w == [k \in 0 .. n |-> h[n - k]]
<1>5. w \in [0 .. n -> Seq(Chars)] /\ w[n] = <<>>
  <2>1. \A k \in 0 .. n : n - k \in Nat BY <1>1
  <2>2. n \in 0 .. n /\ n - n = 0 BY <1>1
  <2> HIDE DEF n
  <2> QED BY <1>4, <2>1, <2>2
<1>6. ASSUME NEW k \in 0 .. n - 1 PROVE w[k] = E[k + 1] \o w[k + 1]
  <2>1. n - (k + 1) \in Nat /\ (n - (k + 1)) + 1 = n - k /\ n - (k + 1) < n
        /\ n - (n - (k + 1)) = k + 1 /\ k \in 0 .. n /\ k + 1 \in 0 .. n
    BY <1>1
  <2>2. h[n - k] = F[n - (k + 1)][h[n - (k + 1)]]
    <3> HIDE DEF F, n
    <3> QED BY <1>4, <2>1
  <2>3. F[n - (k + 1)][h[n - (k + 1)]] = E[k + 1] \o h[n - (k + 1)]
    <3>1. h[n - (k + 1)] \in Seq(Chars) BY <1>4, <2>1
    <3> HIDE DEF E, n
    <3> QED BY <2>1, <3>1
  <2> HIDE DEF E, n, F
  <2> QED BY <2>1, <2>2, <2>3
<1>7. /\ u \in [0 .. n -> Seq(Chars)] /\ u[0] = <<>>
      /\ \A k \in 1 .. n : u[k] = u[k - 1] \o E[k]
      /\ Lines!Stream(r) = IF r \in Broken THEN Lines!Front(u[n]) ELSE u[n]
  <2>1. \A k \in 1 .. n : E[k] = Append(Text[r][k], NL) BY TextTypes DEF Ended
  <2>2. Begins(r, u) BY UptoBegins
  <2> HIDE DEF E, u
  <2> QED BY <2>1, <2>2 DEF Begins
<1> HIDE DEF w, u, E, F, n
<1> DEFINE K == {k \in 0 .. n : u[k] \o w[k] = w[0]}
<1>8. 0 \in K
  <2>1. 0 \in 0 .. n BY <1>1
  <2>2. w[0] \in Seq(Chars) BY <2>1, <1>5
  <2> QED BY <2>1, <2>2, <1>7
<1>9. ASSUME NEW k \in 0 .. n - 1, k \in K PROVE k + 1 \in K
  <2>1. k + 1 \in 1 .. n /\ k + 1 \in 0 .. n /\ k \in 0 .. n /\ (k + 1) - 1 = k BY <1>1
  <2>2. u[k] \in Seq(Chars) /\ w[k + 1] \in Seq(Chars) /\ E[k + 1] \in Seq(Chars)
    BY <1>1, <1>5, <1>7, <2>1
  <2>3. u[k + 1] \o w[k + 1] = u[k] \o (E[k + 1] \o w[k + 1])
    <3>1. u[k + 1] = u[k] \o E[k + 1] BY <1>7, <2>1
    <3>2. (u[k] \o E[k + 1]) \o w[k + 1] = u[k] \o (E[k + 1] \o w[k + 1])
      <4>1. Associates(Chars) BY ConcatenationLaws
      <4> HIDE DEF K
      <4> QED BY <2>2, <4>1, Zenon DEF Associates
    <3> QED BY <3>1, <3>2
  <2>4. u[k] \o w[k] = w[0] BY <1>9
  <2> QED BY <2>1, <2>3, <2>4, <1>6
<1>10. u[n] = w[0]
  <2>1. n \in K
    <3>1. 0 .. n \subseteq K
      <4> HIDE DEF K
      <4>1. \A k \in 0 .. n - 1 : k \in K => k + 1 \in K BY <1>9
      <4>2. 0 \in Int /\ n \in Int BY <1>1
      <4> QED BY <4>1, <4>2, <1>8, AllBetween
    <3>2. n \in 0 .. n BY <1>1
    <3> QED BY <3>1, <3>2
  <2>2. u[n] \o w[n] = w[0] /\ n \in 0 .. n BY <2>1
  <2>3. u[n] \in Seq(Chars) BY <2>2, <1>7
  <2> QED BY <2>2, <2>3, <1>5
<1>11. Leaves(r, w)
  <2>1. \A k \in 0 .. n - 1 : E[k + 1] = Append(Text[r][k + 1], NL)
    BY TextTypes DEF Ended, E, n
  <2> QED BY <1>5, <1>6, <1>7, <1>10, <2>1 DEF Leaves, n, u
<1> QED BY <1>11 DEF Left

SameText(l, x, t, y) == l \o (<<NL>> \o x) = Append(t, NL) \o y

\* Two texts are the same only when their first lines are, and what is behind them.
LEMMA FirstEnd ==
  ASSUME NEW l \in Seq(Letters), NEW t \in Seq(Letters), NEW x \in Seq(Chars), NEW y \in Seq(Chars),
         SameText(l, x, t, y)
  PROVE  l = t /\ x = y
<1>0. NL \in Chars /\ NL \notin Letters /\ Letters \subseteq Chars
  BY LinesAssumption DEF NL, Chars
<1> DEFINE a == <<NL>> \o x
           b == <<NL>> \o y
<1>1. a \in Seq(Chars) /\ b \in Seq(Chars) /\ l \in Seq(Chars) /\ t \in Seq(Chars)
      /\ <<NL>> \in Seq(Chars)
  BY <1>0, SeqMonotonic
<1>2. l \o a = t \o b
  <2>1. Append(t, NL) \o y = t \o (<<NL>> \o y)
    <3>1. t \in Seq(Chars) /\ NL \in Chars BY <1>0, <1>1
    <3> HIDE DEF a, b
    <3> QED BY <3>1, AppendThenConcat
  <2> QED BY <2>1 DEF SameText
<1>3. a # <<>> /\ b # <<>> /\ a[1] = NL /\ b[1] = NL /\ Len(a) >= 1 /\ Len(b) >= 1
  BY <1>0
<1> HIDE DEF a, b
<1>4. Len(l) = Len(t)
  <2>1. CASE Len(l) < Len(t)
    <3>1. (l \o a)[Len(l) + 1] = a[1]
      <4>1. (l \o a)[Len(l) + 1] = a[Len(l) + 1 - Len(l)] BY <1>1, <1>3, ConcatProperties
      <4> QED BY <4>1, <1>1
    <3>2. (t \o b)[Len(l) + 1] = t[Len(l) + 1] BY <1>1, <2>1, ConcatProperties
    <3>3. t[Len(l) + 1] \in Letters BY <2>1
    <3> QED BY <3>1, <3>2, <3>3, <1>0, <1>2, <1>3
  <2>2. CASE Len(t) < Len(l)
    <3>1. (t \o b)[Len(t) + 1] = b[1]
      <4>1. (t \o b)[Len(t) + 1] = b[Len(t) + 1 - Len(t)] BY <1>1, <1>3, ConcatProperties
      <4> QED BY <4>1, <1>1
    <3>2. (l \o a)[Len(t) + 1] = l[Len(t) + 1] BY <1>1, <2>2, ConcatProperties
    <3>3. l[Len(t) + 1] \in Letters BY <2>2
    <3> QED BY <3>1, <3>2, <3>3, <1>0, <1>2, <1>3
  <2> QED BY <2>1, <2>2, <1>1
<1>5. l = t
  <2>1. \A i \in 1 .. Len(l) : l[i] = t[i]
    <3> SUFFICES ASSUME NEW i \in 1 .. Len(l) PROVE l[i] = t[i] OBVIOUS
    <3>1. (l \o a)[i] = l[i] BY <1>1, ConcatProperties
    <3>2. (t \o b)[i] = t[i] BY <1>1, <1>4, ConcatProperties
    <3> QED BY <3>1, <3>2, <1>2
  <2> QED BY <2>1, <1>4, SeqEqual
<1>6. a = b BY <1>1, <1>2, <1>5, ConcatSimplifications
<1>7. x = y BY <1>1, <1>6, ConcatSimplifications DEF a, b
<1> QED BY <1>5, <1>7

\* A line is not the beginning of what has no end of line.
LEMMA NoEnd ==
  ASSUME NEW l \in Seq(Letters), NEW t \in Seq(Letters), NEW y \in Seq(Chars)
  PROVE  l # Append(t, NL) \o y
<1> SUFFICES ASSUME l = Append(t, NL) \o y PROVE FALSE OBVIOUS
<1>0. NL \in Chars /\ NL \notin Letters /\ Letters \subseteq Chars
  BY LinesAssumption DEF NL, Chars
<1>1. t \in Seq(Chars) BY <1>0, SeqMonotonic
<1> DEFINE a == Append(t, NL)
<1>2. a \in Seq(Chars) /\ Len(a) = Len(t) + 1 /\ a[Len(t) + 1] = NL BY <1>0, <1>1
<1> HIDE DEF a
<1>3. Len(a \o y) >= Len(t) + 1 /\ (a \o y)[Len(t) + 1] = NL BY <1>2, ConcatProperties
<1>4. l = a \o y BY DEF a
<1>5. Len(t) + 1 \in 1 .. Len(l) BY <1>3, <1>4
<1>6. l[Len(t) + 1] \in Letters BY <1>5, ElementOfSeq
<1> QED BY <1>0, <1>3, <1>4, <1>6

----------------------------------------------------------------------------
(* Where each reader is between what was taken and what is ahead.                *)
Ahead(r, k) == Left(r)[k]

Given(r) == Len(got[r])
\* What reader r has not gone through: its buffer, what is in the pipe, and the end of
\* line that a broken pipe lacks and its reader puts there.
Lacks(r) == IF r \in Broken /\ ~rd[r].eof THEN <<NL>> ELSE <<>>
Rest(r) == rd[r].buf \o (rd[r].rest \o Lacks(r))

\* The line the reader holds is the next one, and behind it are the lines after it.
HoldsNext(r) == /\ Given(r) < Count(r) /\ rd[r].line = Text[r][Given(r) + 1]
                /\ Rest(r) = Ahead(r, Given(r) + 1)

Readers == [pc : {"scan", "give", "hold", "done"}, rest : Seq(Chars), buf : Seq(Chars),
            line : Seq(Letters), eof : BOOLEAN]
ReaderType(r) ==
  /\ rd[r] \in Readers
  /\ rd[r].eof => rd[r].rest = <<>>
GotLines(r) == /\ Given(r) \in 0 .. Count(r) /\ got[r] \in Seq(Seq(Letters))
               /\ \A i \in 1 .. Given(r) : got[r][i] = Text[r][i]

Scanning(r) == rd[r].pc = "scan" =>
  /\ ~is_ready[r] /\ ~has_line[r] /\ ~is_eof[r]
  /\ rd[r].line \o Rest(r) = Ahead(r, Given(r))
Giving(r)   == rd[r].pc = "give" => ~is_ready[r] /\ ~has_line[r] /\ ~is_eof[r] /\ HoldsNext(r)
Holding(r)  == rd[r].pc = "hold" =>
  /\ ~is_eof[r] /\ is_ready[r] = has_line[r] /\ do_read[r] = ~has_line[r]
  /\ IF has_line[r] THEN HoldsNext(r) ELSE Rest(r) = Ahead(r, Given(r))
AtEnd(r)   == rd[r].pc = "done" =>
  /\ is_eof[r] /\ ~has_line[r] /\ Given(r) = Count(r)
  /\ main.pc # "closed" => is_ready[r]

ReaderInv(r) == /\ ReaderType(r) /\ GotLines(r)
                /\ Scanning(r) /\ Giving(r) /\ Holding(r) /\ AtEnd(r)
Ready(r) == IF is_ready[r] THEN 1 ELSE 0
MainInv ==
  /\ main \in [pc : {"wait", "err", "in", "close", "drain_err", "drain_in", "closed"},
               snap : [Pipes -> BOOLEAN], ends : SUBSET Pipes]
  /\ mode \in {"play", "end"}
  /\ \A r \in main.ends : is_eof[r]
  /\ main.pc = "err" => \A r \in Pipes : main.snap[r] => is_ready[r]
  /\ main.pc = "in" => (main.snap["in"] => is_ready["in"])
  /\ main.pc = "close" => main.ends = Pipes
  /\ main.pc = "drain_in" => is_eof["err"]
  /\ main.pc = "closed" => \A r \in Pipes : is_eof[r]
Shapes == /\ is_eof \in [Pipes -> BOOLEAN] /\ has_line \in [Pipes -> BOOLEAN]
          /\ do_read \in [Pipes -> BOOLEAN] /\ is_ready \in [Pipes -> BOOLEAN]
          /\ DOMAIN rd = Pipes /\ DOMAIN got = Pipes
LinesInv == /\ Shapes /\ ~died /\ num_ready = Ready("in") + Ready("err")
            /\ MainInv /\ \A r \in Pipes : ReaderInv(r)

\* What is ahead after k lines is line k + 1, its end, and what is ahead after k + 1.
LEMMA AheadFacts ==
  ASSUME NEW r \in Pipes
  PROVE  /\ \A k \in 0 .. Count(r) : Ahead(r, k) \in Seq(Chars)
         /\ \A k \in 0 .. Count(r) :
              k < Count(r) => /\ k + 1 \in 0 .. Count(r)
                              /\ Ahead(r, k) = Append(Text[r][k + 1], NL) \o Ahead(r, k + 1)
         /\ Ahead(r, Count(r)) = <<>>
         /\ Lines!Stream(r) = IF r \in Broken THEN Lines!Front(Ahead(r, 0)) ELSE Ahead(r, 0)
<1>1. Leaves(r, Left(r)) BY LeftLeaves
<1>2. Count(r) \in Nat BY TextTypes
<1>3. \A k \in 0 .. Count(r) : k < Count(r) => k \in 0 .. Count(r) - 1 /\ k + 1 \in 0 .. Count(r) BY <1>2
<1>4. Lines!Stream(r) = IF r \in Broken THEN Lines!Front(Ahead(r, 0)) ELSE Ahead(r, 0)
  BY <1>1, UptoBegins DEF Leaves, Begins, Ahead
<1> QED BY <1>1, <1>2, <1>3, <1>4 DEF Leaves, Ahead

\* Text that is not empty ends with an end of line.
LEMMA LastIsEnd ==
  ASSUME NEW r \in Broken, r \in Pipes
  PROVE  Len(Ahead(r, 0)) >= 1 /\ Ahead(r, 0)[Len(Ahead(r, 0))] = NL
<1> DEFINE n == Count(r)
           a == Upto(r)[n - 1]
           b == Append(Text[r][n], NL)
           u == Ahead(r, 0)
<1>1. n \in 1 .. n /\ n - 1 \in 0 .. n BY TextTypes
<1>2. a \in Seq(Chars) /\ u = a \o b
  <2>1. Begins(r, Upto(r)) /\ Leaves(r, Left(r)) BY UptoBegins, LeftLeaves
  <2> HIDE DEF b
  <2>2. u = Upto(r)[n] BY <2>1 DEF Leaves, Ahead
  <2> QED BY <1>1, <2>1, <2>2 DEF Begins, b
<1>3. b \in Seq(Chars) /\ Len(b) \in Nat /\ Len(b) >= 1 /\ b[Len(b)] = NL
  <2>1. Text[r][n] \in Seq(Chars) /\ NL \in Chars BY <1>1, TextTypes
  <2> QED BY <2>1, AppendProperties
<1> HIDE DEF a, b, n
<1>4. Len(u) = Len(a) + Len(b) /\ Len(a) \in Nat BY <1>2, <1>3, ConcatProperties
<1>5. u[Len(u)] = b[Len(b)]
  <2>1. Len(u) \in 1 .. Len(a) + Len(b) /\ Len(u) > Len(a) /\ Len(u) - Len(a) = Len(b) BY <1>3, <1>4
  <2>2. (a \o b)[Len(u)] = IF Len(u) <= Len(a) THEN a[Len(u)] ELSE b[Len(u) - Len(a)]
    BY <2>1, <1>2, <1>3, ConcatProperties
  <2> QED BY <2>1, <2>2, <1>2, <1>3, <1>4
<1> QED BY <1>3, <1>4, <1>5

\* What has no end of line in it are letters.
LEMMA OnlyLetters ==
  ASSUME NEW s \in Seq(Chars), NEW n \in 0 .. Len(s), \A i \in 1 .. n : s[i] # NL
  PROVE  SubSeq(s, 1, n) \in Seq(Letters)
<1>1. \A i \in 1 .. n : s[i] \in Letters
  <2>1. \A i \in 1 .. n : s[i] \in Chars BY ElementOfSeq
  <2> QED BY <2>1 DEF Chars
<1> QED BY <1>1, SubSeqProperties

\* A line ahead of which there is no end is the last one: there is nothing.
LEMMA NothingAhead ==
  ASSUME NEW r \in Pipes, NEW k \in 0 .. Count(r), NEW l \in Seq(Letters), l = Ahead(r, k)
  PROVE  k = Count(r) /\ l = <<>>
<1>1. CASE k < Count(r)
  <2>1. l = Append(Text[r][k + 1], NL) \o Ahead(r, k + 1) /\ Ahead(r, k + 1) \in Seq(Chars)
    BY <1>1, AheadFacts
  <2>2. k + 1 \in 1 .. Count(r) BY <1>1, TextTypes
  <2>3. Text[r][k + 1] \in Seq(Letters) BY <2>2, TextTypes
  <2> QED BY <2>1, <2>3, NoEnd
<1>2. CASE k = Count(r) BY <1>2, AheadFacts
<1> QED BY <1>1, <1>2, TextTypes

\* A line with its end behind it is the next one.
LEMMA NextAhead ==
  ASSUME NEW r \in Pipes, NEW k \in 0 .. Count(r), NEW l \in Seq(Letters), NEW x \in Seq(Chars),
         l \o (<<NL>> \o x) = Ahead(r, k)
  PROVE  k < Count(r) /\ l = Text[r][k + 1] /\ x = Ahead(r, k + 1)
<1>0. NL \in Chars /\ Letters \subseteq Chars BY DEF Chars
<1>1. k # Count(r)
  <2> SUFFICES ASSUME k = Count(r) PROVE FALSE OBVIOUS
  <2>1. l \o (<<NL>> \o x) = <<>> BY AheadFacts
  <2> DEFINE a == <<NL>> \o x
  <2>2. l \in Seq(Chars) /\ a \in Seq(Chars) /\ a # <<>> BY <1>0, SeqMonotonic
  <2> HIDE DEF a
  <2>3. l \o a # <<>> BY <2>2, ConcatEqualIffEmpty
  <2> QED BY <2>1, <2>3 DEF a
<1>2. k < Count(r) /\ k + 1 \in 1 .. Count(r) BY <1>1, TextTypes
<1>3. Ahead(r, k) = Append(Text[r][k + 1], NL) \o Ahead(r, k + 1) /\ Ahead(r, k + 1) \in Seq(Chars)
  BY <1>2, AheadFacts
<1>4. Text[r][k + 1] \in Seq(Letters) BY <1>2, TextTypes
<1>5. l \o (<<NL>> \o x) = Append(Text[r][k + 1], NL) \o Ahead(r, k + 1) BY <1>3
<1>6. l = Text[r][k + 1] /\ x = Ahead(r, k + 1)
  <2> DEFINE t == Text[r][k + 1]
             y == Ahead(r, k + 1)
  <2>1. t \in Seq(Letters) /\ y \in Seq(Chars) /\ SameText(l, x, t, y)
    BY <1>3, <1>4, <1>5 DEF SameText
  <2> HIDE DEF t, y
  <2>2. l = t /\ x = y BY <2>1, FirstEnd
  <2> QED BY <2>2 DEF t, y
<1> QED BY <1>2, <1>6

\* A reader that a step leaves alone.
LEMMA Untouched ==
  ASSUME NEW r \in Pipes, ReaderInv(r), rd'[r] = rd[r], got'[r] = got[r],
         is_eof'[r] = is_eof[r], has_line'[r] = has_line[r], do_read'[r] = do_read[r],
         is_ready'[r] = is_ready[r], main.pc = "closed" => main'.pc = "closed"
  PROVE  ReaderInv(r)'
BY DEF ReaderInv, ReaderType, GotLines, Scanning, Giving, Holding, AtEnd, HoldsNext, Rest,
       Lacks, Given

\* A step of one reader that changes nothing of the main thread's but the flags.
WorkerFrame(r) ==
  /\ rd' = [rd EXCEPT ![r] = rd'[r]]
  /\ is_eof' = [is_eof EXCEPT ![r] = is_eof'[r]] /\ has_line' = [has_line EXCEPT ![r] = has_line'[r]]
  /\ do_read' = [do_read EXCEPT ![r] = do_read'[r]]
  /\ is_ready' = [is_ready EXCEPT ![r] = is_ready'[r]]
  /\ is_eof'[r] \in BOOLEAN /\ has_line'[r] \in BOOLEAN /\ do_read'[r] \in BOOLEAN
  /\ is_ready'[r] \in BOOLEAN
  /\ is_eof[r] => is_eof'[r]
  /\ is_ready[r] => is_ready'[r]
  /\ num_ready' = num_ready + Ready(r)' - Ready(r)
  /\ ~died' /\ UNCHANGED <<main, mode, got>>

\* A step of one reader keeps the invariant if what it leaves of that reader does.
LEMMA WorkerStep ==
  ASSUME LinesInv, NEW r \in Pipes, WorkerFrame(r), ReaderInv(r)'
  PROVE  LinesInv'
<1>1. Shapes' BY DEF LinesInv, Shapes, WorkerFrame
<1>2. \A q \in Pipes : ReaderInv(q)'
  <2> SUFFICES ASSUME NEW q \in Pipes, q # r PROVE ReaderInv(q)' OBVIOUS
  <2>1. /\ rd'[q] = rd[q] /\ got'[q] = got[q] /\ is_eof'[q] = is_eof[q] /\ has_line'[q] = has_line[q]
        /\ do_read'[q] = do_read[q] /\ is_ready'[q] = is_ready[q] /\ main' = main
    BY DEF LinesInv, Shapes, WorkerFrame
  <2>2. ReaderInv(q) BY DEF LinesInv
  <2> QED BY <2>1, <2>2, Untouched
<1>3. MainInv'
  <2>1. main' = main /\ mode' = mode BY DEF WorkerFrame
  <2>2. \A q \in Pipes : (is_eof[q] => is_eof'[q]) /\ (is_ready[q] => is_ready'[q])
    BY DEF LinesInv, Shapes, WorkerFrame
  <2>3. MainInv BY DEF LinesInv
  <2> QED BY <2>1, <2>2, <2>3 DEF MainInv, Pipes
<1>4. num_ready' = Ready("in")' + Ready("err")'
  <2>1. Ready("in") \in Int /\ Ready("err") \in Int /\ Ready("in")' \in Int /\ Ready("err")' \in Int
    BY DEF Ready
  <2>2. \A q \in Pipes : q # r => Ready(q)' = Ready(q)
    BY DEF LinesInv, Shapes, WorkerFrame, Ready
  <2>3. num_ready' = num_ready + Ready(r)' - Ready(r) /\ num_ready = Ready("in") + Ready("err")
    BY DEF WorkerFrame, LinesInv
  <2>4. CASE r = "in" BY <2>1, <2>2, <2>3, <2>4 DEF Pipes
  <2>5. CASE r = "err" BY <2>1, <2>2, <2>3, <2>5 DEF Pipes
  <2> QED BY <2>4, <2>5 DEF Pipes
<1>5. ~died' BY DEF WorkerFrame
<1> QED BY <1>1, <1>2, <1>3, <1>4, <1>5 DEF LinesInv

\* The flags of a reader that only moves text.
LEMMA MovesText ==
  ASSUME LinesInv, NEW r \in Pipes, rd' = [rd EXCEPT ![r] = rd'[r]], ~died',
         UNCHANGED <<is_eof, has_line, do_read, is_ready, num_ready, main, mode, got>>
  PROVE  WorkerFrame(r)
<1>1. Ready(r) \in Int /\ num_ready \in Int BY DEF Ready, LinesInv
<1>2. Ready(r)' = Ready(r) BY DEF Ready
<1> QED BY <1>1, <1>2 DEF LinesInv, Shapes, WorkerFrame

\* Reader m is one with these fields.
Has(m, at, rest, buf, line, eof) ==
  /\ m \in Readers /\ m.pc = at /\ m.rest = rest /\ m.buf = buf /\ m.line = line /\ m.eof = eof

\* What a step of worker() leaves of a reader: a read, the end of the pipe, text without
\* an end of line, a line, a hand-over, and the next line.
LEMMA AfterRead ==
  ASSUME NEW k \in Readers, NEW b \in Seq(Chars), NEW c \in Seq(Chars)
  PROVE  Has([k EXCEPT !.buf = b, !.rest = c], k.pc, c, b, k.line, k.eof)
BY DEF Has, Readers

\* The end of the pipe was read.
LEMMA AfterEnd ==
  ASSUME NEW k \in Readers, NEW b \in Seq(Chars)
  PROVE  Has([k EXCEPT !.eof = TRUE, !.buf = b], k.pc, k.rest, b, k.line, TRUE)
BY DEF Has, Readers

\* The buffer had no end of line: its text goes to the line.
LEMMA AfterText ==
  ASSUME NEW k \in Readers, NEW b \in Seq(Chars), NEW l \in Seq(Letters)
  PROVE  Has([k EXCEPT !.line = l, !.buf = b], k.pc, k.rest, b, l, k.eof)
BY DEF Has, Readers

\* The buffer had one: the line is complete.
LEMMA AfterLine ==
  ASSUME NEW k \in Readers, NEW b \in Seq(Chars), NEW l \in Seq(Letters)
  PROVE  Has([k EXCEPT !.line = l, !.buf = b, !.pc = "give"], "give", k.rest, b, l, k.eof)
BY DEF Has, Readers

\* The line, or the end, was handed over.
LEMMA AfterGive ==
  ASSUME NEW k \in Readers, NEW q \in {"hold", "done"}
  PROVE  Has([k EXCEPT !.pc = q], q, k.rest, k.buf, k.line, k.eof)
BY DEF Has, Readers

\* The line was taken: the next one begins.
LEMMA AfterResume ==
  ASSUME NEW k \in Readers, NEW l \in Seq(Letters)
  PROVE  Has([k EXCEPT !.pc = "scan", !.line = l], "scan", k.rest, k.buf, l, k.eof)
BY DEF Has, Readers

\* read(), and the empty buffer that the end of the pipe leaves: the end of line that a
\* broken text lacks is put there.
LEMMA FillStep ==
  ASSUME LinesInv, NEW r \in Pipes, Lines!Fill(r), Lines!Live
  PROVE  LinesInv'
<1> USE DEF Lines!Fill, Lines!Live, Lines!shared
<1>0. r \in DOMAIN rd /\ ReaderInv(r) /\ rd[r].pc = "scan" BY DEF LinesInv, Shapes
<1>1. WorkerFrame(r)
  <2>1. rd' = [rd EXCEPT ![r] = rd'[r]]
    <3>1. CASE \E n \in 1 .. BufSize :
                 rd' = [rd EXCEPT ![r].buf = SubSeq(rd[r].rest, 1, n), ![r].rest = SubSeq(@, n + 1, Len(@))]
      BY <3>1, <1>0
    <3>2. CASE rd' = [rd EXCEPT ![r].eof = TRUE,
                                ![r].buf = IF rd[r].line # <<>> THEN <<Lines!NL>> ELSE <<>>]
      BY <3>2, <1>0
    <3> QED BY <3>1, <3>2
  <2>2. /\ ~died'
        /\ UNCHANGED <<is_eof, has_line, do_read, is_ready, num_ready, main, mode, got>> OBVIOUS
  <2> QED BY <2>1, <2>2, MovesText
<1> DEFINE x == rd[r].rest
           y == Lacks(r)
           l == rd[r].line
<1>2. /\ x \in Seq(Chars) /\ l \in Seq(Letters) /\ rd[r].buf = <<>> /\ ~rd[r].eof
      /\ rd[r] \in Readers
  BY <1>0 DEF ReaderInv, ReaderType, Readers
<1>3. NL \in Chars /\ y \in Seq(Chars) /\ <<>> \in Seq(Chars) /\ <<NL>> \in Seq(Chars)
  <2>1. NL \in Chars BY DEF Chars
  <2>2. <<>> \in Seq(Chars) /\ <<NL>> \in Seq(Chars) BY <2>1
  <2> QED BY <2>1, <2>2 DEF Lacks
<1>4. l \o (<<>> \o (x \o y)) = Ahead(r, Given(r)) /\ Given(r) \in 0 .. Count(r)
  BY <1>0, <1>2 DEF ReaderInv, Scanning, Rest, GotLines
<1>5. l \o (x \o y) = Ahead(r, Given(r))
  <2> HIDE DEF x, y, l
  <2>1. x \o y \in Seq(Chars) BY <1>2, <1>3
  <2>2. <<>> \o (x \o y) = x \o y BY <2>1, ConcatEmptySeq
  <2> QED BY <1>4, <2>2
<1>6. Given(r)' = Given(r) BY DEF Given
<1>7. ReaderType(r)' /\ rd'[r].pc = "scan" /\ rd'[r].line \o Rest(r)' = Ahead(r, Given(r))
  <2>1. CASE \E n \in 1 .. BufSize :
               /\ n <= Len(rd[r].rest)
               /\ rd' = [rd EXCEPT ![r].buf = SubSeq(rd[r].rest, 1, n),
                                   ![r].rest = SubSeq(@, n + 1, Len(@))]
    <3> PICK n \in 1 .. BufSize : 
               /\ n <= Len(rd[r].rest)
               /\ rd' = [rd EXCEPT ![r].buf = SubSeq(rd[r].rest, 1, n),
                                   ![r].rest = SubSeq(@, n + 1, Len(@))]
      BY <2>1
    <3> DEFINE b == SubSeq(x, 1, n)
               c == SubSeq(x, n + 1, Len(x))
    <3>0. BufSize \in Nat BY LinesAssumption
    <3>1. b \in Seq(Chars) /\ c \in Seq(Chars) /\ b \o c = x
      <4>1. n \in 0 .. Len(x) BY <1>2, <3>0
      <4> HIDE DEF x
      <4> QED BY <1>2, <4>1, Cut
    <3>2. rd'[r] = [rd[r] EXCEPT !.buf = b, !.rest = c] BY <1>0
    <3> HIDE DEF b, c
    <3>3. Has(rd'[r], "scan", c, b, l, FALSE)
      <4> DEFINE k == rd[r]
      <4>1. k \in Readers /\ k.pc = "scan" /\ k.eof = FALSE BY <1>0, <1>2 DEF Readers
      <4>2. rd'[r] = [k EXCEPT !.buf = b, !.rest = c] BY <3>2
      <4>3. Has([k EXCEPT !.buf = b, !.rest = c], k.pc, c, b, k.line, k.eof)
        <5> HIDE DEF k
        <5> QED BY <4>1, <3>1, AfterRead
      <4> QED BY <4>1, <4>2, <4>3
    <3>4. Lacks(r)' = y BY <3>3, <1>2 DEF Lacks, Has
    <3>5. ReaderType(r)' BY <3>3 DEF ReaderType, Has
    <3>6. b \o (c \o y) = x \o y
      <4> HIDE DEF x, y
      <4>1. Associates(Chars) BY ConcatenationLaws
      <4>2. (b \o c) \o y = b \o (c \o y) BY <4>1, <3>1, <1>3, Zenon DEF Associates
      <4> QED BY <4>2, <3>1
    <3>7. Rest(r)' = x \o y BY <3>3, <3>4, <3>6 DEF Rest, Has
    <3> HIDE DEF x, y, l
    <3> QED BY <1>5, <3>3, <3>5, <3>7 DEF Has
  <2>2. CASE /\ rd[r].rest = <<>>
             /\ rd' = [rd EXCEPT ![r].eof = TRUE,
                                 ![r].buf = IF rd[r].line # <<>> THEN <<NL>> ELSE <<>>]
    <3> DEFINE b == IF l # <<>> THEN <<NL>> ELSE <<>>
    <3>1. rd'[r] = [rd[r] EXCEPT !.eof = TRUE, !.buf = b] BY <2>2, <1>0
    <3>2. b \in Seq(Chars) BY <1>3
    <3>3. b = y
      <4>1. l \o y = Ahead(r, Given(r))
        <5>1. x \o y = y BY <2>2, <1>3, ConcatEmptySeq
        <5> QED BY <5>1, <1>5
      <4>2. CASE r \in Broken
        <5>1. y = <<NL>> BY <4>2, <1>2 DEF Lacks
        <5>2. y = <<NL>> \o <<>> BY <5>1, <1>3, ConcatEmptySeq
        <5>3. /\ Given(r) < Count(r) /\ l = Text[r][Given(r) + 1]
              /\ <<>> = Ahead(r, Given(r) + 1)
          <6> HIDE DEF l, y
          <6>1. l \o (<<NL>> \o <<>>) = Ahead(r, Given(r)) BY <4>1, <5>2
          <6> QED BY <6>1, <1>2, <1>3, <1>4, NextAhead
        <5>4. Given(r) + 1 \in 0 .. Count(r) BY <1>4, <5>3, TextTypes
        <5>5. <<>> \in Seq(Letters) OBVIOUS
        <5>6. Given(r) + 1 = Count(r) BY <5>3, <5>4, <5>5, NothingAhead
        <5>7. l # <<>> BY <5>3, <5>6, <4>2, TextTypes
        <5> QED BY <5>1, <5>7
      <4>3. CASE r \notin Broken
        <5>1. y = <<>> BY <4>3 DEF Lacks
        <5>2. l \o y = l BY <5>1, <1>2, ConcatEmptySeq
        <5>3. l = <<>>
          <6> HIDE DEF l, y
          <6>1. l = Ahead(r, Given(r)) BY <5>2, <4>1
          <6> QED BY <6>1, <1>2, <1>4, NothingAhead
        <5> QED BY <5>1, <5>3
      <4> QED BY <4>2, <4>3
    <3> HIDE DEF b
    <3>4. Has(rd'[r], "scan", <<>>, b, l, TRUE)
      <4> DEFINE k == rd[r]
      <4>1. k \in Readers /\ k.pc = "scan" /\ k.rest = <<>> BY <1>0, <1>2, <2>2
      <4>2. rd'[r] = [k EXCEPT !.eof = TRUE, !.buf = b] BY <3>1
      <4>3. Has([k EXCEPT !.eof = TRUE, !.buf = b], k.pc, k.rest, b, k.line, TRUE)
        <5> HIDE DEF k
        <5> QED BY <4>1, <3>2, AfterEnd
      <4> QED BY <4>1, <4>2, <4>3
    <3>5. Lacks(r)' = <<>> BY <3>4 DEF Lacks, Has
    <3>6. ReaderType(r)' BY <3>4 DEF ReaderType, Has
    <3>7. Rest(r)' = y
      <4>1. Rest(r)' = b \o (<<>> \o <<>>) BY <3>4, <3>5 DEF Rest, Has
      <4>2. b \o (<<>> \o <<>>) = b BY <3>2, <1>3, ConcatEmptySeq
      <4> QED BY <4>1, <4>2, <3>3
    <3>8. l \o y = Ahead(r, Given(r))
      <4>1. x \o y = y BY <2>2, <1>3, ConcatEmptySeq
      <4> QED BY <4>1, <1>5
    <3> HIDE DEF x, y, l
    <3> QED BY <3>4, <3>6, <3>7, <3>8 DEF Has
  <2> QED BY <2>1, <2>2 DEF NL
<1>8. ReaderInv(r)'
  <2>1. GotLines(r)' BY <1>0 DEF ReaderInv, GotLines, Given
  <2>2. Scanning(r)' BY <1>0, <1>6, <1>7 DEF ReaderInv, Scanning
  <2> QED BY <1>7, <2>1, <2>2 DEF ReaderInv, Giving, Holding, AtEnd
<1> QED BY <1>1, <1>8, WorkerStep

\* A line is completed from the buffer: up to its first end of line, or by all of it.
LEMMA ScanStep ==
  ASSUME LinesInv, NEW r \in Pipes, Lines!Scan(r), Lines!Live
  PROVE  LinesInv'
<1> DEFINE k == rd[r]
           buf == rd[r].buf
           ends == {i \in DOMAIN buf : buf[i] = NL}
           pos == CHOOSE i \in ends : \A j \in ends : i <= j
           x == k.rest \o Lacks(r)
           m == rd'[r]
<1>0. r \in DOMAIN rd /\ ReaderInv(r) /\ k.pc = "scan" BY DEF LinesInv, Shapes, Lines!Scan
<1>1. /\ k.rest \in Seq(Chars) /\ k.line \in Seq(Letters) /\ buf \in Seq(Chars) /\ k \in Readers
      /\ k.eof => k.rest = <<>>
  BY <1>0 DEF ReaderInv, ReaderType, Readers
<1>2. Lacks(r) \in Seq(Chars)
  <2>1. NL \in Chars BY DEF Chars
  <2>2. <<>> \in Seq(Chars) /\ <<NL>> \in Seq(Chars) BY <2>1
  <2> QED BY <2>2 DEF Lacks
<1>3. x \in Seq(Chars) BY <1>1, <1>2
<1>4. k.line \o (buf \o x) = Ahead(r, Given(r)) /\ Given(r) \in 0 .. Count(r)
  BY <1>0 DEF ReaderInv, Scanning, Rest, GotLines
<1>5. WorkerFrame(r)
  <2>1. rd' = [rd EXCEPT ![r] = rd'[r]]
    <3>1. CASE rd' = [rd EXCEPT ![r].line = @ \o buf, ![r].buf = <<>>] BY <3>1, <1>0
    <3>2. CASE rd' = [rd EXCEPT ![r].line = @ \o SubSeq(buf, 1, pos - 1),
                                ![r].buf = SubSeq(@, pos + 1, Len(@)), ![r].pc = "give"]
      <4> DEFINE p == pos
      <4>1. rd' = [rd EXCEPT ![r].line = @ \o SubSeq(buf, 1, p - 1),
                             ![r].buf = SubSeq(@, p + 1, Len(@)), ![r].pc = "give"]
        BY <3>2
      <4> HIDE DEF p, pos, ends, x, m
      <4> QED BY <4>1, <1>0
    <3> QED BY <3>1, <3>2 DEF Lines!Scan, NL
  <2>2. /\ ~died'
        /\ UNCHANGED <<is_eof, has_line, do_read, is_ready, num_ready, main, mode, got>>
    BY DEF Lines!Scan, Lines!Live, Lines!shared
  <2> QED BY <2>1, <2>2, MovesText
<1>6. /\ Given(r)' = Given(r) /\ GotLines(r)'
      /\ is_ready'[r] = is_ready[r] /\ has_line'[r] = has_line[r] /\ is_eof'[r] = is_eof[r]
      /\ ~is_ready[r] /\ ~has_line[r] /\ ~is_eof[r]
  BY <1>0 DEF Lines!Scan, Lines!shared, ReaderInv, GotLines, Given, Scanning
<1>7. CASE ends = {}
  <2>1. m = [k EXCEPT !.line = k.line \o buf, !.buf = <<>>]
    BY <1>0, <1>7 DEF Lines!Scan, NL
  <2>2. buf \in Seq(Letters)
    <3>1. \A i \in 1 .. Len(buf) : buf[i] # NL BY <1>7, <1>1
    <3>2. Len(buf) \in 0 .. Len(buf) BY <1>1
    <3> HIDE DEF buf
    <3>3. SubSeq(buf, 1, Len(buf)) \in Seq(Letters) BY <1>1, <3>1, <3>2, OnlyLetters
    <3> QED BY <3>3, <1>1, SubSeqFull
  <2> DEFINE l == k.line \o buf
             e == <<>>
  <2>3. l \in Seq(Letters) /\ e \in Seq(Chars) BY <1>1, <2>2
  <2>4. Has(m, "scan", k.rest, e, l, k.eof)
    <3>1. m = [k EXCEPT !.line = l, !.buf = e] BY <2>1
    <3> HIDE DEF k, l, m, e
    <3> QED BY <1>0, <1>1, <2>3, <3>1, AfterText
  <2>5. l \o (e \o x) = k.line \o (buf \o x)
    <3>1. e \o x = x BY <1>3, ConcatEmptySeq
    <3>2. k.line \in Seq(Chars)
      <4>1. Letters \subseteq Chars BY DEF Chars
      <4> QED BY <4>1, <1>1, SeqMonotonic
    <3>3. (k.line \o buf) \o x = k.line \o (buf \o x)
      <4>1. Associates(Chars) BY ConcatenationLaws
      <4> HIDE DEF k, buf, x
      <4> QED BY <4>1, <3>2, <1>1, <1>3, Zenon DEF Associates
    <3> QED BY <3>1, <3>3
  <2> HIDE DEF l, e
  <2>6. Lacks(r)' = Lacks(r) BY <2>4 DEF Lacks, Has
  <2>7. m.line \o Rest(r)' = Ahead(r, Given(r)) BY <2>4, <2>5, <2>6, <1>4 DEF Rest, Has
  <2>8. ReaderType(r)' BY <2>4, <1>1 DEF ReaderType, Has
  <2>9. ReaderInv(r)'
    <3>1. m.pc = "scan" BY <2>4 DEF Has
    <3>2. Scanning(r)' BY <2>7, <1>6, <1>0 DEF ReaderInv, Scanning
    <3> QED BY <3>1, <3>2, <2>8, <1>6 DEF ReaderInv, Giving, Holding, AtEnd
  <2> QED BY <1>5, <2>9, WorkerStep
<1>8. CASE ends # {}
  <2>1. pos \in ends /\ \A j \in ends : pos <= j
    <3>1. ends \in SUBSET Nat BY <1>1
    <3>2. \E i \in ends : \A j \in ends : i <= j
      <4> HIDE DEF ends
      <4> QED BY <3>1, <1>8, LeastMember
    <3> HIDE DEF ends
    <3> QED BY <3>2
  <2>2. pos \in 1 .. Len(buf) /\ buf[pos] = NL /\ \A i \in 1 .. pos - 1 : buf[i] # NL
    <3>1. DOMAIN buf = 1 .. Len(buf) /\ Len(buf) \in Nat BY <1>1
    <3>2. pos \in 1 .. Len(buf) /\ buf[pos] = NL
      <4> HIDE DEF pos, buf
      <4> QED BY <2>1, <3>1
    <3>3. ASSUME NEW i \in 1 .. pos - 1, buf[i] = NL PROVE FALSE
      <4>1. i \in 1 .. Len(buf) /\ i < pos BY <3>1, <3>2
      <4>2. i \in ends BY <4>1, <3>1, <3>3
      <4>3. pos <= i BY <2>1, <4>2
      <4> QED BY <4>1, <4>3, <3>2
    <3> QED BY <3>2, <3>3
  <2> DEFINE a == SubSeq(buf, 1, pos - 1)
             b == SubSeq(buf, pos + 1, Len(buf))
             l == k.line \o a
  <2>3. /\ a \in Seq(Letters) /\ a \in Seq(Chars) /\ b \in Seq(Chars)
        /\ buf = a \o (<<NL>> \o b)
    <3> HIDE DEF pos, buf
    <3>1. pos - 1 \in 0 .. Len(buf) BY <2>2, <1>1
    <3>2. a \in Seq(Letters) BY <3>1, <2>2, <1>1, OnlyLetters
    <3>3. a \in Seq(Chars) /\ b \in Seq(Chars) /\ buf = a \o (<<buf[pos]>> \o b) BY <2>2, <1>1, CutAt
    <3> QED BY <3>2, <3>3, <2>2
  <2>4. m = [k EXCEPT !.line = k.line \o a, !.buf = b, !.pc = "give"]
    BY <1>0, <1>8 DEF Lines!Scan, NL
  <2>5. l \in Seq(Letters)
    <3> HIDE DEF k, a
    <3> QED BY <1>1, <2>3
  <2>6. Has(m, "give", k.rest, b, l, k.eof)
    <3> HIDE DEF k, l, m, b
    <3>1. m = [k EXCEPT !.line = l, !.buf = b, !.pc = "give"] BY <2>4 DEF l
    <3> QED BY <1>1, <2>3, <2>5, <3>1, AfterLine
  <2>7. l \o (<<NL>> \o (b \o x)) = Ahead(r, Given(r))
    <3> DEFINE e == <<NL>>
               t == k.line
    <3>1. e \in Seq(Chars) /\ t \in Seq(Chars)
      <4>1. Letters \subseteq Chars /\ NL \in Chars BY DEF Chars
      <4>2. t \in Seq(Chars) BY <4>1, <1>1, SeqMonotonic
      <4> QED BY <4>1, <4>2
    <3>2. Associates(Chars) BY ConcatenationLaws
    <3> HIDE DEF e, t, a, b, x, buf, k
    <3>3. buf \o x = a \o (e \o (b \o x))
      <4>1. e \o b \in Seq(Chars) BY <3>1, <2>3
      <4>2. (a \o (e \o b)) \o x = a \o ((e \o b) \o x) BY <4>1, <3>2, <2>3, <1>3, Zenon DEF Associates
      <4>3. (e \o b) \o x = e \o (b \o x) BY <3>1, <3>2, <2>3, <1>3, Zenon DEF Associates
      <4>4. buf = a \o (e \o b) BY <2>3 DEF e
      <4> QED BY <4>2, <4>3, <4>4
    <3>4. (t \o a) \o (e \o (b \o x)) = t \o (a \o (e \o (b \o x)))
      <4>1. b \o x \in Seq(Chars) BY <2>3, <1>3
      <4>2. e \o (b \o x) \in Seq(Chars) BY <4>1, <3>1
      <4> QED BY <4>2, <3>1, <3>2, <2>3, Zenon DEF Associates
    <3>5. t \o (buf \o x) = Ahead(r, Given(r)) BY <1>4 DEF t
    <3>6. (t \o a) \o (e \o (b \o x)) = Ahead(r, Given(r)) BY <3>3, <3>4, <3>5
    <3> QED BY <3>6 DEF e, t
  <2>8. /\ Given(r) < Count(r) /\ l = Text[r][Given(r) + 1]
        /\ b \o x = Ahead(r, Given(r) + 1)
    <3>1. b \o x \in Seq(Chars)
      <4> HIDE DEF a, b, x, buf
      <4> QED BY <2>3, <1>3, ConcatProperties
    <3> DEFINE z == b \o x
    <3> HIDE DEF l, z
    <3>2. l \o (<<NL>> \o z) = Ahead(r, Given(r)) BY <2>7 DEF z
    <3>3. /\ Given(r) < Count(r) /\ l = Text[r][Given(r) + 1]
          /\ z = Ahead(r, Given(r) + 1)
      BY <3>1, <3>2, <2>5, <1>4, NextAhead DEF z
    <3> QED BY <3>3 DEF z
  <2> HIDE DEF l, a, b
  <2>9. ReaderInv(r)'
    <3>1. m.pc = "give" /\ m.line = l /\ Lacks(r)' = Lacks(r) BY <2>6 DEF Has, Lacks
    <3>2. Rest(r)' = b \o x BY <2>6, <3>1 DEF Has, Rest
    <3>3. HoldsNext(r)' BY <3>1, <3>2, <2>8, <1>6 DEF HoldsNext
    <3>4. ReaderType(r)' BY <2>6, <1>1 DEF ReaderType, Has
    <3> QED BY <3>1, <3>3, <3>4, <1>6 DEF ReaderInv, Scanning, Giving, Holding, AtEnd
  <2> QED BY <1>5, <2>9, WorkerStep
<1> QED BY <1>7, <1>8

\* A hand-over of a reader that is not ready.
LEMMA GiveFrame ==
  ASSUME LinesInv, NEW r \in Pipes, NEW eof \in BOOLEAN, Lines!Give(r, eof),
         ~is_ready[r], ~is_eof[r]
  PROVE  /\ WorkerFrame(r) /\ is_eof'[r] = eof /\ has_line'[r] = ~eof /\ is_ready'[r]
         /\ do_read'[r] = FALSE
         /\ rd'[r] = [rd[r] EXCEPT !.pc = IF eof THEN "done" ELSE "hold"]
<1>0. r \in DOMAIN rd BY DEF LinesInv, Shapes
<1>1. rd'[r] = [rd[r] EXCEPT !.pc = IF eof THEN "done" ELSE "hold"] /\ rd' = [rd EXCEPT ![r] = rd'[r]]
  BY <1>0 DEF Lines!Give
<1>2. /\ is_eof' = [is_eof EXCEPT ![r] = eof] /\ has_line' = [has_line EXCEPT ![r] = ~eof]
      /\ do_read' = [do_read EXCEPT ![r] = FALSE] /\ is_ready' = [is_ready EXCEPT ![r] = TRUE]
      /\ num_ready' = num_ready + 1 /\ UNCHANGED <<main, mode, got>>
      /\ died' = (is_ready[r] \/ num_ready = MaxChild)
  BY DEF Lines!Give
<1>3. is_eof'[r] = eof /\ has_line'[r] = ~eof /\ is_ready'[r] /\ do_read'[r] = FALSE
  BY <1>2 DEF LinesInv, Shapes
<1>4. Ready(r) = 0 /\ Ready(r)' = 1 BY <1>3 DEF Ready
<1>5. num_ready \in Int /\ num_ready < 2
  BY <1>4 DEF LinesInv, Ready, Pipes
<1>6. ~died'
  <2>1. died' = (is_ready[r] \/ num_ready = MaxChild) BY <1>2
  <2>2. num_ready # MaxChild BY <1>5, LinesAssumption
  <2> QED BY <2>1, <2>2
<1>7. WorkerFrame(r)
  <2>1. /\ is_eof' = [is_eof EXCEPT ![r] = is_eof'[r]] /\ has_line' = [has_line EXCEPT ![r] = has_line'[r]]
        /\ do_read' = [do_read EXCEPT ![r] = do_read'[r]]
        /\ is_ready' = [is_ready EXCEPT ![r] = is_ready'[r]]
    BY <1>2, <1>3
  <2>2. num_ready' = num_ready + Ready(r)' - Ready(r) BY <1>2, <1>4, <1>5
  <2>3. UNCHANGED <<main, mode, got>> BY <1>2
  <2>4. /\ is_eof'[r] \in BOOLEAN /\ has_line'[r] \in BOOLEAN /\ do_read'[r] \in BOOLEAN
        /\ is_ready'[r] \in BOOLEAN
    <3>1. is_ready'[r] = TRUE BY <1>2 DEF LinesInv, Shapes
    <3> QED BY <1>3, <3>1
  <2> QED BY <1>1, <1>3, <1>6, <2>1, <2>2, <2>3, <2>4 DEF WorkerFrame
<1> QED BY <1>1, <1>3, <1>7

\* The complete line is handed over.
LEMMA GiveLineStep ==
  ASSUME LinesInv, NEW r \in Pipes, Lines!GiveLine(r), Lines!Live
  PROVE  LinesInv'
<1>0. ReaderInv(r) /\ rd[r].pc = "give" /\ Lines!Give(r, FALSE)
  BY DEF LinesInv, Lines!GiveLine
<1>1. ~is_ready[r] /\ ~is_eof[r] /\ HoldsNext(r) BY <1>0 DEF ReaderInv, Giving
<1>2. /\ WorkerFrame(r) /\ is_eof'[r] = FALSE /\ has_line'[r] /\ is_ready'[r] /\ do_read'[r] = FALSE
      /\ rd'[r] = [rd[r] EXCEPT !.pc = "hold"]
  BY <1>0, <1>1, GiveFrame
<1>3. rd[r] \in Readers BY <1>0 DEF ReaderInv, ReaderType
<1>4. Has(rd'[r], "hold", rd[r].rest, rd[r].buf, rd[r].line, rd[r].eof) BY <1>2, <1>3, AfterGive
<1>5. got' = got BY DEF Lines!GiveLine, Lines!Give
<1>6. HoldsNext(r)' BY <1>1, <1>4, <1>5 DEF HoldsNext, Has, Rest, Lacks, Given
<1>7. ReaderType(r)' /\ GotLines(r)' BY <1>0, <1>4, <1>5 DEF ReaderInv, ReaderType, GotLines, Given, Has
<1>8. ReaderInv(r)'
  <2>1. rd'[r].pc = "hold" BY <1>4 DEF Has
  <2> QED BY <2>1, <1>2, <1>6, <1>7 DEF ReaderInv, Scanning, Giving, Holding, AtEnd
<1> QED BY <1>2, <1>8, WorkerStep

\* The end is handed over: nothing is ahead then.
LEMMA GiveEndStep ==
  ASSUME LinesInv, NEW r \in Pipes, Lines!GiveEnd(r), Lines!Live
  PROVE  LinesInv'
<1>0. /\ ReaderInv(r) /\ rd[r].pc = "scan" /\ rd[r].buf = <<>> /\ rd[r].eof
      /\ Lines!Give(r, TRUE)
  BY DEF LinesInv, Lines!GiveEnd
<1>1. ~is_ready[r] /\ ~is_eof[r] /\ rd[r].line \o Rest(r) = Ahead(r, Given(r))
  BY <1>0 DEF ReaderInv, Scanning
<1>2. /\ WorkerFrame(r) /\ is_eof'[r] /\ has_line'[r] = FALSE /\ is_ready'[r]
      /\ rd'[r] = [rd[r] EXCEPT !.pc = "done"]
  BY <1>0, <1>1, GiveFrame
<1>3. rd[r] \in Readers /\ rd[r].rest = <<>> /\ rd[r].line \in Seq(Letters)
  BY <1>0 DEF ReaderInv, ReaderType, Readers
<1>4. Has(rd'[r], "done", rd[r].rest, rd[r].buf, rd[r].line, rd[r].eof) BY <1>2, <1>3, AfterGive
<1>5. got' = got BY DEF Lines!GiveEnd, Lines!Give
<1>6. Given(r) = Count(r)
  <2> DEFINE l == rd[r].line
  <2>1. Rest(r) = <<>>
    <3>1. Rest(r) = <<>> \o (<<>> \o <<>>) BY <1>0, <1>3 DEF Rest, Lacks
    <3>2. <<>> \o <<>> = <<>> BY <1>3, ConcatEmptySeq
    <3> QED BY <3>1, <3>2
  <2>2. l \o <<>> = l BY <1>3, ConcatEmptySeq
  <2>3. l = Ahead(r, Given(r)) /\ Given(r) \in 0 .. Count(r)
    BY <1>0, <1>1, <2>1, <2>2 DEF ReaderInv, GotLines
  <2>4. l \in Seq(Letters) BY <1>3
  <2> HIDE DEF l
  <2> QED BY <2>3, <2>4, NothingAhead
<1>7. ReaderType(r)' /\ GotLines(r)' BY <1>0, <1>4, <1>5 DEF ReaderInv, ReaderType, GotLines, Given, Has
<1>8. ReaderInv(r)'
  <2>1. rd'[r].pc = "done" /\ Given(r)' = Given(r) BY <1>4, <1>5 DEF Has, Given
  <2> QED BY <2>1, <1>2, <1>6, <1>7 DEF ReaderInv, Scanning, Giving, Holding, AtEnd
<1> QED BY <1>2, <1>8, WorkerStep

\* A reader that waits goes on only after its line was taken.
LEMMA ResumeStep ==
  ASSUME LinesInv, NEW r \in Pipes, Lines!Resume(r), Lines!Live
  PROVE  LinesInv'
<1>0. /\ r \in DOMAIN rd /\ ReaderInv(r) /\ rd[r].pc = "hold" /\ do_read[r]
      /\ died' = is_ready[r]
      /\ rd' = [rd EXCEPT ![r] = Lines!NextLine(@)]
      /\ UNCHANGED <<is_eof, has_line, do_read, is_ready, num_ready, main, mode, got>>
  BY DEF LinesInv, Shapes, Lines!Resume, Lines!shared
<1>1. ~is_eof[r] /\ ~has_line[r] /\ ~is_ready[r] /\ Rest(r) = Ahead(r, Given(r))
  BY <1>0 DEF ReaderInv, Holding, LinesInv, Shapes
<1>2. rd'[r] = [rd[r] EXCEPT !.pc = "scan", !.line = <<>>] /\ rd' = [rd EXCEPT ![r] = rd'[r]]
  BY <1>0 DEF Lines!NextLine
<1>3. rd[r] \in Readers /\ <<>> \in Seq(Letters) BY <1>0 DEF ReaderInv, ReaderType
<1>4. Has(rd'[r], "scan", rd[r].rest, rd[r].buf, <<>>, rd[r].eof)
  <2> DEFINE e == <<>>
  <2>1. e \in Seq(Letters) /\ rd'[r] = [rd[r] EXCEPT !.pc = "scan", !.line = e] BY <1>2, <1>3
  <2> HIDE DEF e
  <2>2. Has(rd'[r], "scan", rd[r].rest, rd[r].buf, e, rd[r].eof) BY <2>1, <1>3, AfterResume
  <2> QED BY <2>2 DEF e
<1>5. WorkerFrame(r) BY <1>0, <1>1, <1>2, MovesText
<1>6. Rest(r)' = Rest(r) /\ Given(r)' = Given(r) BY <1>0, <1>4 DEF Rest, Lacks, Has, Given
<1>7. <<>> \o Rest(r) = Rest(r)
  <2>1. Ahead(r, Given(r)) \in Seq(Chars) BY <1>0, AheadFacts DEF ReaderInv, GotLines
  <2> QED BY <2>1, <1>1, ConcatEmptySeq
<1>8. ReaderType(r)' /\ GotLines(r)' BY <1>0, <1>4 DEF ReaderInv, ReaderType, GotLines, Given, Has
<1>9. ReaderInv(r)'
  <2>1. rd'[r].pc = "scan" /\ rd'[r].line = <<>> BY <1>4 DEF Has
  <2>2. rd'[r].line \o Rest(r)' = Ahead(r, Given(r)') BY <2>1, <1>1, <1>6, <1>7
  <2>3. Scanning(r)' BY <2>2, <1>0, <1>1 DEF Scanning
  <2> QED BY <2>1, <2>3, <1>8 DEF ReaderInv, Giving, Holding, AtEnd
<1> QED BY <1>5, <1>9, WorkerStep

\* Reader::getline() of a reader that has a line or has ended.
LEMMA GetLineStep ==
  ASSUME LinesInv, NEW r \in Pipes, Lines!GetLine(r), main.pc # "closed"
  PROVE  /\ Shapes' /\ ~died' /\ num_ready' = Ready("in")' + Ready("err")'
         /\ \A q \in Pipes : ReaderInv(q)'
         /\ \A q \in Pipes : q # r => is_ready'[q] = is_ready[q]
         /\ is_eof' = is_eof /\ mode' = mode
<1>0. /\ is_eof[r] \/ has_line[r]
      /\ died' = (~is_ready[r] \/ num_ready = 0)
      /\ UNCHANGED <<rd, is_eof, mode>>
  BY DEF Lines!GetLine
<1>1. ReaderInv(r) /\ r \in DOMAIN got /\ r \in DOMAIN is_ready /\ is_ready[r] \in BOOLEAN
  BY DEF LinesInv, Shapes
<1>2. rd[r].pc \in {"scan", "give", "hold", "done"} /\ rd[r].line \in Seq(Letters)
  BY <1>1 DEF ReaderInv, ReaderType, Readers
<1>3. /\ is_eof[r] => rd[r].pc = "done"
      /\ ~is_eof[r] => rd[r].pc = "hold" /\ has_line[r] /\ HoldsNext(r)
      /\ is_ready[r]
  BY <1>0, <1>1, <1>2 DEF ReaderInv, Scanning, Giving, Holding, AtEnd, LinesInv, Shapes
<1>4. Ready("in") \in {0, 1} /\ Ready("err") \in {0, 1} /\ Ready(r) = 1 BY <1>3 DEF Ready
<1>5. num_ready = Ready("in") + Ready("err") BY DEF LinesInv
<1>6. ~died'
  <2>1. num_ready # 0 BY <1>4, <1>5 DEF Pipes
  <2> QED BY <2>1, <1>0, <1>3
<1>7. CASE is_eof[r]
  <2>1. UNCHANGED <<is_ready, num_ready, has_line, do_read, got>>
    BY <1>7 DEF Lines!GetLine, Lines!ReadyAtEnd
  <2>2. \A q \in Pipes : ReaderInv(q)'
    <3> SUFFICES ASSUME NEW q \in Pipes PROVE ReaderInv(q)' OBVIOUS
    <3>1. ReaderInv(q) BY DEF LinesInv
    <3> QED BY <3>1, <2>1, <1>0, Untouched
  <2>3. Shapes' BY <2>1, <1>0 DEF LinesInv, Shapes
  <2>4. num_ready' = Ready("in")' + Ready("err")' BY <2>1, <1>5 DEF Ready
  <2> QED BY <1>0, <1>6, <2>1, <2>2, <2>3, <2>4
<1>8. CASE ~is_eof[r]
  <2>1. /\ got' = [got EXCEPT ![r] = Append(got[r], rd[r].line)]
        /\ is_ready' = [is_ready EXCEPT ![r] = FALSE] /\ num_ready' = num_ready - 1
        /\ has_line' = [has_line EXCEPT ![r] = FALSE] /\ do_read' = [do_read EXCEPT ![r] = TRUE]
    BY <1>8 DEF Lines!GetLine
  <2>2. Shapes' BY <2>1, <1>0 DEF LinesInv, Shapes
  <2>3. \A q \in Pipes : q # r => /\ is_ready'[q] = is_ready[q] /\ got'[q] = got[q]
                                 /\ has_line'[q] = has_line[q] /\ do_read'[q] = do_read[q]
    BY <2>1 DEF LinesInv, Shapes
  <2>4. /\ got'[r] = Append(got[r], rd[r].line) /\ ~is_ready'[r] /\ ~has_line'[r] /\ do_read'[r]
    BY <2>1 DEF LinesInv, Shapes
  <2>5. num_ready' = Ready("in")' + Ready("err")'
    <3>1. Ready(r)' = 0 /\ \A q \in Pipes : q # r => Ready(q)' = Ready(q) BY <2>3, <2>4 DEF Ready
    <3>2. CASE r = "in" BY <3>1, <3>2, <1>4, <1>5, <2>1 DEF Pipes
    <3>3. CASE r = "err" BY <3>1, <3>3, <1>4, <1>5, <2>1 DEF Pipes
    <3> QED BY <3>2, <3>3 DEF Pipes
  <2>6. ReaderInv(r)'
    <3> DEFINE g == Given(r)
               n == Count(r)
               a == got[r]
               l == rd[r].line
    <3>1. /\ g \in 0 .. n /\ a \in Seq(Seq(Letters)) /\ g < n /\ l = Text[r][g + 1]
          /\ Rest(r) = Ahead(r, g + 1) /\ \A i \in 1 .. g : a[i] = Text[r][i] /\ Len(a) = g
      BY <1>1, <1>3, <1>8 DEF ReaderInv, GotLines, HoldsNext, Given
    <3>a. n \in Nat /\ Len(a) = g BY TextTypes DEF Given
    <3>b. /\ Append(a, l) \in Seq(Seq(Letters)) /\ Len(Append(a, l)) = g + 1
          /\ \A i \in 1 .. g + 1 : Append(a, l)[i] = IF i = g + 1 THEN l ELSE a[i]
      <4> DEFINE S == Seq(Letters)
      <4>1. a \in Seq(S) /\ l \in S BY <3>1, <1>2
      <4> HIDE DEF a, l, S, g
      <4>2. /\ Append(a, l) \in Seq(S) /\ Len(Append(a, l)) = Len(a) + 1
            /\ \A i \in 1 .. Len(a) : Append(a, l)[i] = a[i]
            /\ Append(a, l)[Len(a) + 1] = l
        BY <4>1, AppendProperties
      <4>3. g \in Int BY <3>1
      <4> QED BY <4>2, <4>3, <3>a DEF S
    <3>2. Given(r)' = g + 1 BY <3>b, <2>4 DEF Given
    <3>3. \A i \in 1 .. g + 1 : got'[r][i] = Text[r][i]
      <4> SUFFICES ASSUME NEW i \in 1 .. g + 1 PROVE got'[r][i] = Text[r][i] OBVIOUS
      <4>1. got'[r][i] = IF i = g + 1 THEN l ELSE a[i] BY <3>b, <2>4
      <4> HIDE DEF g, l, a
      <4>2. g \in Int BY <3>1
      <4>3. i # g + 1 => i \in 1 .. g BY <4>2
      <4> QED BY <3>1, <4>1, <4>3
    <3>5. GotLines(r)'
      <4>3. got'[r] \in Seq(Seq(Letters)) BY <3>b, <2>4
      <4> HIDE DEF g, n, a, l
      <4>1. g + 1 \in 0 .. n BY <3>1, <3>a
      <4>2. n = Count(r) BY DEF n
      <4> QED BY <3>2, <3>3, <4>1, <4>2, <4>3 DEF GotLines
    <3>6. ReaderType(r)' BY <1>0, <1>1 DEF ReaderInv, ReaderType
    <3>7. Holding(r)'
      <4>1. Rest(r)' = Rest(r) BY <1>0 DEF Rest, Lacks
      <4>2. Rest(r)' = Ahead(r, Given(r)') BY <4>1, <3>1, <3>2
      <4>3. /\ ~is_eof'[r] /\ is_ready'[r] = FALSE /\ has_line'[r] = FALSE /\ do_read'[r] = TRUE
        BY <2>1, <1>0, <1>8 DEF LinesInv, Shapes
      <4> HIDE DEF g, n, a, l
      <4> QED BY <4>2, <4>3 DEF Holding
    <3>8. rd'[r].pc = "hold" BY <1>0, <1>3, <1>8
    <3> QED BY <3>5, <3>6, <3>7, <3>8 DEF ReaderInv, Scanning, Giving, AtEnd
  <2>7. \A q \in Pipes : ReaderInv(q)'
    <3> SUFFICES ASSUME NEW q \in Pipes, q # r PROVE ReaderInv(q)' BY <2>6
    <3>1. ReaderInv(q) BY DEF LinesInv
    <3> QED BY <3>1, <2>3, <1>0, Untouched
  <2> QED BY <1>0, <1>6, <2>2, <2>3, <2>5, <2>7
<1> QED BY <1>7, <1>8

\* What a reader's end says.
LEMMA EndedReaders ==
  ASSUME LinesInv, NEW r \in Pipes
  PROVE  /\ is_eof[r] => rd[r].pc = "done" /\ Given(r) = Count(r)
         /\ is_eof[r] /\ main.pc # "closed" => is_ready[r]
BY DEF LinesInv, ReaderInv, ReaderType, Readers, Scanning, Giving, Holding, AtEnd

MainStates == [pc : {"wait", "err", "in", "close", "drain_err", "drain_in", "closed"},
               snap : [Pipes -> BOOLEAN], ends : SUBSET Pipes]

\* The main thread has waited and sees which readers are ready.
LEMMA WaitStep ==
  ASSUME LinesInv, Lines!Wait, Lines!Live
  PROVE  LinesInv'
<1>0. /\ main.pc = "wait" /\ main' = [main EXCEPT !.pc = "err", !.snap = is_ready, !.ends = {}]
      /\ UNCHANGED <<rd, is_eof, has_line, do_read, is_ready, num_ready, mode, got, died>>
  BY DEF Lines!Wait, Lines!shared
<1>1. \A q \in Pipes : ReaderInv(q)'
  <2> SUFFICES ASSUME NEW q \in Pipes PROVE ReaderInv(q)' OBVIOUS
  <2>1. ReaderInv(q) BY DEF LinesInv
  <2> QED BY <2>1, <1>0, Untouched
<1>2. MainInv'
  <2>1. main \in MainStates /\ mode \in {"play", "end"} BY DEF LinesInv, MainInv, MainStates
  <2>2. is_ready \in [Pipes -> BOOLEAN] BY DEF LinesInv, Shapes
  <2>3. main' \in MainStates /\ main'.pc = "err" /\ main'.snap = is_ready /\ main'.ends = {}
    BY <1>0, <2>1, <2>2 DEF MainStates
  <2> QED BY <2>1, <2>3, <1>0 DEF MainInv, MainStates
<1> QED BY <1>0, <1>1, <1>2 DEF LinesInv, Shapes, Ready

\* It takes the line of a reader that was ready.
LEMMA PollStep ==
  ASSUME LinesInv, NEW r \in Pipes, Lines!Poll(r), Lines!Live
  PROVE  LinesInv'
<1> DEFINE ends == main.ends \union (IF main.snap[r] /\ is_eof[r] THEN {r} ELSE {})
<1>0. /\ main.pc = r
      /\ IF main.snap[r] THEN Lines!GetLine(r)
           ELSE UNCHANGED <<rd, is_eof, has_line, do_read, is_ready, num_ready, mode, got, died>>
      /\ main' = [main EXCEPT !.ends = ends, !.pc = Lines!After(r, ends)]
  BY DEF Lines!Poll, Lines!shared
<1>1. main.pc # "closed" BY <1>0 DEF Pipes
<1>2. main \in MainStates /\ mode \in {"play", "end"} BY DEF LinesInv, MainInv, MainStates
<1>3. ends \subseteq Pipes /\ \A q \in ends : is_eof[q] BY <1>2 DEF MainStates, LinesInv, MainInv
<1> HIDE DEF ends
<1>4. /\ Shapes' /\ ~died' /\ num_ready' = Ready("in")' + Ready("err")'
      /\ \A q \in Pipes : ReaderInv(q)'
      /\ \A q \in Pipes : q # r => is_ready'[q] = is_ready[q]
      /\ is_eof' = is_eof /\ mode' = mode
  <2>1. CASE main.snap[r] BY <2>1, <1>0, <1>1, GetLineStep
  <2>2. CASE ~main.snap[r]
    <3>1. UNCHANGED <<rd, is_eof, has_line, do_read, is_ready, num_ready, mode, got, died>> BY <2>2, <1>0
    <3>2. \A q \in Pipes : ReaderInv(q)'
      <4> SUFFICES ASSUME NEW q \in Pipes PROVE ReaderInv(q)' OBVIOUS
      <4>1. ReaderInv(q) BY DEF LinesInv
      <4> QED BY <4>1, <3>1, <1>1, Untouched
    <3> QED BY <3>1, <3>2 DEF LinesInv, Shapes, Ready
  <2> QED BY <2>1, <2>2
<1>5. MainInv'
  <2>1. CASE r = "err"
    <3>1. Lines!After(r, ends) = "in" BY <2>1 DEF Lines!After
    <3>2. main' \in MainStates /\ main'.pc = "in" /\ main'.snap = main.snap /\ main'.ends = ends
      BY <1>0, <1>2, <1>3, <3>1 DEF MainStates
    <3>3. main.snap["in"] => is_ready'["in"]
      <4>1. main.snap["in"] => is_ready["in"] BY <1>0, <2>1 DEF LinesInv, MainInv, Pipes
      <4> QED BY <4>1, <1>4, <2>1 DEF Pipes
    <3> QED BY <3>2, <3>3, <1>2, <1>3, <1>4 DEF MainInv, MainStates
  <2>2. CASE r = "in"
    <3>1. \/ Lines!After(r, ends) = "close" /\ ends = Pipes
          \/ Lines!After(r, ends) \in {"wait", "drain_err"}
      <4>1. Lines!Pipes = Pipes BY LinesAssumption DEF Lines!Pipes, Pipes
      <4>2. CASE mode = "end" BY <4>1, <4>2, <2>2 DEF Lines!After
      <4>3. CASE mode = "play" BY <4>1, <4>3, <2>2 DEF Lines!After
      <4> QED BY <4>2, <4>3, <1>2
    <3> DEFINE p == Lines!After(r, ends)
    <3>2. p \in {"close", "wait", "drain_err"} BY <3>1
    <3>3. main' = [main EXCEPT !.ends = ends, !.pc = p] BY <1>0
    <3> HIDE DEF p
    <3>4. main' \in MainStates /\ main'.pc = p /\ main'.ends = ends
      BY <3>2, <3>3, <1>2, <1>3 DEF MainStates
    <3>5. p = "close" => ends = Pipes BY <3>1 DEF p
    <3> QED BY <3>2, <3>4, <3>5, <1>2, <1>3, <1>4 DEF MainInv, MainStates
  <2> QED BY <2>1, <2>2 DEF Pipes
<1> QED BY <1>4, <1>5 DEF LinesInv

\* Before the child is closed the lines of a reader are taken until it has ended.
LEMMA DrainStep ==
  ASSUME LinesInv, NEW r \in Pipes, NEW here, NEW next, Lines!Drain(r, here, next), Lines!Live,
         \/ r = "err" /\ here = "drain_err" /\ next = "drain_in"
         \/ r = "in" /\ here = "drain_in" /\ next = "closed"
  PROVE  LinesInv'
<1>0. /\ main.pc = here /\ Lines!GetLine(r)
      /\ main' = IF is_eof[r] THEN [main EXCEPT !.pc = next] ELSE main
  BY DEF Lines!Drain
<1>1. main.pc # "closed" BY <1>0
<1>2. main \in MainStates /\ mode \in {"play", "end"} /\ \A q \in main.ends : is_eof[q]
  BY DEF LinesInv, MainInv, MainStates
<1>4. /\ Shapes' /\ ~died' /\ num_ready' = Ready("in")' + Ready("err")'
      /\ \A q \in Pipes : ReaderInv(q)'
      /\ is_eof' = is_eof /\ mode' = mode
  BY <1>0, <1>1, GetLineStep
<1>5. MainInv'
  <2>1. CASE is_eof[r]
    <3>1. main' \in MainStates /\ main'.pc = next /\ main'.ends = main.ends
      <4>1. next \in {"drain_in", "closed"} /\ main' = [main EXCEPT !.pc = next] BY <1>0, <2>1
      <4> QED BY <4>1, <1>2 DEF MainStates
    <3>2. next = "drain_in" => is_eof["err"] BY <2>1
    <3>3. next = "closed" => \A q \in Pipes : is_eof[q]
      <4>1. main.pc = "drain_in" => is_eof["err"] BY DEF LinesInv, MainInv
      <4> QED BY <4>1, <2>1, <1>0 DEF Pipes
    <3> QED BY <3>1, <3>2, <3>3, <1>2, <1>4 DEF MainInv, MainStates
  <2>2. CASE ~is_eof[r]
    <3>1. main' = main /\ main.pc \in {"drain_err", "drain_in"} BY <2>2, <1>0
    <3>2. MainInv BY DEF LinesInv
    <3> QED BY <3>1, <3>2, <1>4 DEF MainInv
  <2> QED BY <2>1, <2>2
<1> QED BY <1>4, <1>5 DEF LinesInv

\* Child::close() after both readers have ended.
LEMMA CloseStep ==
  ASSUME LinesInv, Lines!Close, Lines!Live
  PROVE  LinesInv'
<1>1. Lines!Pipes = Pipes BY LinesAssumption DEF Lines!Pipes, Pipes
<1>0. /\ main.pc = "close" /\ \A r \in Pipes : rd[r].pc = "done"
      /\ num_ready' = num_ready - Cardinality({r \in Pipes : is_ready[r]})
      /\ is_ready' = [r \in Pipes |-> FALSE] /\ main' = [main EXCEPT !.pc = "closed"]
      /\ UNCHANGED <<rd, is_eof, has_line, do_read, mode, got, died>>
  <2>1. /\ main.pc = "close" /\ \A r \in Lines!Pipes : rd[r].pc = "done"
        /\ num_ready' = num_ready - Cardinality({r \in Lines!Pipes : is_ready[r]})
        /\ is_ready' = [r \in Lines!Pipes |-> FALSE] /\ main' = [main EXCEPT !.pc = "closed"]
        /\ UNCHANGED <<rd, is_eof, has_line, do_read, mode, got, died>>
    BY DEF Lines!Close, Lines!Cardinality, Cardinality
  <2> QED BY <2>1, <1>1
<1>2. \A r \in Pipes : is_ready[r] /\ is_eof[r] BY <1>0 DEF LinesInv, ReaderInv, AtEnd
<1>3. Cardinality({r \in Pipes : is_ready[r]}) = 2
  <2>1. {r \in Pipes : is_ready[r]} = {"in"} \union {"err"} BY <1>2 DEF Pipes
  <2>2. IsFiniteSet({"in"}) /\ Cardinality({"in"}) = 1 BY FS_Singleton
  <2>3. Cardinality({"in"} \union {"err"}) = 2 BY <2>2, FS_AddElement
  <2> QED BY <2>1, <2>3
<1>4. num_ready' = Ready("in")' + Ready("err")'
  <2>1. Ready("in") = 1 /\ Ready("err") = 1 BY <1>2 DEF Ready, Pipes
  <2>2. Ready("in")' = 0 /\ Ready("err")' = 0 BY <1>0 DEF Ready, Pipes
  <2> QED BY <2>1, <2>2, <1>0, <1>3 DEF LinesInv
<1>5. MainInv'
  <2>1. main \in MainStates /\ mode \in {"play", "end"} /\ \A q \in main.ends : is_eof[q]
    BY DEF LinesInv, MainInv, MainStates
  <2>2. main' \in MainStates /\ main'.pc = "closed" /\ main'.ends = main.ends
    BY <2>1, <1>0 DEF MainStates
  <2> QED BY <2>1, <2>2, <1>0, <1>2 DEF MainInv, MainStates
<1>6. ASSUME NEW r \in Pipes PROVE ReaderInv(r)'
  <2>1. ReaderInv(r) /\ rd[r].pc = "done" /\ rd'[r] = rd[r] /\ main'.pc = "closed"
    <3>1. main \in MainStates BY DEF LinesInv, MainInv, MainStates
    <3> QED BY <1>0, <3>1 DEF LinesInv, MainStates
  <2> QED BY <2>1, <1>0 DEF ReaderInv, ReaderType, GotLines, Scanning, Giving, Holding, AtEnd, Given
<1>7. Shapes' /\ ~died' BY <1>0 DEF LinesInv, Shapes
<1> QED BY <1>4, <1>5, <1>6, <1>7 DEF LinesInv

\* Every step of the readers and of the main thread keeps the invariant.
LEMMA LinesStep ==
  ASSUME LinesInv, Lines!Next
  PROVE  LinesInv'
<1>1. Lines!Pipes = Pipes BY LinesAssumption DEF Lines!Pipes, Pipes
<1>2. CASE Lines!Main
  <2>1. /\ Lines!Live
        /\ \/ Lines!Wait \/ Lines!Poll("err") \/ Lines!Poll("in") \/ Lines!Close
           \/ Lines!Drain("err", "drain_err", "drain_in") \/ Lines!Drain("in", "drain_in", "closed")
    BY <1>2 DEF Lines!Main
  <2>2. "err" \in Pipes /\ "in" \in Pipes BY DEF Pipes
  <2> QED BY <2>1, <2>2, WaitStep, PollStep, CloseStep, DrainStep
<1>3. CASE \E r \in Pipes : Lines!Worker(r)
  <2> PICK r \in Pipes : Lines!Worker(r) BY <1>3
  <2>1. /\ Lines!Live
        /\ Lines!Fill(r) \/ Lines!Scan(r) \/ Lines!GiveLine(r) \/ Lines!GiveEnd(r) \/ Lines!Resume(r)
    BY DEF Lines!Worker
  <2> QED BY <2>1, FillStep, ScanStep, GiveLineStep, GiveEndStep, ResumeStep
<1> QED BY <1>1, <1>2, <1>3 DEF Lines!Next

\* The readers begin before the first line.
LEMMA LinesStart ==
  ASSUME Lines!Init
  PROVE  LinesInv
<1>1. Lines!Pipes = Pipes BY LinesAssumption DEF Lines!Pipes, Pipes
<1>0. /\ rd = [r \in Pipes |-> [pc |-> "scan", rest |-> Lines!Stream(r), buf |-> <<>>,
                               line |-> <<>>, eof |-> FALSE]]
      /\ is_eof = [r \in Pipes |-> FALSE] /\ has_line = [r \in Pipes |-> FALSE]
      /\ do_read = [r \in Pipes |-> TRUE] /\ is_ready = [r \in Pipes |-> FALSE]
      /\ num_ready = 0
      /\ main = [pc |-> "wait", snap |-> is_ready, ends |-> {}]
      /\ mode \in {"play", "end"}
      /\ got = [r \in Pipes |-> <<>>] /\ died = FALSE
  BY <1>1 DEF Lines!Init
<1>2. Shapes /\ ~died /\ num_ready = Ready("in") + Ready("err")
  BY <1>0 DEF Shapes, Ready, Pipes
<1>3. MainInv
  <2>1. main.pc = "wait" /\ main.snap = is_ready /\ main.ends = {} BY <1>0
  <2>2. main \in MainStates BY <1>0 DEF MainStates
  <2> QED BY <2>1, <2>2, <1>0 DEF MainInv, MainStates
<1>4. ASSUME NEW r \in Pipes PROVE ReaderInv(r)
  <2> DEFINE u == Ahead(r, 0)
             e == <<NL>>
             z == Lines!Stream(r)
  <2>1. NL \in Chars /\ <<>> \in Seq(Chars) /\ <<>> \in Seq(Letters)
    <3>1. NL \in Chars BY DEF Chars
    <3> QED BY <3>1
  <2>2. Count(r) \in Nat /\ 0 \in 0 .. Count(r) BY TextTypes
  <2>3. u \in Seq(Chars) BY <2>2, AheadFacts
  <2>4. z \in Seq(Chars) /\ z \o (IF r \in Broken THEN e ELSE <<>>) = u
    <3>1. CASE r \notin Broken
      <4>1. z = u BY <3>1, AheadFacts
      <4>2. u \o <<>> = u BY <2>3, ConcatEmptySeq
      <4> QED BY <4>1, <4>2, <3>1, <2>3
    <3>2. CASE r \in Broken
      <4>1. z = SubSeq(u, 1, Len(u) - 1) BY <3>2, AheadFacts DEF Lines!Front
      <4>2. Len(u) >= 1 /\ u[Len(u)] = NL BY <3>2, LastIsEnd
      <4>3. Len(u) \in 1 .. Len(u) /\ Len(u) \in Nat
        <5> HIDE DEF u
        <5> QED BY <4>2, <2>3
      <4> HIDE DEF u
      <4>4. /\ SubSeq(u, 1, Len(u) - 1) \in Seq(Chars)
            /\ u = SubSeq(u, 1, Len(u) - 1) \o <<u[Len(u)]>>
        <5>1. SubSeq(u, 1, Len(u) - 1) \in Seq(Chars) BY <4>3, <2>3, CutAt
        <5>2. 1 \in 1 .. Len(u) /\ Len(u) \in 1 .. Len(u) BY <4>2, <4>3
        <5>3. SubSeq(u, 1, Len(u)) = SubSeq(u, 1, Len(u) - 1) \o <<u[Len(u)]>>
          BY <5>2, <2>3, SubSeqRecursiveSecond
        <5> QED BY <5>1, <5>3, <2>3, SubSeqFull
      <4> QED BY <4>1, <4>2, <4>4, <3>2
    <3> QED BY <3>1, <3>2
  <2> HIDE DEF u, e, z
  <2>5. /\ rd[r].pc = "scan" /\ rd[r].rest = z /\ rd[r].buf = <<>> /\ rd[r].line = <<>>
        /\ ~rd[r].eof /\ rd[r] \in Readers
    <3>1. rd[r] = [pc |-> "scan", rest |-> z, buf |-> <<>>, line |-> <<>>, eof |-> FALSE]
      BY <1>0 DEF z
    <3> QED BY <3>1, <2>1, <2>4 DEF Readers
  <2>6. Rest(r) = u
    <3>1. Lacks(r) = IF r \in Broken THEN e ELSE <<>> BY <2>5 DEF Lacks, e
    <3>2. Rest(r) = <<>> \o (z \o Lacks(r)) BY <2>5 DEF Rest
    <3>3. <<>> \o u = u BY <2>3, ConcatEmptySeq
    <3> QED BY <3>1, <3>2, <3>3, <2>4
  <2>7. Given(r) = 0 /\ got[r] = <<>> BY <1>0 DEF Given
  <2>8. Scanning(r)
    <3>1. <<>> \o u = u BY <2>3, ConcatEmptySeq
    <3> QED BY <3>1, <2>5, <2>6, <2>7, <1>0 DEF Scanning, u
  <2>9. GotLines(r) BY <2>2, <2>7 DEF GotLines
  <2> QED BY <2>5, <2>8, <2>9 DEF ReaderInv, ReaderType, Giving, Holding, AtEnd
<1> QED BY <1>2, <1>3, <1>4 DEF LinesInv

\* It says that the lines that were taken are the first ones of the text.
LEMMA LinesHold == LinesInv => LinesInOrder
<1> SUFFICES ASSUME LinesInv PROVE LinesInOrder OBVIOUS
<1>1. Lines!Pipes = Pipes BY LinesAssumption DEF Lines!Pipes, Pipes
<1>2. ASSUME NEW r \in Pipes
      PROVE  Lines!IsPrefix(got[r], Text[r]) /\ (main.pc = "closed" => got[r] = Text[r])
  <2> DEFINE S == Seq(Letters)
             g == Given(r)
             n == Count(r)
             a == got[r]
             t == Text[r]
  <2>1. /\ g \in 0 .. n /\ a \in Seq(S) /\ \A i \in 1 .. g : a[i] = t[i]
        /\ Len(a) = g /\ Len(t) = n
    BY DEF LinesInv, ReaderInv, GotLines, Given, Count
  <2>2. t \in Seq(S) /\ n \in Nat BY TextTypes, LinesAssumption DEF Pipes
  <2>3. main.pc = "closed" => g = n BY EndedReaders DEF LinesInv, MainInv
  <2> HIDE DEF g, n, a, t, S
  <2>4. SubSeq(a, 1, g) = a BY <2>1, SubSeqFull
  <2>7. SubSeq(t, 1, g) = a
    <3> DEFINE y == SubSeq(t, 1, g)
    <3>1. g \in Nat /\ g <= n BY <2>1, <2>2
    <3>2. y \in Seq(S) /\ Len(y) = g /\ \A i \in 1 .. g : y[i] = t[i]
      <4>1. \A i \in 1 .. g : t[i] \in S
        <5>1. \A i \in 1 .. n : t[i] \in S BY <2>1, <2>2, ElementOfSeq
        <5> QED BY <5>1, <3>1, <2>2
      <4> QED BY <4>1, <3>1, SubSeqProperties
    <3> HIDE DEF y
    <3>3. y = a BY <3>2, <2>1, SeqEqual
    <3> QED BY <3>3 DEF y
  <2>5. Lines!IsPrefix(a, t) BY <2>1, <2>2, <2>4, <2>7 DEF Lines!IsPrefix
  <2>6. ASSUME g = n PROVE a = t BY <2>1, <2>2, <2>6, SeqEqual
  <2> QED BY <2>3, <2>5, <2>6 DEF a, t
<1>3. ~died BY DEF LinesInv
<1> QED BY <1>1, <1>2, <1>3 DEF LinesInOrder, Lines!LinesInOrder

\* Every line of a child comes once, whole and in its order, however the pipes are cut
\* and the threads run, and every hand-over finds the last one taken.
THEOREM LinesComeInOrder == MCSpec => []LinesInOrder
<1>1. MCInit => LinesInv BY LinesStart DEF MCInit
<1>2. LinesInv /\ [MCNext]_<<vars, lines, table, side>> => LinesInv'
  <2> SUFFICES ASSUME LinesInv, [MCNext]_<<vars, lines, table, side>> PROVE LinesInv' OBVIOUS
  <2>1. Lines!Next \/ UNCHANGED lines BY DEF MCNext
  <2>2. CASE Lines!Next BY <2>2, LinesStep
  <2>3. CASE UNCHANGED lines
    <3>1. \A r \in Pipes : ReaderInv(r)'
      <4> SUFFICES ASSUME NEW r \in Pipes PROVE ReaderInv(r)' OBVIOUS
      <4>1. ReaderInv(r) BY DEF LinesInv
      <4> QED BY <4>1, <2>3, Untouched DEF lines
    <3> QED BY <3>1, <2>3 DEF lines, LinesInv, Shapes, MainInv, Ready
  <2> QED BY <2>1, <2>2, <2>3
<1> QED BY <1>1, <1>2, LinesHold, PTL DEF MCSpec

----------------------------------------------------------------------------
(* The table: entries in linked lists.                                           *)

Entries == 1 .. Nentry

\* The pointer behind which entry i + 1 of list s is, h being its head, and that entry.
Ptr(h, s, i) == IF i = 0 THEN h ELSE s[i]
Nxt(s, i) == IF i < Len(s) THEN s[i + 1] ELSE 0

\* The lists C, one for each head in H, are what the pointers nx and back bk say; an entry
\* out of X that is in no list points to none.
IsIn(e, C) == \E h \in DOMAIN C : \E i \in 1 .. Len(C[h]) : C[h][i] = e
HeadsOk(H) == H \subseteq Int /\ H \intersect Entries = {}
ListTypes(H, nx, bk, C) ==
  /\ HeadsOk(H)
  /\ C \in [H -> Seq(Entries)]
  /\ nx \in [H \union Entries -> Entries \union {0}] /\ bk \in [Entries -> Int]
Forward(H, nx, C) == \A h \in H : \A i \in 0 .. Len(C[h]) : nx[Ptr(h, C[h], i)] = Nxt(C[h], i)
Backward(H, bk, C) == \A h \in H : \A i \in 1 .. Len(C[h]) : bk[C[h][i]] = Ptr(h, C[h], i - 1)
Apart(C) == \A g, h \in DOMAIN C : \A i \in 1 .. Len(C[g]), j \in 1 .. Len(C[h]) :
              C[g][i] = C[h][j] => g = h /\ i = j
Loose(nx, C, X) == \A e \in Entries \ X : nx[e] = 0 \/ IsIn(e, C)
Linked(H, nx, bk, C, X) ==
  ListTypes(H, nx, bk, C) /\ Forward(H, nx, C) /\ Backward(H, bk, C) /\ Apart(C) /\ Loose(nx, C, X)

\* A sequence without its member at j.
Less(s, j) == [i \in 1 .. Len(s) - 1 |-> IF i < j THEN s[i] ELSE s[i + 1]]

\* What is behind the member moves up.
LEMMA LessIs ==
  ASSUME NEW S, NEW s \in Seq(S), NEW j \in 1 .. Len(s)
  PROVE  /\ Less(s, j) \in Seq(S) /\ Len(Less(s, j)) = Len(s) - 1
         /\ \A i \in 1 .. Len(s) - 1 : Less(s, j)[i] = IF i < j THEN s[i] ELSE s[i + 1]
<1>1. Len(s) - 1 \in Nat BY DEF Less
<1>2. \A i \in 1 .. Len(s) - 1 : (IF i < j THEN s[i] ELSE s[i + 1]) \in S
  <2>1. \A i \in 1 .. Len(s) - 1 : i \in 1 .. Len(s) /\ i + 1 \in 1 .. Len(s) BY <1>1
  <2>2. \A i \in 1 .. Len(s) : s[i] \in S BY ElementOfSeq
  <2> QED BY <2>1, <2>2
<1>3. Less(s, j) \in [1 .. Len(s) - 1 -> S] BY <1>2 DEF Less
<1>4. Less(s, j) \in Seq(S) BY <1>1, <1>3
<1> QED BY <1>1, <1>3, <1>4 DEF Less

\* The pointers, and those back, when they pass by an entry.
Passed(nx, bk, e) == [nx EXCEPT ![bk[e]] = nx[e]]
PassedBack(nx, bk, e) == IF nx[e] = 0 THEN bk ELSE [bk EXCEPT ![nx[e]] = bk[e]]

Out(C, h, j) == [C EXCEPT ![h] = Less(C[h], j)]

\* An entry is taken out of its list.
LEMMA Unlink ==
  ASSUME NEW H, NEW nx, NEW bk, NEW C, Linked(H, nx, bk, C, {}),
         NEW h \in H, NEW j \in 1 .. Len(C[h]), NEW e, e = C[h][j],
         NEW n1, n1 = Passed(nx, bk, e), NEW b1, b1 = PassedBack(nx, bk, e),
         NEW D, D = Out(C, h, j)
  PROVE  Linked(H, n1, b1, D, {e}) /\ ~IsIn(e, D) /\ e \in Entries
<1> DEFINE s == C[h]
           t == D[h]
<1>1. /\ H \subseteq Int /\ H \intersect Entries = {} /\ Entries \subseteq Nat \ {0}
      /\ C \in [H -> Seq(Entries)] /\ DOMAIN C = H
      /\ nx \in [H \union Entries -> Entries \union {0}] /\ bk \in [Entries -> Int]
  BY DEF Linked, ListTypes, HeadsOk, Entries
<1>2. /\ s \in Seq(Entries) /\ Len(s) \in Nat /\ \A i \in 1 .. Len(s) : s[i] \in Entries
  <2>1. s \in Seq(Entries) BY <1>1
  <2> HIDE DEF s
  <2> QED BY <2>1, ElementOfSeq
<1>3. /\ D \in [H -> Seq(Entries)] /\ \A g \in H \ {h} : D[g] = C[g]
      /\ Len(t) = Len(s) - 1 /\ t \in Seq(Entries)
      /\ \A i \in 1 .. Len(s) - 1 : t[i] = IF i < j THEN s[i] ELSE s[i + 1]
  <2>1. D[h] = Less(s, j) BY <1>1 DEF Out
  <2>2. /\ Less(s, j) \in Seq(Entries) /\ Len(Less(s, j)) = Len(s) - 1
        /\ \A i \in 1 .. Len(s) - 1 : Less(s, j)[i] = IF i < j THEN s[i] ELSE s[i + 1]
    <3> HIDE DEF s
    <3> QED BY <1>2, LessIs DEF s
  <2>3. D \in [H -> Seq(Entries)] /\ \A g \in H \ {h} : D[g] = C[g] BY <1>1, <2>2 DEF Out
  <2> QED BY <2>1, <2>2, <2>3
<1> HIDE DEF t
<1>4. e \in Entries /\ bk[e] = Ptr(h, s, j - 1) /\ nx[e] = Nxt(s, j)
  <2>1. bk[e] = Ptr(h, s, j - 1) BY DEF Linked, Backward
  <2>2. j \in 0 .. Len(s) /\ Ptr(h, s, j) = e BY <1>2 DEF Ptr
  <2>3. nx[Ptr(h, s, j)] = Nxt(s, j) BY <2>2 DEF Linked, Forward
  <2> QED BY <1>2, <2>1, <2>2, <2>3
<1> DEFINE p == Ptr(h, s, j - 1)
           q == Nxt(s, j)
<1>5. /\ p \in H \union Entries /\ q \in Entries \union {0} /\ (q \in Entries <=> j < Len(s))
      /\ j > 1 => p = s[j - 1] /\ p \in Entries
      /\ j = 1 => p = h /\ p \in H
      /\ j < Len(s) => q = s[j + 1]
  BY <1>1, <1>2 DEF Ptr, Nxt
<1>6. /\ n1 \in [H \union Entries -> Entries \union {0}] /\ n1[p] = q
      /\ \A x \in (H \union Entries) \ {p} : n1[x] = nx[x]
  <2> HIDE DEF p, q, s
  <2> QED BY <1>1, <1>4, <1>5 DEF p, q, Passed
<1>7. /\ b1 \in [Entries -> Int]
      /\ \A x \in Entries \ {q} : b1[x] = bk[x]
      /\ q \in Entries => b1[q] = p
  <2>1. p \in Int
    <3>1. p \in H \union Entries BY <1>5
    <3> HIDE DEF p
    <3> QED BY <3>1, <1>1
  <2>2. q = 0 <=> q \notin Entries BY <1>1, <1>5
  <2> HIDE DEF p, q, s
  <2> QED BY <1>1, <1>4, <1>5, <2>1, <2>2 DEF p, q, PassedBack
<1>8. \A g \in H : \A i \in 1 .. Len(C[g]) :
        C[g][i] \in Entries /\ i \in Nat /\ \A k \in 1 .. Len(s) : C[g][i] = s[k] => g = h /\ i = k
  <2>1. \A g \in H : \A i \in 1 .. Len(C[g]) : C[g][i] \in Entries
    <3> SUFFICES ASSUME NEW g \in H, NEW i \in 1 .. Len(C[g]) PROVE C[g][i] \in Entries OBVIOUS
    <3> DEFINE r == C[g]
    <3>1. r \in Seq(Entries) BY <1>1
    <3> HIDE DEF r
    <3>2. r[i] \in Entries BY <3>1, ElementOfSeq DEF r
    <3> QED BY <3>2 DEF r
  <2> QED BY <1>1, <2>1 DEF Linked, Apart
<1>9. ListTypes(H, n1, b1, D) BY <1>1, <1>3, <1>6, <1>7 DEF ListTypes, HeadsOk
\* Where a member of the shorter list is in the longer one.
<1> DEFINE at(i) == IF i < j THEN i ELSE i + 1
<1>10. \A i \in 1 .. Len(t) : at(i) \in 1 .. Len(s) /\ at(i) # j /\ t[i] = s[at(i)]
  BY <1>2, <1>3
<1>11. Apart(D)
  <2>1. \A f1, g \in H : \A i \in 1 .. Len(D[f1]), k \in 1 .. Len(D[g]) :
          D[f1][i] = D[g][k] => f1 = g /\ i = k
    <3> SUFFICES ASSUME NEW f1 \in H, NEW g \in H,
                        NEW i \in 1 .. Len(D[f1]), NEW k \in 1 .. Len(D[g]), D[f1][i] = D[g][k]
                 PROVE  f1 = g /\ i = k
      OBVIOUS
    <3>1. CASE f1 = h /\ g = h
      <4>1. s[at(i)] = s[at(k)] /\ at(i) \in 1 .. Len(s) /\ at(k) \in 1 .. Len(s)
        BY <1>10, <3>1 DEF t
      <4>2. at(i) = at(k) BY <4>1, <1>8
      <4> QED BY <4>2, <3>1, <1>2, <1>3 DEF t
    <3>2. CASE f1 = h /\ g # h
      <4>1. s[at(i)] = C[g][k] /\ at(i) \in 1 .. Len(s) /\ k \in 1 .. Len(C[g])
        BY <1>3, <1>10, <3>2 DEF t
      <4> QED BY <4>1, <1>8, <3>2
    <3>3. CASE f1 # h /\ g = h
      <4>1. C[f1][i] = s[at(k)] /\ at(k) \in 1 .. Len(s) /\ i \in 1 .. Len(C[f1])
        BY <1>3, <1>10, <3>3 DEF t
      <4> QED BY <4>1, <1>8, <3>3
    <3>4. CASE f1 # h /\ g # h
      <4>1. D[f1] = C[f1] /\ D[g] = C[g] BY <1>3, <3>4
      <4>2. \A a, b \in H : \A m \in 1 .. Len(C[a]), n \in 1 .. Len(C[b]) :
              C[a][m] = C[b][n] => a = b /\ m = n
        BY <1>1 DEF Linked, Apart
      <4> QED BY <4>1, <4>2
    <3> QED BY <3>1, <3>2, <3>3, <3>4
  <2> QED BY <2>1, <1>3 DEF Apart
<1>12. ~IsIn(e, D)
  <2> SUFFICES ASSUME NEW g \in H, NEW i \in 1 .. Len(D[g]), D[g][i] = e PROVE FALSE
    BY <1>3 DEF IsIn
  <2>1. CASE g = h
    <3>1. s[at(i)] = s[j] /\ at(i) \in 1 .. Len(s) /\ at(i) # j BY <1>10, <2>1 DEF t
    <3> QED BY <3>1, <1>8
  <2>2. CASE g # h
    <3>1. C[g][i] = s[j] /\ i \in 1 .. Len(C[g]) BY <1>3, <2>2
    <3> QED BY <3>1, <1>8, <2>2
  <2> QED BY <2>1, <2>2
<1>13. Forward(H, n1, D)
  <2> SUFFICES ASSUME NEW g \in H, NEW i \in 0 .. Len(D[g])
               PROVE  n1[Ptr(g, D[g], i)] = Nxt(D[g], i)
    BY DEF Forward
  <2>1. CASE g # h
    <3>1. D[g] = C[g] BY <1>3, <2>1
    <3>2. nx[Ptr(g, C[g], i)] = Nxt(C[g], i) BY <3>1 DEF Linked, Forward
    <3>3. Ptr(g, C[g], i) \in (H \union Entries) \ {p}
      <4>1. CASE i = 0
        <5>1. Ptr(g, C[g], i) = g BY <4>1 DEF Ptr
        <5> QED BY <5>1, <2>1, <1>1, <1>5, <1>2
      <4>2. CASE i # 0
        <5>1. Ptr(g, C[g], i) = C[g][i] /\ i \in 1 .. Len(C[g]) BY <4>2, <3>1 DEF Ptr
        <5>2. C[g][i] \in Entries /\ \A k \in 1 .. Len(s) : C[g][i] # s[k] BY <5>1, <1>8, <2>1
        <5>3. j > 1 => j - 1 \in 1 .. Len(s) BY <1>2
        <5>4. j = 1 \/ j > 1 BY <1>2
        <5> QED BY <5>1, <5>2, <5>3, <5>4, <1>5, <1>1
      <4> QED BY <4>1, <4>2
    <3>4. n1[Ptr(g, C[g], i)] = nx[Ptr(g, C[g], i)]
      <4> HIDE DEF p
      <4> QED BY <1>6, <3>3
    <3> QED BY <3>1, <3>2, <3>4
  <2>2. CASE g = h /\ i = j - 1
    <3>1. Ptr(g, D[g], i) = p
      <4>1. CASE j = 1 BY <4>1, <2>2 DEF Ptr
      <4>2. CASE j # 1
        <5>1. i \in 1 .. Len(t) /\ i < j /\ i # 0 BY <4>2, <2>2, <1>2, <1>3
        <5>2. t[i] = s[j - 1] BY <5>1, <1>3, <2>2
        <5> QED BY <5>1, <5>2, <2>2, <4>2, <1>2 DEF Ptr, t
      <4> QED BY <4>1, <4>2
    <3>2. Nxt(D[g], i) = q
      <4>1. Len(D[g]) = Len(s) - 1 BY <2>2, <1>3 DEF t
      <4>2. CASE j < Len(s)
        <5>1. j \in 1 .. Len(s) - 1 /\ i + 1 = j BY <4>2, <2>2, <1>2
        <5>2. D[g][j] = s[j + 1] BY <5>1, <1>3, <2>2 DEF t
        <5> QED BY <5>1, <5>2, <4>1, <4>2, <2>2, <1>2 DEF Nxt
      <4>3. CASE ~(j < Len(s)) BY <4>3, <4>1, <2>2, <1>2 DEF Nxt
      <4> QED BY <4>2, <4>3
    <3> HIDE DEF p, q
    <3> QED BY <1>6, <3>1, <3>2
  <2>3. CASE g = h /\ i # j - 1
    <3> DEFINE k == IF i < j THEN i ELSE i + 1
    <3>1. i \in 0 .. Len(s) - 1 /\ D[g] = t BY <2>3, <1>3 DEF t
    <3>2. k \in 0 .. Len(s) /\ k # j /\ k # j - 1 /\ k \in Nat BY <3>1, <2>3, <1>2
    <3>3. Ptr(g, D[g], i) = Ptr(h, s, k)
      <4>1. CASE i = 0
        <5>1. k = 0 BY <4>1, <1>2
        <5> QED BY <5>1, <4>1, <2>3 DEF Ptr
      <4>2. CASE i # 0
        <5>1. i \in 1 .. Len(t) /\ k # 0 BY <4>2, <3>1, <1>2, <1>3
        <5>2. t[i] = s[k] BY <5>1, <1>10
        <5> QED BY <5>1, <5>2, <4>2, <3>1 DEF Ptr
      <4> QED BY <4>1, <4>2
    <3>4. Nxt(D[g], i) = Nxt(s, k)
      <4>1. Len(D[g]) = Len(s) - 1 BY <3>1, <1>3
      <4>2. CASE i < Len(s) - 1
        <5>1. i + 1 \in 1 .. Len(s) - 1 /\ k < Len(s) BY <4>2, <3>1, <1>2
        <5>2. t[i + 1] = s[k + 1] BY <5>1, <1>3, <2>3, <3>1, <1>2
        <5> QED BY <5>1, <5>2, <4>1, <4>2, <3>1 DEF Nxt
      <4>3. CASE ~(i < Len(s) - 1)
        <5>1. i = Len(s) - 1 BY <4>3, <3>1, <1>2
        <5>2. k = Len(s) BY <5>1, <3>1, <2>3, <1>2
        <5> QED BY <5>1, <5>2, <4>1, <1>2 DEF Nxt
      <4> QED BY <4>2, <4>3
    <3>5. nx[Ptr(h, s, k)] = Nxt(s, k) BY <3>2 DEF Linked, Forward
    <3>6. Ptr(h, s, k) \in (H \union Entries) \ {p}
      <4>1. CASE k = 0
        <5>1. j > 1 /\ Ptr(h, s, k) = h BY <4>1, <3>2, <1>2 DEF Ptr
        <5> QED BY <5>1, <1>1, <1>5
      <4>2. CASE k # 0
        <5>1. k \in 1 .. Len(s) /\ Ptr(h, s, k) = s[k] BY <4>2, <3>2 DEF Ptr
        <5>2. s[k] \in Entries BY <5>1, <1>2
        <5>3. j > 1 => j - 1 \in 1 .. Len(s) BY <1>2
        <5>4. j > 1 => s[k] # s[j - 1] BY <5>1, <5>3, <1>8, <3>2
        <5>5. j = 1 \/ j > 1 BY <1>2
        <5> QED BY <5>1, <5>2, <5>4, <5>5, <1>1, <1>5
      <4> QED BY <4>1, <4>2
    <3>7. n1[Ptr(h, s, k)] = nx[Ptr(h, s, k)]
      <4> HIDE DEF p, k
      <4> QED BY <1>6, <3>6
    <3> QED BY <3>3, <3>4, <3>5, <3>7
  <2> QED BY <2>1, <2>2, <2>3
<1>14. Backward(H, b1, D)
  <2> SUFFICES ASSUME NEW g \in H, NEW i \in 1 .. Len(D[g])
               PROVE  b1[D[g][i]] = Ptr(g, D[g], i - 1)
    BY DEF Backward
  <2>1. CASE g # h
    <3>1. D[g] = C[g] BY <1>3, <2>1
    <3>2. bk[C[g][i]] = Ptr(g, C[g], i - 1) BY <3>1 DEF Linked, Backward
    <3>3. C[g][i] \in Entries \ {q}
      <4>1. C[g][i] \in Entries /\ \A k \in 1 .. Len(s) : C[g][i] # s[k] BY <3>1, <1>8, <2>1
      <4>2. j < Len(s) => j + 1 \in 1 .. Len(s) BY <1>2
      <4> QED BY <4>1, <4>2, <1>1, <1>5
    <3>4. b1[C[g][i]] = bk[C[g][i]]
      <4> HIDE DEF q
      <4> QED BY <1>7, <3>3
    <3> QED BY <3>1, <3>2, <3>4
  <2>2. CASE g = h /\ i = j
    <3>1. j < Len(s) /\ j \in 1 .. Len(s) - 1 /\ D[g] = t BY <2>2, <1>3, <1>2 DEF t
    <3>2. D[g][i] = q /\ q \in Entries BY <3>1, <1>3, <1>5, <2>2
    <3>3. Ptr(g, D[g], i - 1) = p
      <4>1. CASE j = 1 BY <4>1, <2>2 DEF Ptr
      <4>2. CASE j # 1
        <5>1. j - 1 \in 1 .. Len(s) - 1 /\ j - 1 < j /\ j - 1 # 0 BY <4>2, <3>1, <1>2
        <5>2. t[j - 1] = s[j - 1] BY <5>1, <1>3
        <5> QED BY <5>1, <5>2, <2>2, <3>1 DEF Ptr
      <4> QED BY <4>1, <4>2
    <3> HIDE DEF p, q
    <3> QED BY <1>7, <3>2, <3>3
  <2>3. CASE g = h /\ i # j
    <3>1. i \in 1 .. Len(s) - 1 /\ D[g] = t /\ i \in 1 .. Len(t) BY <2>3, <1>3 DEF t
    <3> DEFINE k == at(i)
    <3>0. i < j => k = i BY <3>1
    <3>00. ~(i < j) => k = i + 1 BY <3>1
    <3>2. k \in 1 .. Len(s) /\ k # j /\ k # j + 1 /\ t[i] = s[k]
      <4>1. k \in 1 .. Len(s) /\ k # j /\ t[i] = s[k] BY <3>1, <1>10
      <4>2. k # j + 1
        <5> HIDE DEF k
        <5> QED BY <3>0, <3>00, <3>1, <2>3, <1>2
      <4> QED BY <4>1, <4>2
    <3>3. bk[s[k]] = Ptr(h, s, k - 1) BY <3>2 DEF Linked, Backward
    <3>4. Ptr(g, D[g], i - 1) = Ptr(h, s, k - 1)
      <4>1. CASE i = 1
        <5>1. k = 1 BY <4>1, <2>3, <1>2
        <5> QED BY <5>1, <4>1, <2>3 DEF Ptr
      <4>2. CASE i # 1
        <5>1. i - 1 \in 1 .. Len(s) - 1 /\ i - 1 # 0 /\ k - 1 # 0 BY <4>2, <3>1, <1>2
        <5>2. t[i - 1] = s[k - 1]
          <6>1. CASE i < j BY <6>1, <5>1, <1>3, <1>2
          <6>2. CASE ~(i < j)
            <7>1. i - 1 >= j /\ k = i + 1 /\ (i - 1) + 1 = k - 1 BY <6>2, <2>3, <3>1, <1>2
            <7> QED BY <7>1, <5>1, <1>3, <1>2
          <6> QED BY <6>1, <6>2
        <5> QED BY <5>1, <5>2, <3>1 DEF Ptr
      <4> QED BY <4>1, <4>2
    <3>5. s[k] \in Entries \ {q}
      <4>1. s[k] \in Entries BY <3>2, <1>2
      <4>2. j < Len(s) => j + 1 \in 1 .. Len(s) BY <1>2
      <4>3. j < Len(s) => s[k] # s[j + 1] BY <4>2, <3>2, <1>8
      <4> QED BY <4>1, <4>3, <1>1, <1>5
    <3>6. b1[s[k]] = bk[s[k]]
      <4> HIDE DEF q, k, s
      <4> QED BY <1>7, <3>5
    <3> QED BY <3>1, <3>2, <3>3, <3>4, <3>6
  <2> QED BY <2>1, <2>2, <2>3
<1>15. Loose(n1, D, {e})
  <2> SUFFICES ASSUME NEW x \in Entries \ {e}, n1[x] # 0 PROVE IsIn(x, D) BY DEF Loose
  <2>1. IsIn(x, C)
    <3>1. CASE x = p
      <4>1. j > 1 BY <3>1, <1>1, <1>2, <1>5
      <4> QED BY <3>1, <4>1, <1>1, <1>2, <1>5 DEF IsIn
    <3>2. CASE x # p
      <4>1. n1[x] = nx[x]
        <5> HIDE DEF p
        <5> QED BY <1>6, <3>2
      <4> QED BY <4>1 DEF Linked, Loose
    <3> QED BY <3>1, <3>2
  <2>2. PICK g \in H : \E i \in 1 .. Len(C[g]) : C[g][i] = x BY <2>1, <1>1 DEF IsIn
  <2>3. PICK i \in 1 .. Len(C[g]) : C[g][i] = x BY <2>2
  <2>4. CASE g # h BY <2>3, <2>4, <1>3 DEF IsIn
  <2>5. CASE g = h
    <3>1. i \in 1 .. Len(s) /\ i # j /\ s[i] = x BY <2>3, <2>5
    <3>2. CASE i < j
      <4>1. i \in 1 .. Len(t) /\ t[i] = x BY <3>1, <3>2, <1>2, <1>3
      <4> QED BY <4>1, <1>3 DEF IsIn, t
    <3>3. CASE ~(i < j)
      <4>1. i - 1 \in 1 .. Len(s) - 1 /\ ~(i - 1 < j) /\ (i - 1) + 1 = i BY <3>1, <3>3, <1>2
      <4>2. i - 1 \in 1 .. Len(t) /\ t[i - 1] = x BY <3>1, <4>1, <1>3
      <4> QED BY <4>2, <1>3 DEF IsIn, t
    <3> QED BY <3>2, <3>3
  <2> QED BY <2>4, <2>5
<1> QED BY <1>4, <1>9, <1>11, <1>12, <1>13, <1>14, <1>15 DEF Linked

\* The pointers, those back and the lists when an entry is put at an end.
Put(nx, e, end) == [nx EXCEPT ![e] = 0, ![end] = e]
PutBack(bk, e, end) == [bk EXCEPT ![e] = end]
In(C, h, e) == [C EXCEPT ![h] = Append(C[h], e)]

\* An entry in no list is put at the end of one.
LEMMA LinkLast ==
  ASSUME NEW H, NEW nx, NEW bk, NEW C, NEW e \in Entries, Linked(H, nx, bk, C, {e}), ~IsIn(e, C),
         NEW h \in H, NEW end, end = Ptr(h, C[h], Len(C[h])),
         NEW n1, n1 = Put(nx, e, end), NEW b1, b1 = PutBack(bk, e, end),
         NEW D, D = In(C, h, e)
  PROVE  Linked(H, n1, b1, D, {})
<1> DEFINE s == C[h]
           t == D[h]
<1>1. /\ H \subseteq Int /\ H \intersect Entries = {} /\ Entries \subseteq Nat \ {0}
      /\ C \in [H -> Seq(Entries)] /\ DOMAIN C = H
      /\ nx \in [H \union Entries -> Entries \union {0}] /\ bk \in [Entries -> Int]
  BY DEF Linked, ListTypes, HeadsOk, Entries
<1>2. /\ s \in Seq(Entries) /\ Len(s) \in Nat /\ \A i \in 1 .. Len(s) : s[i] \in Entries
  <2>1. s \in Seq(Entries) BY <1>1
  <2> HIDE DEF s
  <2> QED BY <2>1, ElementOfSeq
<1>3. /\ D \in [H -> Seq(Entries)] /\ \A g \in H \ {h} : D[g] = C[g]
      /\ Len(t) = Len(s) + 1 /\ t \in Seq(Entries)
      /\ \A i \in 1 .. Len(s) : t[i] = s[i]
      /\ t[Len(s) + 1] = e
  <2>1. D[h] = Append(s, e) BY <1>1 DEF In
  <2>2. /\ Append(s, e) \in Seq(Entries) /\ Len(Append(s, e)) = Len(s) + 1
        /\ \A i \in 1 .. Len(s) : Append(s, e)[i] = s[i]
        /\ Append(s, e)[Len(s) + 1] = e
    <3> HIDE DEF s
    <3> QED BY <1>2
  <2>3. D \in [H -> Seq(Entries)] /\ \A g \in H \ {h} : D[g] = C[g] BY <1>1, <2>2 DEF In
  <2> QED BY <2>1, <2>2, <2>3
<1> HIDE DEF t
<1>4. /\ end \in H \union Entries /\ end # e /\ end \in Int
      /\ Len(s) = 0 => end = h
      /\ Len(s) # 0 => end = s[Len(s)] /\ end \in Entries
  <2>1. CASE Len(s) = 0
    <3>1. end = h BY <2>1 DEF Ptr
    <3> QED BY <3>1, <2>1, <1>1
  <2>2. CASE Len(s) # 0
    <3>1. end = s[Len(s)] /\ Len(s) \in 1 .. Len(s) BY <2>2, <1>2 DEF Ptr
    <3>2. end # e BY <3>1, <1>1 DEF IsIn
    <3>3. end \in Entries BY <3>1, <1>2
    <3> QED BY <3>1, <3>2, <3>3, <2>2, <1>1
  <2> QED BY <2>1, <2>2
<1>5. /\ n1 \in [H \union Entries -> Entries \union {0}] /\ n1[e] = 0 /\ n1[end] = e
      /\ \A x \in (H \union Entries) \ {e, end} : n1[x] = nx[x]
  <2> HIDE DEF s
  <2> QED BY <1>1, <1>4 DEF Put, PutBack
<1>6. b1 \in [Entries -> Int] /\ b1[e] = end /\ \A x \in Entries \ {e} : b1[x] = bk[x]
  <2> HIDE DEF s
  <2> QED BY <1>1, <1>4 DEF Put, PutBack
<1>7. \A g \in H : \A i \in 1 .. Len(C[g]) : C[g][i] \in Entries /\ C[g][i] # e
  <2> SUFFICES ASSUME NEW g \in H, NEW i \in 1 .. Len(C[g])
               PROVE  C[g][i] \in Entries /\ C[g][i] # e
    OBVIOUS
  <2> DEFINE r == C[g]
  <2>1. r \in Seq(Entries) BY <1>1
  <2>2. r[i] # e BY <1>1 DEF IsIn
  <2>3. r[i] \in Entries
    <3>1. i \in 1 .. Len(r) OBVIOUS
    <3> HIDE DEF r
    <3> QED BY <2>1, <3>1, ElementOfSeq
  <2> QED BY <2>2, <2>3
<1>8. \A g \in H : \A i \in 1 .. Len(C[g]), k \in 1 .. Len(s) : C[g][i] = s[k] => g = h /\ i = k
  BY <1>1 DEF Linked, Apart
<1>9. ListTypes(H, n1, b1, D) BY <1>1, <1>3, <1>5, <1>6 DEF ListTypes, HeadsOk
<1>10. \A i \in 1 .. Len(t) : \/ i = Len(s) + 1 /\ t[i] = e
                              \/ i \in 1 .. Len(s) /\ t[i] = s[i] /\ t[i] # e
  <2>1. \A i \in 1 .. Len(t) : i = Len(s) + 1 \/ i \in 1 .. Len(s) BY <1>2, <1>3
  <2>2. \A i \in 1 .. Len(s) : t[i] = s[i] /\ s[i] # e BY <1>3, <1>7
  <2> QED BY <2>1, <2>2, <1>3
<1>11. Apart(D)
  <2>1. \A f1, g \in H : \A i \in 1 .. Len(D[f1]), k \in 1 .. Len(D[g]) :
          D[f1][i] = D[g][k] => f1 = g /\ i = k
    <3> SUFFICES ASSUME NEW f1 \in H, NEW g \in H,
                        NEW i \in 1 .. Len(D[f1]), NEW k \in 1 .. Len(D[g]), D[f1][i] = D[g][k]
                 PROVE  f1 = g /\ i = k
      OBVIOUS
    <3>1. CASE f1 = h /\ g = h
      <4>1. i \in 1 .. Len(t) /\ k \in 1 .. Len(t) /\ t[i] = t[k] BY <3>1 DEF t
      <4>2. CASE t[i] = e BY <4>1, <4>2, <1>10, <3>1
      <4>3. CASE t[i] # e
        <5>1. i \in 1 .. Len(s) /\ k \in 1 .. Len(s) /\ s[i] = s[k] BY <4>1, <4>3, <1>10
        <5>2. i = k BY <5>1, <1>8
        <5> QED BY <5>2, <3>1
      <4> QED BY <4>2, <4>3
    <3>2. CASE f1 = h /\ g # h
      <4>1. i \in 1 .. Len(t) /\ k \in 1 .. Len(C[g]) /\ t[i] = C[g][k] BY <1>3, <3>2 DEF t
      <4>2. i \in 1 .. Len(s) /\ s[i] = C[g][k] BY <4>1, <1>7, <1>10
      <4> QED BY <4>1, <4>2, <1>8, <3>2
    <3>3. CASE f1 # h /\ g = h
      <4>1. k \in 1 .. Len(t) /\ i \in 1 .. Len(C[f1]) /\ t[k] = C[f1][i] BY <1>3, <3>3 DEF t
      <4>2. k \in 1 .. Len(s) /\ s[k] = C[f1][i] BY <4>1, <1>7, <1>10
      <4> QED BY <4>1, <4>2, <1>8, <3>3
    <3>4. CASE f1 # h /\ g # h
      <4>1. D[f1] = C[f1] /\ D[g] = C[g] BY <1>3, <3>4
      <4>2. \A a, b \in H : \A m \in 1 .. Len(C[a]), n \in 1 .. Len(C[b]) :
              C[a][m] = C[b][n] => a = b /\ m = n
        BY <1>1 DEF Linked, Apart
      <4> QED BY <4>1, <4>2
    <3> QED BY <3>1, <3>2, <3>3, <3>4
  <2> QED BY <2>1, <1>3 DEF Apart
<1>12. Forward(H, n1, D)
  <2> SUFFICES ASSUME NEW g \in H, NEW i \in 0 .. Len(D[g])
               PROVE  n1[Ptr(g, D[g], i)] = Nxt(D[g], i)
    BY DEF Forward
  <2>1. CASE g # h
    <3>1. D[g] = C[g] BY <1>3, <2>1
    <3>2. nx[Ptr(g, C[g], i)] = Nxt(C[g], i) BY <3>1 DEF Linked, Forward
    <3>3. Ptr(g, C[g], i) \in (H \union Entries) \ {e, end}
      <4>1. CASE i = 0
        <5>1. Ptr(g, C[g], i) = g BY <4>1 DEF Ptr
        <5> QED BY <5>1, <2>1, <1>1, <1>4
      <4>2. CASE i # 0
        <5>0. i \in 0 .. Len(C[g]) /\ Len(C[g]) \in Nat
          <6> DEFINE r == C[g]
          <6>1. r \in Seq(Entries) BY <1>1
          <6>2. Len(r) \in Nat
            <7> HIDE DEF r
            <7> QED BY <6>1
          <6> QED BY <6>2, <3>1
        <5>1. Ptr(g, C[g], i) = C[g][i] /\ i \in 1 .. Len(C[g]) BY <4>2, <5>0 DEF Ptr
        <5>2. C[g][i] \in Entries /\ C[g][i] # e BY <5>1, <1>7
        <5>3. C[g][i] # end
          <6>1. CASE Len(s) = 0 BY <6>1, <5>2, <1>1, <1>4
          <6>2. CASE Len(s) # 0
            <7>1. Len(s) \in 1 .. Len(s) BY <6>2, <1>2
            <7> QED BY <7>1, <5>1, <1>8, <1>4, <6>2, <2>1
          <6> QED BY <6>1, <6>2
        <5> QED BY <5>1, <5>2, <5>3
      <4> QED BY <4>1, <4>2
    <3> QED BY <3>1, <3>2, <3>3, <1>5
  <2>2. CASE g = h /\ i = Len(s) + 1
    <3>1. Ptr(g, D[g], i) = e BY <2>2, <1>2, <1>3 DEF Ptr, t
    <3>2. Nxt(D[g], i) = 0 BY <2>2, <1>2, <1>3 DEF Nxt, t
    <3> QED BY <3>1, <3>2, <1>5
  <2>3. CASE g = h /\ i = Len(s)
    <3>1. Ptr(g, D[g], i) = end
      <4>1. CASE i = 0 BY <4>1, <2>3, <1>4 DEF Ptr
      <4>2. CASE i # 0
        <5>1. i \in 1 .. Len(s) BY <4>2, <2>3, <1>2
        <5>2. t[i] = s[i] BY <5>1, <1>3
        <5> QED BY <5>2, <4>2, <2>3, <1>4 DEF Ptr, t
      <4> QED BY <4>1, <4>2
    <3>2. Nxt(D[g], i) = e BY <2>3, <1>2, <1>3 DEF Nxt, t
    <3> QED BY <3>1, <3>2, <1>5
  <2>4. CASE g = h /\ i # Len(s) + 1 /\ i # Len(s)
    <3>1. i \in 0 .. Len(s) /\ i < Len(s) /\ D[g] = t /\ i + 1 \in 1 .. Len(s)
      BY <2>4, <1>2, <1>3 DEF t
    <3>2. Ptr(g, D[g], i) = Ptr(h, s, i)
      <4>1. CASE i = 0 BY <4>1, <2>4 DEF Ptr
      <4>2. CASE i # 0
        <5>1. i \in 1 .. Len(s) BY <4>2, <3>1
        <5>2. t[i] = s[i] BY <5>1, <1>3
        <5> QED BY <5>2, <4>2, <3>1 DEF Ptr
      <4> QED BY <4>1, <4>2
    <3>3. Nxt(D[g], i) = Nxt(s, i)
      <4>1. t[i + 1] = s[i + 1] BY <3>1, <1>3
      <4> QED BY <4>1, <3>1, <1>2, <1>3 DEF Nxt
    <3>4. nx[Ptr(h, s, i)] = Nxt(s, i) BY <3>1 DEF Linked, Forward
    <3>5. Ptr(h, s, i) \in (H \union Entries) \ {e, end}
      <4>1. CASE i = 0
        <5>1. Ptr(h, s, i) = h BY <4>1 DEF Ptr
        <5>2. Len(s) # 0 BY <4>1, <3>1
        <5> QED BY <5>1, <5>2, <1>1, <1>4
      <4>2. CASE i # 0
        <5>1. Ptr(h, s, i) = s[i] /\ i \in 1 .. Len(s) BY <4>2, <3>1 DEF Ptr
        <5>2. Len(s) \in 1 .. Len(s) /\ Len(s) # 0 /\ i # Len(s) BY <5>1, <3>1, <1>2
        <5>3. s[i] # s[Len(s)] BY <5>1, <5>2, <1>8
        <5>4. s[i] \in Entries /\ s[i] # e BY <5>1, <1>7
        <5> QED BY <5>1, <5>2, <5>3, <5>4, <1>4
      <4> QED BY <4>1, <4>2
    <3> QED BY <3>2, <3>3, <3>4, <3>5, <1>5
  <2>5. g = h => i \in 0 .. Len(s) + 1 BY <1>2, <1>3 DEF t
  <2> QED BY <2>1, <2>2, <2>3, <2>4, <2>5
<1>13. Backward(H, b1, D)
  <2> SUFFICES ASSUME NEW g \in H, NEW i \in 1 .. Len(D[g])
               PROVE  b1[D[g][i]] = Ptr(g, D[g], i - 1)
    BY DEF Backward
  <2>1. CASE g # h
    <3>1. D[g] = C[g] BY <1>3, <2>1
    <3>2. bk[C[g][i]] = Ptr(g, C[g], i - 1) BY <3>1 DEF Linked, Backward
    <3>3. C[g][i] \in Entries \ {e} BY <3>1, <1>7
    <3> QED BY <3>1, <3>2, <3>3, <1>6
  <2>2. CASE g = h
    <3>0. D[g] = t /\ i \in 1 .. Len(t) BY <2>2 DEF t
    <3>1. Ptr(g, D[g], i - 1) = Ptr(h, s, i - 1)
      <4>1. CASE i = 1 BY <4>1, <2>2 DEF Ptr
      <4>2. CASE i # 1
        <5>1. i - 1 \in 1 .. Len(s) /\ i - 1 # 0 BY <4>2, <3>0, <1>2, <1>3
        <5>2. t[i - 1] = s[i - 1] BY <5>1, <1>3
        <5> QED BY <5>1, <5>2, <3>0 DEF Ptr
      <4> QED BY <4>1, <4>2
    <3>2. CASE i = Len(s) + 1
      <4>1. D[g][i] = e BY <3>0, <3>2, <1>3
      <4>2. i - 1 = Len(s) BY <3>2, <1>2
      <4> QED BY <4>1, <4>2, <3>1, <1>6
    <3>3. CASE i # Len(s) + 1
      <4>1. i \in 1 .. Len(s) /\ t[i] = s[i] BY <3>0, <3>3, <1>10
      <4>2. bk[s[i]] = Ptr(h, s, i - 1) BY <4>1 DEF Linked, Backward
      <4>3. s[i] \in Entries \ {e} BY <4>1, <1>7
      <4>4. b1[s[i]] = bk[s[i]] BY <4>3, <1>6
      <4> QED BY <3>0, <3>1, <4>1, <4>2, <4>4
    <3> QED BY <3>2, <3>3
  <2> QED BY <2>1, <2>2
<1>14. Loose(n1, D, {})
  <2> SUFFICES ASSUME NEW x \in Entries, n1[x] # 0 PROVE IsIn(x, D) BY DEF Loose
  <2>1. x # e BY <1>5
  <2>2. IsIn(x, C)
    <3>1. CASE x = end
      <4>1. Len(s) # 0 BY <3>1, <1>1, <1>4
      <4>2. x = s[Len(s)] /\ Len(s) \in 1 .. Len(s) BY <4>1, <3>1, <1>2, <1>4
      <4> QED BY <4>2, <1>1 DEF IsIn
    <3>2. CASE x # end
      <4>1. nx[x] = n1[x] BY <3>2, <2>1, <1>5
      <4> QED BY <4>1, <2>1 DEF Linked, Loose
    <3> QED BY <3>1, <3>2
  <2>3. PICK g \in H : \E i \in 1 .. Len(C[g]) : C[g][i] = x BY <2>2, <1>1 DEF IsIn
  <2>4. PICK i \in 1 .. Len(C[g]) : C[g][i] = x BY <2>3
  <2>5. CASE g # h BY <2>4, <2>5, <1>3 DEF IsIn
  <2>6. CASE g = h
    <3>1. i \in 1 .. Len(s) /\ i \in 1 .. Len(t) BY <2>4, <2>6, <1>2, <1>3
    <3>2. t[i] = x BY <3>1, <1>3, <2>4, <2>6
    <3> QED BY <3>1, <3>2, <1>3 DEF IsIn, t
  <2> QED BY <2>5, <2>6
<1> QED BY <1>9, <1>11, <1>12, <1>13, <1>14 DEF Linked

\* The entries behind a pointer, by following the pointers to the end.
Behind(P, nx) ==
  CHOOSE w : w = [p \in P |-> IF nx[p] = 0 THEN <<>> ELSE <<nx[p]>> \o w[nx[p]]]

\* Following the pointers from a head reads its list.
LEMMA Reads ==
  ASSUME NEW H, NEW nx, NEW bk, NEW C, Linked(H, nx, bk, C, {})
  PROVE  \A h \in H : Behind(H \union Entries, nx)[h] = C[h]
<1> DEFINE P == H \union Entries
           Is(p, h, i) == h \in H /\ i \in 0 .. Len(C[h]) /\ p = Ptr(h, C[h], i)
           tail(h, i) == SubSeq(C[h], i + 1, Len(C[h]))
           rest == [p \in P |-> IF \E h, i : Is(p, h, i)
                                  THEN CHOOSE r : \E h, i : Is(p, h, i) /\ r = tail(h, i)
                                  ELSE <<>>]
           Eq(w) == w = [p \in P |-> IF nx[p] = 0 THEN <<>> ELSE <<nx[p]>> \o w[nx[p]]]
<1>1. /\ H \subseteq Int /\ H \intersect Entries = {} /\ Entries \subseteq Nat \ {0}
      /\ C \in [H -> Seq(Entries)] /\ DOMAIN C = H
      /\ nx \in [P -> Entries \union {0}]
  BY DEF Linked, ListTypes, HeadsOk, Entries
<1>2. ASSUME NEW h \in H
      PROVE  C[h] \in Seq(Entries) /\ Len(C[h]) \in Nat /\ \A i \in 1 .. Len(C[h]) : C[h][i] \in Entries
  <2> DEFINE s == C[h]
  <2>1. s \in Seq(Entries) BY <1>1
  <2> HIDE DEF s
  <2>2. s \in Seq(Entries) /\ Len(s) \in Nat /\ \A i \in 1 .. Len(s) : s[i] \in Entries
    BY <2>1, ElementOfSeq
  <2> QED BY <2>2 DEF s
<1>3. ASSUME NEW h, NEW i, NEW g, NEW j, Is(Ptr(h, C[h], i), h, i), Is(Ptr(h, C[h], i), g, j)
      PROVE  h = g /\ i = j
  <2>1. /\ h \in H /\ g \in H /\ i \in 0 .. Len(C[h]) /\ j \in 0 .. Len(C[g])
        /\ Ptr(h, C[h], i) = Ptr(g, C[g], j)
    BY <1>3
  <2>2. i # 0 => i \in 1 .. Len(C[h]) /\ Ptr(h, C[h], i) = C[h][i] /\ C[h][i] \in Entries
    BY <2>1, <1>2 DEF Ptr
  <2>3. j # 0 => j \in 1 .. Len(C[g]) /\ Ptr(g, C[g], j) = C[g][j] /\ C[g][j] \in Entries
    BY <2>1, <1>2 DEF Ptr
  <2>4. i = 0 => Ptr(h, C[h], i) = h /\ Ptr(h, C[h], i) \notin Entries BY <2>1, <1>1 DEF Ptr
  <2>5. j = 0 => Ptr(g, C[g], j) = g /\ Ptr(g, C[g], j) \notin Entries BY <2>1, <1>1 DEF Ptr
  <2>6. CASE i = 0 /\ j = 0 BY <2>1, <2>4, <2>5, <2>6
  <2>7. CASE i # 0 /\ j # 0 BY <2>1, <2>2, <2>3, <2>7, <1>1 DEF Linked, Apart
  <2> QED BY <2>1, <2>2, <2>3, <2>4, <2>5, <2>6, <2>7
<1>4. ASSUME NEW h \in H, NEW i \in 0 .. Len(C[h])
      PROVE  rest[Ptr(h, C[h], i)] = tail(h, i) /\ Ptr(h, C[h], i) \in P
  <2> DEFINE p == Ptr(h, C[h], i)
  <2>1. p \in P
    <3>1. CASE i = 0 BY <3>1 DEF Ptr
    <3>2. CASE i # 0
      <4>1. i \in 1 .. Len(C[h]) BY <3>2, <1>2
      <4> QED BY <4>1, <3>2, <1>2 DEF Ptr
    <3> QED BY <3>1, <3>2
  <2>2. Is(p, h, i) OBVIOUS
  <2>3. \A g, j : Is(p, g, j) => g = h /\ j = i BY <2>2, <1>3
  <2> HIDE DEF Is, tail, p
  <2>4. (CHOOSE r : \E g, j : Is(p, g, j) /\ r = tail(g, j)) = tail(h, i)
    <3>1. \A r : (\E g, j : Is(p, g, j) /\ r = tail(g, j)) <=> r = tail(h, i)
      BY <2>2, <2>3
    <3> QED BY <3>1
  <2> QED BY <2>1, <2>2, <2>4 DEF p
<1> HIDE DEF rest
<1>5. ASSUME NEW h \in H, NEW i \in 0 .. Len(C[h])
      PROVE  /\ nx[Ptr(h, C[h], i)] = Nxt(C[h], i)
             /\ i = Len(C[h]) => Nxt(C[h], i) = 0 /\ tail(h, i) = <<>>
             /\ i # Len(C[h]) => /\ i + 1 \in 0 .. Len(C[h]) /\ Nxt(C[h], i) # 0
                                 /\ Nxt(C[h], i) = Ptr(h, C[h], i + 1)
                                 /\ tail(h, i) = <<Nxt(C[h], i)>> \o tail(h, i + 1)
  <2> DEFINE s == C[h]
  <2>1. nx[Ptr(h, C[h], i)] = Nxt(C[h], i) BY DEF Linked, Forward
  <2>2. s \in Seq(Entries) /\ Len(s) \in Nat /\ \A k \in 1 .. Len(s) : s[k] \in Entries BY <1>2
  <2>3. ASSUME i = Len(s) PROVE Nxt(s, i) = 0 /\ SubSeq(s, i + 1, Len(s)) = <<>>
    <3>1. i + 1 \in Int /\ Len(s) \in Int /\ Len(s) < i + 1 BY <2>2, <2>3
    <3> HIDE DEF s
    <3>2. SubSeq(s, i + 1, Len(s)) = <<>> BY <3>1, SubSeqEmpty
    <3> QED BY <3>1, <3>2, <2>3 DEF Nxt
  <2>4. ASSUME i # Len(s)
        PROVE  /\ i + 1 \in 0 .. Len(s) /\ Nxt(s, i) # 0 /\ Nxt(s, i) = Ptr(h, s, i + 1)
               /\ SubSeq(s, i + 1, Len(s)) = <<Nxt(s, i)>> \o SubSeq(s, (i + 1) + 1, Len(s))
    <3>1. i + 1 \in 1 .. Len(s) /\ Len(s) \in i + 1 .. Len(s) /\ i < Len(s) /\ i + 1 # 0
      BY <2>2, <2>4
    <3> HIDE DEF s
    <3>2. SubSeq(s, i + 1, Len(s)) = <<s[i + 1]>> \o SubSeq(s, (i + 1) + 1, Len(s))
      BY <3>1, <2>2, SubSeqRecursiveFirst
    <3>3. Nxt(s, i) = s[i + 1] /\ Ptr(h, s, i + 1) = s[i + 1] BY <3>1 DEF Nxt, Ptr
    <3>4. s[i + 1] # 0 BY <3>1, <2>2, <1>1
    <3> QED BY <3>1, <3>2, <3>3, <3>4
  <2> QED BY <2>1, <2>3, <2>4
<1>6. Eq(rest)
  <2>1. rest = [p \in P |-> rest[p]] BY DEF rest
  <2>2. ASSUME NEW p \in P
        PROVE  rest[p] = IF nx[p] = 0 THEN <<>> ELSE <<nx[p]>> \o rest[nx[p]]
    <3>1. CASE \E h, i : Is(p, h, i)
      <4> PICK h, i : Is(p, h, i) BY <3>1
      <4>1. h \in H /\ i \in 0 .. Len(C[h]) /\ p = Ptr(h, C[h], i) OBVIOUS
      <4>2. rest[p] = tail(h, i) BY <4>1, <1>4
      <4>3. CASE i = Len(C[h])
        <5>1. nx[p] = 0 /\ tail(h, i) = <<>> BY <4>1, <4>3, <1>5
        <5> QED BY <5>1, <4>2
      <4>4. CASE i # Len(C[h])
        <5>1. /\ i + 1 \in 0 .. Len(C[h]) /\ nx[p] # 0 /\ nx[p] = Ptr(h, C[h], i + 1)
              /\ tail(h, i) = <<nx[p]>> \o tail(h, i + 1)
          BY <4>1, <4>4, <1>5
        <5>2. rest[nx[p]] = tail(h, i + 1) BY <4>1, <5>1, <1>4
        <5> QED BY <5>1, <5>2, <4>2
      <4> QED BY <4>3, <4>4
    <3>2. CASE ~\E h, i : Is(p, h, i)
      <4>1. rest[p] = <<>> BY <3>2 DEF rest
      <4>2. p \in Entries
        <5>1. ASSUME p \in H PROVE FALSE
          <6>1. Is(p, p, 0) BY <5>1, <1>2 DEF Ptr
          <6> QED BY <6>1, <3>2
        <5> QED BY <5>1
      <4>3. ~IsIn(p, C)
        <5> SUFFICES ASSUME NEW h \in H, NEW i \in 1 .. Len(C[h]), C[h][i] = p PROVE FALSE
          BY <1>1 DEF IsIn
        <5>1. Is(p, h, i) BY <1>2 DEF Ptr
        <5> QED BY <5>1, <3>2
      <4>4. nx[p] = 0 BY <4>2, <4>3 DEF Linked, Loose
      <4> QED BY <4>1, <4>4
    <3> QED BY <3>1, <3>2
  <2> QED BY <2>1, <2>2
<1> DEFINE w == Behind(P, nx)
<1>7. Eq(w) BY <1>6 DEF Behind
<1> HIDE DEF w
<1>8. ASSUME NEW h \in H PROVE w[h] = C[h]
  <2> DEFINE n == Len(C[h])
             S == {k \in 0 .. n : w[Ptr(h, C[h], n - k)] = tail(h, n - k)}
  <2>0. n \in Nat BY <1>2
  <2>1. \A p \in P : w[p] = IF nx[p] = 0 THEN <<>> ELSE <<nx[p]>> \o w[nx[p]] BY <1>7
  <2>2. 0 \in S
    <3>1. n - 0 = n /\ n \in 0 .. Len(C[h]) BY <2>0
    <3>2. nx[Ptr(h, C[h], n)] = 0 /\ tail(h, n) = <<>> BY <3>1, <1>5
    <3>3. w[Ptr(h, C[h], n)] = <<>> BY <3>1, <3>2, <2>1, <1>4
    <3>4. w[Ptr(h, C[h], n - 0)] = tail(h, n - 0)
      <4> HIDE DEF n, tail
      <4> QED BY <3>1, <3>2, <3>3
    <3>5. 0 \in 0 .. n BY <2>0
    <3> QED BY <3>4, <3>5
  <2>3. ASSUME NEW k \in 0 .. n - 1, k \in S PROVE k + 1 \in S
    <3> DEFINE i == n - (k + 1)
    <3>1. /\ i \in 0 .. Len(C[h]) /\ i # Len(C[h]) /\ i + 1 = n - k
          /\ k + 1 \in 0 .. n
      BY <2>0
    <3>2. w[Ptr(h, C[h], i + 1)] = tail(h, i + 1) BY <2>3, <3>1
    <3> HIDE DEF tail, i, n
    <3>3. /\ nx[Ptr(h, C[h], i)] # 0 /\ nx[Ptr(h, C[h], i)] = Ptr(h, C[h], i + 1)
          /\ tail(h, i) = <<nx[Ptr(h, C[h], i)]>> \o tail(h, i + 1)
      BY <3>1, <1>5
    <3>4. w[Ptr(h, C[h], i)] = tail(h, i) BY <3>1, <3>2, <3>3, <2>1, <1>4
    <3> QED BY <3>1, <3>4 DEF i
  <2>4. 0 .. n \subseteq S
    <3> HIDE DEF S, n
    <3>1. 0 \in Int /\ n \in Int BY <2>0
    <3> QED BY <3>1, <2>2, <2>3, AllBetween
  <2>5. n \in S
    <3> HIDE DEF S, n
    <3> QED BY <2>0, <2>4
  <2>6. w[Ptr(h, C[h], 0)] = tail(h, 0)
    <3>1. n - n = 0 BY <2>0
    <3> QED BY <2>5, <3>1
  <2>7. Ptr(h, C[h], 0) = h BY DEF Ptr
  <2>8. tail(h, 0) = C[h]
    <3> DEFINE s == C[h]
    <3>1. s \in Seq(Entries) BY <1>2
    <3> HIDE DEF s
    <3>2. SubSeq(s, 1, Len(s)) = s BY <3>1, SubSeqFull
    <3> QED BY <3>2 DEF s
  <2> QED BY <2>6, <2>7, <2>8
<1> QED BY <1>8 DEF w

----------------------------------------------------------------------------
(* The table: its inductive invariant.                                           *)

Mem(s) == {s[i] : i \in 1 .. Len(s)}
OneToOne(s) == \A i, j \in 1 .. Len(s) : s[i] = s[j] => i = j

\* It has the other members if none occurs twice.
LEMMA MemLess ==
  ASSUME NEW S, NEW s \in Seq(S), OneToOne(s), NEW j \in 1 .. Len(s)
  PROVE  Mem(Less(s, j)) = Mem(s) \ {s[j]}
<1> DEFINE t == Less(s, j)
<1>1. /\ Len(t) = Len(s) - 1 /\ Len(s) \in Nat
      /\ \A i \in 1 .. Len(s) - 1 : t[i] = IF i < j THEN s[i] ELSE s[i + 1]
  BY LessIs
<1> HIDE DEF t
<1>2. ASSUME NEW i \in 1 .. Len(t) PROVE t[i] \in Mem(s) \ {s[j]}
  <2>1. PICK k \in 1 .. Len(s) : k # j /\ t[i] = s[k]
    <3>1. CASE i < j BY <3>1, <1>1
    <3>2. CASE ~(i < j)
      <4>1. i + 1 \in 1 .. Len(s) /\ i + 1 # j /\ t[i] = s[i + 1] BY <3>2, <1>1
      <4> QED BY <4>1
    <3> QED BY <3>1, <3>2
  <2> QED BY <2>1 DEF Mem, OneToOne
<1>3. ASSUME NEW k \in 1 .. Len(s), s[k] # s[j] PROVE s[k] \in Mem(t)
  <2>1. CASE k < j
    <3>1. k \in 1 .. Len(t) /\ t[k] = s[k] BY <2>1, <1>1
    <3> QED BY <3>1 DEF Mem
  <2>2. CASE ~(k < j)
    <3>1. k # j BY <1>3
    <3>2. k - 1 \in 1 .. Len(t) /\ ~(k - 1 < j) /\ (k - 1) + 1 = k BY <3>1, <2>2, <1>1
    <3>3. t[k - 1] = s[k] BY <3>2, <1>1
    <3> QED BY <3>2, <3>3 DEF Mem
  <2> QED BY <2>1, <2>2
<1>4. Mem(t) \subseteq Mem(s) \ {s[j]} BY <1>2 DEF Mem
<1>5. Mem(s) \ {s[j]} \subseteq Mem(t) BY <1>3 DEF Mem
<1> QED BY <1>4, <1>5 DEF t

\* One more member.
LEMMA MemAppend ==
  ASSUME NEW S, NEW s \in Seq(S), NEW e \in S
  PROVE  Mem(Append(s, e)) = Mem(s) \union {e}
<1> DEFINE t == Append(s, e)
<1>1. /\ Len(t) = Len(s) + 1 /\ Len(s) \in Nat
      /\ \A i \in 1 .. Len(s) : t[i] = s[i]
      /\ t[Len(s) + 1] = e
  OBVIOUS
<1> HIDE DEF t
<1>2. \A i \in 1 .. Len(t) : i \in 1 .. Len(s) \/ i = Len(s) + 1 BY <1>1
<1>3. \A i \in 1 .. Len(s) : i \in 1 .. Len(t) BY <1>1
<1>4. Len(s) + 1 \in 1 .. Len(t) BY <1>1
<1>5. Mem(t) \subseteq Mem(s) \union {e} BY <1>1, <1>2 DEF Mem
<1>6. Mem(s) \union {e} \subseteq Mem(t) BY <1>1, <1>3, <1>4 DEF Mem
<1> QED BY <1>5, <1>6 DEF t

\* A list alone: that of the entries in use.
One(u) == [h \in {0} |-> u]
InUse(un, ub, u) == Linked({0}, un, ub, One(u), {})

OneFacts(un, ub, u) ==
  /\ u \in Seq(Entries) /\ Len(u) \in Nat /\ OneToOne(u) /\ Mem(u) \subseteq Entries
  /\ un \in [{0} \union Entries -> {0} \union Entries] /\ ub \in [Entries -> Int]
  /\ \A i \in 0 .. Len(u) : un[Ptr(0, u, i)] = Nxt(u, i)
  /\ \A i \in 1 .. Len(u) : ub[u[i]] = Ptr(0, u, i - 1)
  /\ \A e : IsIn(e, One(u)) <=> e \in Mem(u)
\* What its pointers say.
LEMMA OneIs ==
  ASSUME NEW un, NEW ub, NEW u, InUse(un, ub, u)
  PROVE  OneFacts(un, ub, u)
<1> DEFINE C == One(u)
<1>1. C[0] = u /\ DOMAIN C = {0} BY DEF One
<1>2. C \in [{0} -> Seq(Entries)] BY DEF InUse, Linked, ListTypes
<1>3. u \in Seq(Entries) BY <1>1, <1>2
<1>4. Len(u) \in Nat /\ \A i \in 1 .. Len(u) : u[i] \in Entries BY <1>3, ElementOfSeq
<1>5. OneToOne(u) BY <1>1 DEF InUse, Linked, Apart, OneToOne
<1>6. \A i \in 0 .. Len(u) : un[Ptr(0, u, i)] = Nxt(u, i) BY <1>1 DEF InUse, Linked, Forward
<1>7. \A i \in 1 .. Len(u) : ub[u[i]] = Ptr(0, u, i - 1) BY <1>1 DEF InUse, Linked, Backward
<1>8. \A e : IsIn(e, C) <=> e \in Mem(u) BY <1>1 DEF IsIn, Mem
<1>9. un \in [{0} \union Entries -> {0} \union Entries] /\ ub \in [Entries -> Int]
  BY DEF InUse, Linked, ListTypes
<1> QED BY <1>3, <1>4, <1>5, <1>6, <1>7, <1>8, <1>9 DEF Mem, OneFacts

\* Taking an entry out of it.
LEMMA UnlinkOne ==
  ASSUME NEW un, NEW ub, NEW u, InUse(un, ub, u),
         NEW j \in 1 .. Len(u), NEW e, e = u[j],
         NEW n1, n1 = Passed(un, ub, e), NEW b1, b1 = PassedBack(un, ub, e)
  PROVE  Linked({0}, n1, b1, One(Less(u, j)), {e}) /\ ~IsIn(e, One(Less(u, j))) /\ e \in Entries
<1> DEFINE C == One(u)
           D == One(Less(u, j))
           H == {0}
           h == 0
<1>1. C[0] = u /\ DOMAIN C = {0} BY DEF One
<1>2. D = Out(C, h, j) BY <1>1 DEF One, Out
<1>3. Linked(H, un, ub, C, {}) /\ h \in H /\ j \in 1 .. Len(C[h]) /\ e = C[h][j] BY <1>1 DEF InUse
<1> HIDE DEF C, D, H, h
<1>4. Linked(H, n1, b1, D, {e}) /\ ~IsIn(e, D) /\ e \in Entries BY <1>2, <1>3, Unlink
<1> QED BY <1>4 DEF D, H

\* Putting one at its end.
LEMMA LinkLastOne ==
  ASSUME NEW un, NEW ub, NEW u, NEW e \in Entries, Linked({0}, un, ub, One(u), {e}), ~IsIn(e, One(u)),
         NEW end, end = Ptr(0, u, Len(u)),
         NEW n1, n1 = Put(un, e, end), NEW b1, b1 = PutBack(ub, e, end)
  PROVE  InUse(n1, b1, Append(u, e))
<1> DEFINE C == One(u)
           D == One(Append(u, e))
           H == {0}
           h == 0
<1>1. C[0] = u /\ DOMAIN C = {0} BY DEF One
<1>2. D = In(C, h, e) BY <1>1 DEF One, In
<1>3. /\ Linked(H, un, ub, C, {e}) /\ h \in H /\ ~IsIn(e, C) /\ end = Ptr(h, C[h], Len(C[h]))
  BY <1>1
<1> HIDE DEF C, D, H, h
<1>4. Linked(H, n1, b1, D, {}) BY <1>2, <1>3, LinkLast
<1> QED BY <1>4 DEF D, H, InUse

\* The entries in use are u, the one asked for longest ago first; free are the others. A
\* chain has the entries in use whose keys have its hash, and no two have one key.
Row(k) == -Hash[k]
Rows == {Row(k) : k \in Keys}
TableIs(nx, bk, un, ub, end, free, ky, C, u) ==
  /\ Linked(Rows, nx, bk, C, {}) /\ InUse(un, ub, u) /\ end = Ptr(0, u, Len(u))
  /\ free \in Seq(Entries) /\ OneToOne(free) /\ Mem(free) = Entries \ Mem(u)
  /\ Len(free) + Len(u) = Nentry
  /\ ky \in [Entries -> Keys]
  /\ \A h \in Rows : Mem(C[h]) = {e \in Mem(u) : Row(ky[e]) = h}
  /\ \A d, e \in Mem(u) : ky[d] = ky[e] => d = e

\* What the invariant says of the pointers one by one.
LEMMA Shape ==
  ASSUME NEW nx, NEW bk, NEW un, NEW ub, NEW end, NEW free, NEW ky, NEW C, NEW u,
         TableIs(nx, bk, un, ub, end, free, ky, C, u)
  PROVE  /\ OneFacts(un, ub, u)
         /\ Rows \subseteq Int /\ Rows \intersect Entries = {} /\ Entries \subseteq Nat \ {0}
         /\ C \in [Rows -> Seq(Entries)] /\ DOMAIN C = Rows
         /\ \A e : IsIn(e, C) <=> e \in Mem(u)
         /\ \A h \in Rows : Len(C[h]) \in Nat /\ OneToOne(C[h])
         /\ nx \in [Rows \union Entries -> Entries \union {0}] /\ bk \in [Entries -> Int]
         /\ ky \in [Entries -> Keys]
<1>1. OneFacts(un, ub, u)
  <2>1. InUse(un, ub, u) BY DEF TableIs
  <2> QED BY <2>1, OneIs
<1>2. /\ Rows \subseteq Int /\ Rows \intersect Entries = {} /\ Entries \subseteq Nat \ {0}
      /\ C \in [Rows -> Seq(Entries)] /\ DOMAIN C = Rows
      /\ nx \in [Rows \union Entries -> Entries \union {0}] /\ bk \in [Entries -> Int]
  BY DEF TableIs, Linked, ListTypes, HeadsOk, Entries
<1>3. \A e : IsIn(e, C) <=> e \in Mem(u)
  <2>1. \A e : IsIn(e, C) <=> \E h \in Rows : e \in Mem(C[h]) BY <1>2 DEF IsIn, Mem
  <2>2. \A e \in Mem(u) : Row(ky[e]) \in Rows BY <1>1 DEF TableIs, Rows, OneFacts
  <2> QED BY <2>1, <2>2 DEF TableIs
<1>4. ASSUME NEW h \in Rows PROVE Len(C[h]) \in Nat /\ OneToOne(C[h])
  <2> DEFINE s == C[h]
  <2>1. s \in Seq(Entries) BY <1>2
  <2>2. OneToOne(s) BY <1>2 DEF TableIs, Linked, Apart, OneToOne
  <2>3. Len(s) \in Nat
    <3> HIDE DEF s
    <3> QED BY <2>1
  <2> QED BY <2>2, <2>3
<1> QED BY <1>1, <1>2, <1>3, <1>4 DEF TableIs

\* The chain of a key finds its entry.
HasIn(r, ky, k) == \E n \in DOMAIN r : ky[r[n]] = k
AtIn(r, ky, k) == r[CHOOSE n \in DOMAIN r : ky[r[n]] = k]
\* Behind the head of its chain is an entry with the key if one in use has it, and it is that one.
LEMMA Finds ==
  ASSUME NEW nx, NEW bk, NEW un, NEW ub, NEW end, NEW free, NEW ky, NEW C, NEW u,
         TableIs(nx, bk, un, ub, end, free, ky, C, u), NEW k \in Keys
  PROVE  LET r == C[Row(k)]
         IN /\ HasIn(r, ky, k) <=> \E e \in Mem(u) : ky[e] = k
            /\ \A e \in Mem(u) : ky[e] = k => AtIn(r, ky, k) = e
            /\ (IF r = <<>> THEN Row(k) ELSE r[Len(r)]) = Ptr(Row(k), r, Len(r))
<1> DEFINE r == C[Row(k)]
<1>1. Row(k) \in Rows BY DEF Rows
<1>2. r \in Seq(Entries) /\ Len(r) \in Nat /\ DOMAIN r = 1 .. Len(r) BY <1>1, Shape
<1>3. Mem(r) = {e \in Mem(u) : Row(ky[e]) = Row(k)} BY <1>1 DEF TableIs
<1>4. \A d, e \in Mem(u) : ky[d] = ky[e] => d = e BY DEF TableIs
<1> HIDE DEF r
<1>5. HasIn(r, ky, k) <=> \E e \in Mem(r) : ky[e] = k BY <1>2 DEF HasIn, Mem
<1>6. HasIn(r, ky, k) <=> \E e \in Mem(u) : ky[e] = k BY <1>3, <1>5
<1>7. ASSUME NEW e \in Mem(u), ky[e] = k PROVE AtIn(r, ky, k) = e
  <2> DEFINE n == CHOOSE n \in DOMAIN r : ky[r[n]] = k
  <2>1. n \in DOMAIN r /\ ky[r[n]] = k
    <3>1. \E i \in DOMAIN r : ky[r[i]] = k BY <1>6, <1>7 DEF HasIn
    <3> QED BY <3>1
  <2> HIDE DEF n
  <2>2. r[n] \in Mem(r) BY <2>1, <1>2 DEF Mem
  <2>3. r[n] = e BY <2>1, <2>2, <1>3, <1>4, <1>7
  <2> QED BY <2>3 DEF AtIn, n
<1>8. (IF r = <<>> THEN Row(k) ELSE r[Len(r)]) = Ptr(Row(k), r, Len(r))
  <2>1. r = <<>> <=> Len(r) = 0 BY <1>2
  <2> QED BY <2>1 DEF Ptr
<1> QED BY <1>6, <1>7, <1>8 DEF r

\* The table while entry e is neither in use nor free.
TableBut(nx, bk, un, ub, end, free, ky, C, u, e) ==
  /\ Linked(Rows, nx, bk, C, {e}) /\ Linked({0}, un, ub, One(u), {e}) /\ end = Ptr(0, u, Len(u))
  /\ e \in Entries \ Mem(u) /\ u \in Seq(Entries)
  /\ free \in Seq(Entries) /\ OneToOne(free) /\ Mem(free) = Entries \ (Mem(u) \union {e})
  /\ Len(free) + Len(u) + 1 = Nentry
  /\ ky \in [Entries -> Keys]
  /\ \A h \in Rows : Mem(C[h]) = {d \in Mem(u) : Row(ky[d]) = h}
  /\ \A d, g \in Mem(u) : ky[d] = ky[g] => d = g

\* The entry of a key that is there goes to the end.
LEMMA HitKeeps ==
  ASSUME NEW nx, NEW bk, NEW un, NEW ub, NEW end, NEW free, NEW ky, NEW C, NEW u,
         TableIs(nx, bk, un, ub, end, free, ky, C, u),
         NEW j \in 1 .. Len(u) - 1, NEW e, e = u[j],
         NEW n1, n1 = Put(Passed(un, ub, e), e, end),
         NEW b1, b1 = PutBack(PassedBack(un, ub, e), e, end)
  PROVE  un[e] \in Entries /\ TableIs(nx, bk, n1, b1, e, free, ky, C, Append(Less(u, j), e))
<1> DEFINE m1 == Passed(un, ub, e)
           c1 == PassedBack(un, ub, e)
           s == Less(u, j)
           w == Append(s, e)
<1>1. /\ u \in Seq(Entries) /\ Len(u) \in Nat /\ OneToOne(u) /\ Mem(u) \subseteq Entries
      /\ un \in [{0} \union Entries -> {0} \union Entries] /\ ub \in [Entries -> Int]
      /\ Entries \subseteq Nat \ {0} /\ InUse(un, ub, u) /\ end = Ptr(0, u, Len(u))
  <2>1. /\ u \in Seq(Entries) /\ Len(u) \in Nat /\ OneToOne(u) /\ Mem(u) \subseteq Entries
        /\ un \in [{0} \union Entries -> {0} \union Entries] /\ ub \in [Entries -> Int]
    BY Shape DEF OneFacts
  <2>2. Entries \subseteq Nat \ {0} BY DEF Entries
  <2> QED BY <2>1, <2>2 DEF TableIs
<1>2. j \in 1 .. Len(u) /\ j \in 0 .. Len(u) /\ j < Len(u) /\ j + 1 \in 1 .. Len(u) BY <1>1
<1>3. e \in Entries /\ e \in Mem(u) BY <1>1, <1>2 DEF Mem
<1>4. un[e] \in Entries /\ un[e] # 0
  <2>0. OneFacts(un, ub, u) BY Shape
  <2>1. un[Ptr(0, u, j)] = Nxt(u, j) BY <1>2, <2>0 DEF OneFacts
  <2>2. Ptr(0, u, j) = e BY <1>2 DEF Ptr
  <2>3. Nxt(u, j) = u[j + 1] /\ u[j + 1] \in Mem(u) BY <1>2 DEF Nxt, Mem
  <2> QED BY <1>1, <2>1, <2>2, <2>3
<1>6. Linked({0}, m1, c1, One(s), {e}) /\ ~IsIn(e, One(s))
  <2> HIDE DEF m1, c1
  <2>1. Linked({0}, m1, c1, One(Less(u, j)), {e}) /\ ~IsIn(e, One(Less(u, j)))
    BY <1>1, <1>2, UnlinkOne DEF m1, c1
  <2> QED BY <2>1
<1>7. /\ s \in Seq(Entries) /\ Len(s) = Len(u) - 1
      /\ \A i \in 1 .. Len(u) - 1 : s[i] = IF i < j THEN u[i] ELSE u[i + 1]
  BY <1>1, <1>2, LessIs
<1>8. Mem(s) = Mem(u) \ {e} BY <1>1, <1>2, MemLess
<1> HIDE DEF s
<1>9. end = Ptr(0, s, Len(s))
  <2>0. Len(u) \in Nat /\ j \in Nat /\ 1 <= j /\ j < Len(u) /\ Len(s) = Len(u) - 1
    BY <1>1, <1>2, <1>7
  <2>1. Len(s) \in 1 .. Len(u) - 1 /\ ~(Len(s) < j) /\ Len(s) + 1 = Len(u) /\ Len(s) # 0
        /\ Len(u) # 0
    BY <2>0
  <2>2. s[Len(s)] = u[Len(u)] BY <2>1, <1>7
  <2>3. Ptr(0, u, Len(u)) = u[Len(u)] /\ Ptr(0, s, Len(s)) = s[Len(s)] BY <2>1 DEF Ptr
  <2> QED BY <2>2, <2>3, <1>1
<1>10. n1 = Put(m1, e, end) OBVIOUS
<1>11. b1 = PutBack(c1, e, end) OBVIOUS
<1>12. InUse(n1, b1, w)
  <2> HIDE DEF m1, c1
  <2> QED BY <1>3, <1>6, <1>9, <1>10, <1>11, LinkLastOne
<1>13. Mem(w) = Mem(u)
  <2>1. Mem(w) = Mem(s) \union {e} BY <1>3, <1>7, MemAppend
  <2> QED BY <2>1, <1>3, <1>8
<1>14. Len(w) = Len(u) /\ w[Len(u)] = e BY <1>1, <1>3, <1>7
<1>15. e = Ptr(0, w, Len(w))
  <2>1. Len(u) # 0 BY <1>1, <1>2
  <2> QED BY <1>14, <2>1 DEF Ptr
<1> HIDE DEF w
<1>16. TableIs(nx, bk, n1, b1, e, free, ky, C, w) BY <1>12, <1>13, <1>14, <1>15 DEF TableIs
<1> QED BY <1>4, <1>16 DEF w, s

\* An entry is put at the end of a chain and of the entries in use.
LEMMA PutKeeps ==
  ASSUME NEW nx, NEW bk, NEW un, NEW ub, NEW end, NEW free, NEW ky, NEW C, NEW u, NEW e,
         TableBut(nx, bk, un, ub, end, free, ky, C, u, e),
         NEW k \in Keys, \A d \in Mem(u) : ky[d] # k,
         NEW last, last = Ptr(Row(k), C[Row(k)], Len(C[Row(k)])),
         NEW f1, f1 = Put(nx, e, last), NEW g1, g1 = PutBack(bk, e, last),
         NEW n1, n1 = Put(un, e, end), NEW b1, b1 = PutBack(ub, e, end),
         NEW k1, k1 = [ky EXCEPT ![e] = k],
         NEW D, D = In(C, Row(k), e)
  PROVE  TableIs(f1, g1, n1, b1, e, free, k1, D, Append(u, e))
<1> DEFINE w == Append(u, e)
           h == Row(k)
<1>0. h \in Rows BY DEF Rows
<1>1. /\ e \in Entries /\ e \notin Mem(u) /\ u \in Seq(Entries) /\ ky \in [Entries -> Keys]
      /\ C \in [Rows -> Seq(Entries)] /\ DOMAIN C = Rows
      /\ \A g \in Rows : Mem(C[g]) = {d \in Mem(u) : Row(ky[d]) = g}
      /\ Len(u) \in Nat /\ Mem(u) \subseteq Entries
  <2>1. u \in Seq(Entries) BY DEF TableBut
  <2>2. Len(u) \in Nat /\ \A i \in 1 .. Len(u) : u[i] \in Entries BY <2>1, ElementOfSeq
  <2>3. C \in [Rows -> Seq(Entries)] /\ DOMAIN C = Rows BY DEF TableBut, Linked, ListTypes
  <2>4. Mem(u) \subseteq Entries BY <2>2 DEF Mem
  <2>5. e \in Entries /\ e \notin Mem(u) /\ ky \in [Entries -> Keys] BY DEF TableBut
  <2>6. \A g \in Rows : Mem(C[g]) = {d \in Mem(u) : Row(ky[d]) = g} BY DEF TableBut
  <2> QED BY <2>1, <2>2, <2>3, <2>4, <2>5, <2>6
<1>2. ~IsIn(e, C) BY <1>1 DEF IsIn, Mem
<1>3. ~IsIn(e, One(u)) BY <1>1 DEF IsIn, Mem, One
<1>4. Linked(Rows, f1, g1, D, {})
  <2> DEFINE H == Rows
  <2>1. Linked(H, nx, bk, C, {e}) /\ h \in H BY <1>0 DEF TableBut
  <2>2. last = Ptr(h, C[h], Len(C[h])) /\ D = In(C, h, e) OBVIOUS
  <2> HIDE DEF H, h
  <2>3. Linked(H, f1, g1, D, {}) BY <1>1, <1>2, <2>1, <2>2, LinkLast
  <2> QED BY <2>3 DEF H
<1>5. InUse(n1, b1, w)
  <2>1. Linked({0}, un, ub, One(u), {e}) /\ end = Ptr(0, u, Len(u)) BY DEF TableBut
  <2> QED BY <1>1, <1>3, <2>1, LinkLastOne
<1>6. Mem(w) = Mem(u) \union {e} BY <1>1, MemAppend
<1>7. Len(w) = Len(u) + 1 /\ w[Len(w)] = e BY <1>1
<1>8. e = Ptr(0, w, Len(w)) BY <1>1, <1>7 DEF Ptr
<1> HIDE DEF w
<1>9. k1 \in [Entries -> Keys] /\ k1[e] = k /\ \A d \in Mem(u) : k1[d] = ky[d] /\ d # e
  BY <1>1
<1>10. \A g \in Rows : Mem(D[g]) = {d \in Mem(w) : Row(k1[d]) = g}
  <2> SUFFICES ASSUME NEW g \in Rows PROVE Mem(D[g]) = {d \in Mem(w) : Row(k1[d]) = g} OBVIOUS
  <2>1. CASE g = h
    <3> DEFINE s == C[h]
    <3>1. s \in Seq(Entries) BY <1>0, <1>1
    <3>2. D[g] = Append(s, e) BY <2>1, <1>0, <1>1 DEF In
    <3>3. Mem(s) = {d \in Mem(u) : Row(ky[d]) = h} BY <1>0, <1>1
    <3> HIDE DEF s
    <3>4. Mem(Append(s, e)) = Mem(s) \union {e} BY <1>1, <3>1, MemAppend
    <3> QED BY <2>1, <3>2, <3>3, <3>4, <1>6, <1>9
  <2>2. CASE g # h
    <3>1. D[g] = C[g] BY <2>2, <1>1 DEF In
    <3>2. Mem(C[g]) = {d \in Mem(u) : Row(ky[d]) = g} BY <1>1
    <3> HIDE DEF h
    <3>3. Row(k1[e]) # g BY <1>9, <2>2 DEF h
    <3> QED BY <3>1, <3>2, <3>3, <1>6, <1>9
  <2> QED BY <2>1, <2>2
<1>11. \A d, g \in Mem(w) : k1[d] = k1[g] => d = g
  <2>1. \A d, g \in Mem(u) : ky[d] = ky[g] => d = g BY DEF TableBut
  <2> QED BY <2>1, <1>6, <1>9
<1>12. free \in Seq(Entries) /\ OneToOne(free) /\ Mem(free) = Entries \ Mem(w)
       /\ Len(free) + Len(w) = Nentry
  <2>1. Len(free) \in Nat /\ Len(free) + Len(u) + 1 = Nentry BY DEF TableBut
  <2>2. Len(free) + Len(w) = Nentry BY <1>1, <1>7, <2>1
  <2> QED BY <2>2, <1>6 DEF TableBut
<1>13. TableIs(f1, g1, n1, b1, e, free, k1, D, w)
  BY <1>4, <1>5, <1>8, <1>9, <1>10, <1>11, <1>12 DEF TableIs
<1> QED BY <1>13 DEF w

\* The first of the free entries is taken.
LEMMA TakeKeeps ==
  ASSUME NEW nx, NEW bk, NEW un, NEW ub, NEW end, NEW free, NEW ky, NEW C, NEW u,
         TableIs(nx, bk, un, ub, end, free, ky, C, u), free # <<>>
  PROVE  TableBut(nx, bk, un, ub, end, Tail(free), ky, C, u, Head(free))
<1> DEFINE e == Head(free)
           s == Tail(free)
<1>1. /\ free \in Seq(Entries) /\ OneToOne(free) /\ Mem(free) = Entries \ Mem(u)
      /\ Len(free) + Len(u) = Nentry
  BY DEF TableIs
<1>2. /\ e \in Entries /\ s \in Seq(Entries) /\ Len(s) = Len(free) - 1 /\ Len(free) \in Nat \ {0}
      /\ \A i \in 1 .. Len(s) : s[i] = free[i + 1]
      /\ e = free[1]
  <2>1. Len(free) \in Nat \ {0} BY <1>1
  <2>2. s \in Seq(Entries) /\ Len(s) = Len(free) - 1 /\ \A i \in 1 .. Len(s) : s[i] = free[i + 1]
    BY <1>1, HeadTailProperties
  <2>3. e = free[1] /\ e \in Entries BY <1>1, <2>1
  <2> QED BY <2>1, <2>2, <2>3
<1> HIDE DEF e, s
<1>3. OneToOne(s) BY <1>1, <1>2 DEF OneToOne
<1>4. Mem(s) = Mem(free) \ {e}
  <2>1. ASSUME NEW i \in 1 .. Len(s) PROVE s[i] \in Mem(free) \ {e}
    <3>1. i + 1 \in 1 .. Len(free) /\ 1 \in 1 .. Len(free) /\ i + 1 # 1 BY <1>2
    <3> QED BY <3>1, <1>1, <1>2 DEF Mem, OneToOne
  <2>2. ASSUME NEW i \in 1 .. Len(free), free[i] # e PROVE free[i] \in Mem(s)
    <3>1. i # 1 BY <2>2, <1>2
    <3>2. i - 1 \in 1 .. Len(s) /\ (i - 1) + 1 = i BY <3>1, <1>2
    <3>3. s[i - 1] = free[i] BY <3>2, <1>2
    <3> QED BY <3>2, <3>3 DEF Mem
  <2> QED BY <2>1, <2>2 DEF Mem
<1>5. e \in Mem(free) BY <1>2 DEF Mem
<1>6. Mem(s) = Entries \ (Mem(u) \union {e}) BY <1>1, <1>4
<1>7. e \in Entries \ Mem(u) BY <1>1, <1>5
<1>8. u \in Seq(Entries) /\ Len(u) \in Nat BY Shape DEF OneFacts
<1>9. Len(s) + Len(u) + 1 = Nentry BY <1>1, <1>2, <1>8
<1>10. Linked(Rows, nx, bk, C, {e}) /\ Linked({0}, un, ub, One(u), {e})
  BY DEF TableIs, InUse, Linked, Loose
<1>11. TableBut(nx, bk, un, ub, end, s, ky, C, u, e)
  BY <1>2, <1>3, <1>6, <1>7, <1>8, <1>9, <1>10 DEF TableIs, TableBut
<1> QED BY <1>11 DEF e, s

\* Without one the first entry in use is, out of its chain and out of the list.
GivenUp(f1, g1, n1, b1, end, free, ky, C, u, bk, e) ==
  /\ Len(u) = Nentry /\ e = u[1]
  /\ \E D : /\ TableBut(f1, g1, n1, b1, end, free, ky, D, Less(u, 1), e)
           /\ \A k \in Keys :
                LET last == Ptr(Row(k), C[Row(k)], Len(C[Row(k)]))
                IN Ptr(Row(k), D[Row(k)], Len(D[Row(k)])) = IF last = e THEN bk[e] ELSE last
\* The step that gives up the first entry leaves that.
LEMMA GiveUpKeeps ==
  ASSUME NEW nx, NEW bk, NEW un, NEW ub, NEW end, NEW free, NEW ky, NEW C, NEW u,
         TableIs(nx, bk, un, ub, end, free, ky, C, u), free = <<>>,
         NEW e, e = un[0],
         NEW n1, n1 = [un EXCEPT ![0] = un[e]], NEW b1, b1 = [ub EXCEPT ![un[e]] = 0],
         NEW f1, f1 = Passed(nx, bk, e), NEW g1, g1 = PassedBack(nx, bk, e)
  PROVE  GivenUp(f1, g1, n1, b1, end, free, ky, C, u, bk, e)
<1> DEFINE s == Less(u, 1)
<1>0. Nentry \in Nat /\ Nentry >= 2 BY TableAssumption
<1>1. /\ u \in Seq(Entries) /\ Len(u) \in Nat /\ OneToOne(u) /\ Mem(u) \subseteq Entries
      /\ un \in [{0} \union Entries -> {0} \union Entries] /\ ub \in [Entries -> Int]
      /\ InUse(un, ub, u) /\ end = Ptr(0, u, Len(u)) /\ ky \in [Entries -> Keys]
      /\ Rows \subseteq Int /\ Rows \intersect Entries = {} /\ Entries \subseteq Nat \ {0}
      /\ C \in [Rows -> Seq(Entries)] /\ DOMAIN C = Rows
  <2>1. /\ u \in Seq(Entries) /\ Len(u) \in Nat /\ OneToOne(u) /\ Mem(u) \subseteq Entries
        /\ un \in [{0} \union Entries -> {0} \union Entries] /\ ub \in [Entries -> Int]
    BY Shape DEF OneFacts
  <2>2. /\ Rows \subseteq Int /\ Rows \intersect Entries = {} /\ Entries \subseteq Nat \ {0}
        /\ C \in [Rows -> Seq(Entries)] /\ DOMAIN C = Rows
    BY Shape
  <2> QED BY <2>1, <2>2 DEF TableIs
<1>2. Len(u) = Nentry
  <2>1. Len(free) = 0 /\ Len(free) + Len(u) = Nentry BY DEF TableIs
  <2> QED BY <2>1, <1>1
<1>3. 1 \in 1 .. Len(u) /\ 2 \in 1 .. Len(u) /\ 0 \in 0 .. Len(u) /\ 1 \in 0 .. Len(u) BY <1>0, <1>2
<1>4. e = u[1] /\ e \in Entries /\ e \in Mem(u) /\ un[e] = u[2] /\ un[e] \in Entries /\ un[e] # 0 /\ ub[e] = 0
  <2>0. OneFacts(un, ub, u) BY Shape
  <2>1. un[Ptr(0, u, 0)] = Nxt(u, 0) /\ un[Ptr(0, u, 1)] = Nxt(u, 1) BY <1>3, <2>0 DEF OneFacts
  <2>2. ub[u[1]] = Ptr(0, u, 1 - 1) BY <1>3, <2>0 DEF OneFacts
  <2>3. Ptr(0, u, 0) = 0 /\ Ptr(0, u, 1 - 1) = 0 /\ Ptr(0, u, 1) = u[1] /\ Nxt(u, 0) = u[1] /\ Nxt(u, 1) = u[2]
    BY <1>3 DEF Ptr, Nxt
  <2>4. u[1] \in Mem(u) /\ u[2] \in Mem(u) BY <1>3 DEF Mem
  <2> QED BY <2>1, <2>2, <2>3, <2>4, <1>1
<1>5. n1 = Passed(un, ub, e) /\ b1 = PassedBack(un, ub, e) BY <1>4 DEF Passed, PassedBack
<1>6. Linked({0}, n1, b1, One(s), {e})
  <2> DEFINE j == 1
  <2>1. j \in 1 .. Len(u) /\ e = u[j] BY <1>3, <1>4
  <2> HIDE DEF j, s
  <2>2. Linked({0}, n1, b1, One(Less(u, j)), {e}) BY <1>1, <1>5, <2>1, UnlinkOne
  <2> QED BY <2>2 DEF s, j
<1>7. /\ s \in Seq(Entries) /\ Len(s) = Len(u) - 1
      /\ \A i \in 1 .. Len(u) - 1 : s[i] = u[i + 1]
  <2> DEFINE j == 1
  <2>1. j \in 1 .. Len(u) /\ \A i \in 1 .. Len(u) - 1 : ~(i < j) BY <1>3
  <2> HIDE DEF j, s
  <2>2. /\ Less(u, j) \in Seq(Entries) /\ Len(Less(u, j)) = Len(u) - 1
        /\ \A i \in 1 .. Len(u) - 1 : Less(u, j)[i] = IF i < j THEN u[i] ELSE u[i + 1]
    BY <1>1, <2>1, LessIs
  <2> QED BY <2>1, <2>2 DEF s, j
<1>8. Mem(s) = Mem(u) \ {e}
  <2> DEFINE j == 1
  <2>1. j \in 1 .. Len(u) /\ e = u[j] BY <1>3, <1>4
  <2> HIDE DEF j, s
  <2>2. Mem(Less(u, j)) = Mem(u) \ {u[j]} BY <1>1, <2>1, MemLess
  <2> QED BY <2>1, <2>2 DEF s, j
<1> HIDE DEF s
<1>9. end = Ptr(0, s, Len(s))
  <2>1. /\ Len(s) \in 1 .. Len(u) - 1 /\ Len(s) + 1 = Len(u)
        /\ Len(s) # 0 /\ Len(u) # 0
    BY <1>0, <1>2, <1>7
  <2>2. s[Len(s)] = u[Len(u)] BY <2>1, <1>7
  <2>3. Ptr(0, u, Len(u)) = u[Len(u)] /\ Ptr(0, s, Len(s)) = s[Len(s)] BY <2>1 DEF Ptr
  <2> QED BY <2>2, <2>3, <1>1
<1> DEFINE h == Row(ky[e])
           c == C[h]
<1>10. h \in Rows /\ Mem(c) = {d \in Mem(u) : Row(ky[d]) = h}
  <2>1. h \in Rows BY <1>1, <1>4 DEF Rows
  <2> QED BY <2>1 DEF TableIs
<1>11. PICK j \in 1 .. Len(c) : c[j] = e
  <2>1. e \in Mem(c) BY <1>4, <1>10
  <2> QED BY <2>1 DEF Mem
<1> DEFINE D == Out(C, h, j)
<1>12. Linked(Rows, f1, g1, D, {e})
  <2> DEFINE H == Rows
             X == D
  <2>1. Linked(H, nx, bk, C, {}) BY DEF TableIs
  <2>2. h \in H /\ j \in 1 .. Len(C[h]) /\ e = C[h][j] BY <1>10, <1>11
  <2>3. X = Out(C, h, j) OBVIOUS
  <2> HIDE DEF H, h, X, c
  <2>4. Linked(H, f1, g1, X, {e}) BY <2>1, <2>2, <2>3, Unlink
  <2> QED BY <2>4 DEF H, X
<1>13. /\ c \in Seq(Entries) /\ OneToOne(c) /\ Len(c) \in Nat BY <1>10, Shape
<1>14. /\ D \in [Rows -> Seq(Entries)]
       /\ D[h] = Less(c, j) /\ \A g \in Rows \ {h} : D[g] = C[g]
  <2>1. D \in [Rows -> Seq(Entries)] BY <1>12 DEF Linked, ListTypes
  <2> QED BY <2>1, <1>1, <1>10 DEF Out
<1>15. /\ Less(c, j) \in Seq(Entries) /\ Len(Less(c, j)) = Len(c) - 1
       /\ \A i \in 1 .. Len(c) - 1 : Less(c, j)[i] = IF i < j THEN c[i] ELSE c[i + 1]
       /\ Mem(Less(c, j)) = Mem(c) \ {e}
  <2> HIDE DEF c
  <2>1. Mem(Less(c, j)) = Mem(c) \ {c[j]} BY <1>13, MemLess
  <2> QED BY <2>1, <1>11, <1>13, LessIs
<1> HIDE DEF D
<1>16. \A g \in Rows : Mem(D[g]) = {d \in Mem(s) : Row(ky[d]) = g}
  <2> SUFFICES ASSUME NEW g \in Rows PROVE Mem(D[g]) = {d \in Mem(s) : Row(ky[d]) = g} OBVIOUS
  <2>1. CASE g = h
    <3>1. Mem(D[g]) = Mem(c) \ {e} BY <2>1, <1>14, <1>15
    <3> QED BY <3>1, <2>1, <1>8, <1>10
  <2>2. CASE g # h
    <3>1. D[g] = C[g] BY <2>2, <1>14
    <3>2. Mem(C[g]) = {d \in Mem(u) : Row(ky[d]) = g} BY DEF TableIs
    <3> QED BY <3>1, <3>2, <2>2, <1>8
  <2> QED BY <2>1, <2>2
<1>17. TableBut(f1, g1, n1, b1, end, free, ky, D, s, e)
  <2>1. e \in Entries \ Mem(s) BY <1>4, <1>8
  <2>2. Mem(free) = Entries \ (Mem(s) \union {e})
    <3>1. Mem(free) = Entries \ Mem(u) BY DEF TableIs
    <3> QED BY <3>1, <1>4, <1>8
  <2>3. Len(free) + Len(s) + 1 = Nentry
    <3>1. Len(free) = 0 OBVIOUS
    <3> QED BY <3>1, <1>0, <1>2, <1>7
  <2>4. free \in Seq(Entries) /\ OneToOne(free) BY DEF TableIs
  <2>5. \A d, g \in Mem(s) : ky[d] = ky[g] => d = g BY <1>8 DEF TableIs
  <2> QED BY <1>1, <1>6, <1>7, <1>9, <1>12, <1>16, <2>1, <2>2, <2>3, <2>4, <2>5 DEF TableBut
<1>18. ASSUME NEW k \in Keys
       PROVE  LET last == Ptr(Row(k), C[Row(k)], Len(C[Row(k)]))
              IN Ptr(Row(k), D[Row(k)], Len(D[Row(k)])) = IF last = e THEN bk[e] ELSE last
  <2> DEFINE g == Row(k)
             last == Ptr(g, C[g], Len(C[g]))
  <2> SUFFICES Ptr(g, D[g], Len(D[g])) = IF last = e THEN bk[e] ELSE last OBVIOUS
  <2>1. g \in Rows BY DEF Rows
  <2>2. Len(C[g]) \in Nat /\ Len(C[g]) # 0 => last = C[g][Len(C[g])] /\ Len(C[g]) \in 1 .. Len(C[g])
    <3>1. Len(C[g]) \in Nat BY <2>1, Shape
    <3> QED BY <3>1 DEF Ptr
  <2>3. g \notin Entries /\ (Len(C[g]) = 0 => last = g) BY <2>1, <1>1 DEF Ptr
  <2>4. CASE g # h
    <3>1. D[g] = C[g] BY <2>1, <2>4, <1>14
    <3>2. last # e
      <4>1. CASE Len(C[g]) = 0 BY <4>1, <2>3, <1>4
      <4>2. CASE Len(C[g]) # 0
        <5>1. last \in Mem(C[g]) BY <4>2, <2>2, Shape, <2>1 DEF Mem
        <5>2. Mem(C[g]) = {d \in Mem(u) : Row(ky[d]) = g} BY <2>1 DEF TableIs
        <5> QED BY <5>1, <5>2, <2>4
      <4> QED BY <4>1, <4>2
    <3> QED BY <3>1, <3>2
  <2>5. CASE g = h
    <3>1. C[g] = c /\ D[g] = Less(c, j) /\ Len(c) # 0 BY <2>5, <1>11, <1>13, <1>14
    <3> HIDE DEF c, h, g
    <3>2. last = c[Len(c)] /\ Len(c) \in 1 .. Len(c) BY <2>2, <3>1, <1>13
    <3>3. CASE j = Len(c)
      <4>1. last = e BY <3>2, <3>3, <1>11
      <4>2. bk[e] = Ptr(g, c, j - 1)
        <5>1. \A i \in 1 .. Len(C[g]) : bk[C[g][i]] = Ptr(g, C[g], i - 1)
          BY <2>1 DEF TableIs, Linked, Backward
        <5> QED BY <5>1, <3>1, <1>11
      <4>3. Ptr(g, D[g], Len(D[g])) = Ptr(g, c, j - 1)
        <5>1. Len(D[g]) = j - 1 BY <3>1, <3>3, <1>15
        <5>2. j - 1 # 0 => j - 1 \in 1 .. Len(c) - 1 /\ j - 1 < j BY <3>3, <1>13
        <5>3. j - 1 # 0 => D[g][j - 1] = c[j - 1] BY <5>2, <3>1, <1>15
        <5> QED BY <5>1, <5>3 DEF Ptr
      <4> QED BY <4>1, <4>2, <4>3
    <3>4. CASE j # Len(c)
      <4>1. last # e BY <3>2, <3>4, <1>11, <1>13 DEF OneToOne
      <4>2. Len(c) - 1 \in 1 .. Len(c) - 1 /\ ~(Len(c) - 1 < j) /\ (Len(c) - 1) + 1 = Len(c)
            /\ Len(c) - 1 # 0
        <5> DEFINE m == Len(c)
        <5>1. m \in Nat /\ j \in Nat /\ 1 <= j /\ j < m BY <3>4, <1>11, <1>13
        <5> HIDE DEF m
        <5>2. m - 1 \in 1 .. m - 1 /\ ~(m - 1 < j) /\ (m - 1) + 1 = m /\ m - 1 # 0 BY <5>1
        <5> QED BY <5>2 DEF m
      <4>3. D[g][Len(c) - 1] = c[Len(c)] /\ Len(D[g]) = Len(c) - 1 BY <4>2, <3>1, <1>15
      <4>4. Ptr(g, D[g], Len(D[g])) = last BY <4>2, <4>3, <3>2 DEF Ptr
      <4> QED BY <4>1, <4>4
    <3> QED BY <3>3, <3>4
  <2> QED BY <2>4, <2>5
<1> QED BY <1>2, <1>4, <1>17, <1>18 DEF s, GivenUp

----------------------------------------------------------------------------
(* The table: the map it stands for.                                             *)

\* The order and the values of the map, and its only operation.
OrderIs(u, ky) == [n \in DOMAIN u |-> ky[u[n]]]
ValueIs(u, ky, vl) ==
  [k \in Keys |-> IF \E e \in Mem(u) : ky[e] = k THEN vl[CHOOSE e \in Mem(u) : ky[e] = k] ELSE Default]
Place(o, k) == CHOOSE n \in DOMAIN o : o[n] = k
Removed(o, n) == SubSeq(o, 1, n - 1) \o SubSeq(o, n + 1, Len(o))
AccessIs(o, vv, o1, vv1, fd, k, v) ==
  /\ o1 = Append(IF k \in Mem(o) THEN Removed(o, Place(o, k))
                 ELSE IF Len(o) < Nentry THEN o ELSE Tail(o), k)
  /\ fd = vv[k]
  /\ vv1 = [q \in Keys |-> IF q = k THEN v ELSE IF q \in Mem(o1) THEN vv[q] ELSE Default]

\* The map takes a key out as the table takes an entry out.
LEMMA RemovedIsLess ==
  ASSUME NEW S, NEW s \in Seq(S), NEW j \in 1 .. Len(s)
  PROVE  Removed(s, j) = Less(s, j)
<1> DEFINE a == SubSeq(s, 1, j - 1)
           b == SubSeq(s, j + 1, Len(s))
           t == Less(s, j)
<1>1. \A i \in 1 .. Len(s) : s[i] \in S BY ElementOfSeq
<1>2. a \in Seq(S) /\ Len(a) = j - 1 /\ \A i \in 1 .. j - 1 : a[i] = s[i]
  <2>1. 1 \in Int /\ j - 1 \in Int /\ \A i \in 1 .. j - 1 : s[i] \in S BY <1>1
  <2>2. /\ a \in Seq(S) /\ Len(a) = IF 1 <= j - 1 THEN (j - 1) - 1 + 1 ELSE 0
        /\ \A i \in 1 .. (j - 1) - 1 + 1 : a[i] = s[1 + i - 1]
    BY <2>1, SubSeqProperties
  <2> HIDE DEF a
  <2> QED BY <2>2
<1>3. b \in Seq(S) /\ Len(b) = Len(s) - j /\ \A i \in 1 .. Len(s) - j : b[i] = s[j + i]
  <2>1. j + 1 \in Int /\ Len(s) \in Int /\ \A i \in j + 1 .. Len(s) : s[i] \in S BY <1>1
  <2>2. /\ b \in Seq(S) /\ Len(b) = IF j + 1 <= Len(s) THEN Len(s) - (j + 1) + 1 ELSE 0
        /\ \A i \in 1 .. Len(s) - (j + 1) + 1 : b[i] = s[(j + 1) + i - 1]
    BY <2>1, SubSeqProperties
  <2> HIDE DEF b
  <2> QED BY <2>2
<1>4. /\ t \in Seq(S) /\ Len(t) = Len(s) - 1
      /\ \A i \in 1 .. Len(s) - 1 : t[i] = IF i < j THEN s[i] ELSE s[i + 1]
  BY LessIs
<1> HIDE DEF a, b, t
<1>5. /\ a \o b \in Seq(S) /\ Len(a \o b) = Len(a) + Len(b)
      /\ \A i \in 1 .. Len(a) + Len(b) : (a \o b)[i] = IF i <= Len(a) THEN a[i] ELSE b[i - Len(a)]
  BY <1>2, <1>3, ConcatProperties
<1> DEFINE c == a \o b
<1>6. Len(c) = Len(s) - 1 /\ Len(s) \in Nat BY <1>2, <1>3, <1>5
<1>7. ASSUME NEW i \in 1 .. Len(s) - 1 PROVE c[i] = t[i]
  <2>1. CASE i < j
    <3>1. i <= Len(a) /\ i \in 1 .. j - 1 /\ i \in 1 .. Len(a) + Len(b) BY <2>1, <1>2, <1>3
    <3> QED BY <3>1, <2>1, <1>2, <1>4, <1>5
  <2>2. CASE ~(i < j)
    <3>1. /\ ~(i <= Len(a)) /\ i - Len(a) \in 1 .. Len(s) - j /\ i \in 1 .. Len(a) + Len(b)
          /\ j + (i - Len(a)) = i + 1
      BY <2>2, <1>2, <1>3
    <3>2. c[i] = b[i - Len(a)] BY <3>1, <1>5
    <3>3. b[i - Len(a)] = s[j + (i - Len(a))] BY <3>1, <1>3
    <3>4. t[i] = s[i + 1] BY <2>2, <1>4
    <3> QED BY <3>1, <3>2, <3>3, <3>4
  <2> QED BY <2>1, <2>2
<1>8. c \in Seq(S) BY <1>5
<1> HIDE DEF c
<1>9. c = t BY <1>4, <1>6, <1>7, <1>8, SeqEqual
<1> QED BY <1>9 DEF Removed, c, a, b, t

\* What a sequence of entries has for keys.
OrderFacts(o, u, ky) ==
  /\ o \in Seq(Keys) /\ Len(o) = Len(u) /\ DOMAIN o = 1 .. Len(u)
  /\ \A n \in 1 .. Len(u) : o[n] = ky[u[n]]
  /\ \A q : q \in Mem(o) <=> \E e \in Mem(u) : ky[e] = q
\* OrderIs has them.
LEMMA OrderHas ==
  ASSUME NEW u \in Seq(Entries), NEW ky \in [Entries -> Keys]
  PROVE  OrderFacts(OrderIs(u, ky), u, ky)
<1> DEFINE o == OrderIs(u, ky)
<1>1. Len(u) \in Nat /\ DOMAIN u = 1 .. Len(u) /\ \A n \in 1 .. Len(u) : u[n] \in Entries
  BY ElementOfSeq
<1>2. o = [n \in 1 .. Len(u) |-> ky[u[n]]] BY <1>1 DEF OrderIs
<1>3. o \in [1 .. Len(u) -> Keys] BY <1>1, <1>2
<1>4. o \in Seq(Keys) BY <1>1, <1>3
<1>5. Len(o) = Len(u) BY <1>1, <1>3
<1>6. \A n \in 1 .. Len(u) : o[n] = ky[u[n]] BY <1>2
<1> HIDE DEF o
<1>7. \A q : q \in Mem(o) <=> \E e \in Mem(u) : ky[e] = q BY <1>5, <1>6 DEF Mem
<1> QED BY <1>3, <1>4, <1>5, <1>6, <1>7 DEF o, OrderFacts

\* Taking an entry out takes out its key.
LEMMA OrderLess ==
  ASSUME NEW u \in Seq(Entries), NEW ky \in [Entries -> Keys], NEW j \in 1 .. Len(u)
  PROVE  OrderIs(Less(u, j), ky) = Less(OrderIs(u, ky), j)
<1> DEFINE o == OrderIs(u, ky)
           s == Less(u, j)
           p == OrderIs(s, ky)
           t == Less(o, j)
<1>1. /\ o \in Seq(Keys) /\ Len(o) = Len(u) /\ \A n \in 1 .. Len(u) : o[n] = ky[u[n]]
  BY OrderHas DEF OrderFacts
<1>2. /\ s \in Seq(Entries) /\ Len(s) = Len(u) - 1 /\ Len(u) \in Nat
      /\ \A i \in 1 .. Len(u) - 1 : s[i] = IF i < j THEN u[i] ELSE u[i + 1]
  BY LessIs
<1> HIDE DEF o, s
<1>3. /\ p \in Seq(Keys) /\ Len(p) = Len(s) /\ \A n \in 1 .. Len(s) : p[n] = ky[s[n]]
  BY <1>2, OrderHas DEF OrderFacts
<1>4. /\ t \in Seq(Keys) /\ Len(t) = Len(o) - 1
      /\ \A i \in 1 .. Len(o) - 1 : t[i] = IF i < j THEN o[i] ELSE o[i + 1]
  <2>1. j \in 1 .. Len(o) BY <1>1
  <2> QED BY <1>1, <2>1, LessIs
<1> HIDE DEF p, t
<1>5. Len(p) = Len(t) BY <1>1, <1>2, <1>3, <1>4
<1>6. ASSUME NEW i \in 1 .. Len(p) PROVE p[i] = t[i]
  <2>1. i \in 1 .. Len(u) - 1 /\ i \in 1 .. Len(u) /\ i + 1 \in 1 .. Len(u) BY <1>2, <1>3
  <2>2. p[i] = ky[s[i]] /\ s[i] = (IF i < j THEN u[i] ELSE u[i + 1]) BY <2>1, <1>2, <1>3
  <2>3. t[i] = (IF i < j THEN o[i] ELSE o[i + 1]) BY <2>1, <1>1, <1>4
  <2> QED BY <2>1, <2>2, <2>3, <1>1
<1>7. p = t BY <1>3, <1>4, <1>5, <1>6, SeqEqual
<1> QED BY <1>7 DEF p, t, o, s

\* Putting one with a key at the end puts the key there.
AppendsKey(u, ky, e, k) ==
  OrderIs(Append(u, e), [ky EXCEPT ![e] = k]) = Append(OrderIs(u, ky), k)
\* This holds of an entry that is not in use.
LEMMA OrderAppend ==
  ASSUME NEW u \in Seq(Entries), NEW ky \in [Entries -> Keys], NEW e \in Entries, e \notin Mem(u),
         NEW k \in Keys
  PROVE  AppendsKey(u, ky, e, k)
<1> DEFINE o == OrderIs(u, ky)
           k1 == [ky EXCEPT ![e] = k]
           w == Append(u, e)
           p == OrderIs(w, k1)
           t == Append(o, k)
<1>1. /\ o \in Seq(Keys) /\ Len(o) = Len(u) /\ \A n \in 1 .. Len(u) : o[n] = ky[u[n]]
  BY OrderHas DEF OrderFacts
<1>2. /\ w \in Seq(Entries) /\ Len(w) = Len(u) + 1 /\ Len(u) \in Nat
      /\ \A i \in 1 .. Len(u) : w[i] = u[i]
      /\ w[Len(u) + 1] = e
  OBVIOUS
<1>3. \A i \in 1 .. Len(u) : u[i] \in Entries /\ u[i] # e
  <2>1. \A i \in 1 .. Len(u) : u[i] \in Entries BY ElementOfSeq
  <2> QED BY <2>1 DEF Mem
<1>4. k1 \in [Entries -> Keys] /\ k1[e] = k /\ \A i \in 1 .. Len(u) : k1[u[i]] = ky[u[i]]
  BY <1>3
<1> HIDE DEF o, k1, w
<1>5. /\ p \in Seq(Keys) /\ Len(p) = Len(w) /\ \A n \in 1 .. Len(w) : p[n] = k1[w[n]]
  BY <1>2, <1>4, OrderHas DEF OrderFacts
<1>6. /\ t \in Seq(Keys) /\ Len(t) = Len(o) + 1 /\ t[Len(o) + 1] = k
      /\ \A i \in 1 .. Len(o) : t[i] = o[i]
  BY <1>1
<1> HIDE DEF p, t
<1>7. Len(p) = Len(t) BY <1>1, <1>2, <1>5, <1>6
<1>8. ASSUME NEW i \in 1 .. Len(p) PROVE p[i] = t[i]
  <2>1. CASE i = Len(u) + 1
    <3>1. i \in 1 .. Len(w) BY <1>5
    <3>2. p[i] = k1[w[i]] BY <3>1, <1>5
    <3> QED BY <3>2, <2>1, <1>1, <1>2, <1>4, <1>6
  <2>2. CASE i # Len(u) + 1
    <3>1. i \in 1 .. Len(u) /\ i \in 1 .. Len(w) BY <2>2, <1>2, <1>5
    <3>2. p[i] = k1[w[i]] BY <3>1, <1>5
    <3>3. w[i] = u[i] /\ k1[u[i]] = ky[u[i]] BY <3>1, <1>2, <1>4
    <3>4. t[i] = o[i] /\ o[i] = ky[u[i]] BY <3>1, <1>1, <1>6
    <3> QED BY <3>2, <3>3, <3>4
  <2> QED BY <2>1, <2>2
<1>9. p = t BY <1>5, <1>6, <1>7, <1>8, SeqEqual
<1> QED BY <1>9 DEF p, t, o, k1, w, AppendsKey

\* Tail is to be without the first.
LEMMA TailIsLess ==
  ASSUME NEW S, NEW s \in Seq(S), s # <<>>
  PROVE  Tail(s) = Less(s, 1)
<1> DEFINE j == 1
           t == Less(s, j)
<1>1. Len(s) \in Nat \ {0} /\ j \in 1 .. Len(s) OBVIOUS
<1>2. Tail(s) \in Seq(S) /\ Len(Tail(s)) = Len(s) - 1 /\ \A i \in 1 .. Len(Tail(s)) : Tail(s)[i] = s[i + 1]
  BY HeadTailProperties
<1>3. \A i \in 1 .. Len(s) - 1 : ~(i < j) OBVIOUS
<1> HIDE DEF j
<1>4. /\ t \in Seq(S) /\ Len(t) = Len(s) - 1
      /\ \A i \in 1 .. Len(s) - 1 : t[i] = IF i < j THEN s[i] ELSE s[i + 1]
  BY <1>1, LessIs
<1> DEFINE r == Tail(s)
<1> HIDE DEF t, r
<1>5. r \in Seq(S) /\ Len(r) = Len(t) /\ \A i \in 1 .. Len(r) : r[i] = t[i]
  BY <1>1, <1>2, <1>3, <1>4 DEF r
<1>6. r = t BY <1>4, <1>5, SeqEqual
<1> QED BY <1>6 DEF r, t, j

\* An entry that moves to the end, or comes there, with key k and value v, accesses k in the
\* map.
Moves(u, base, e, ky, vl, k, v, fd, k1, v1, w) ==
  /\ u \in Seq(Entries) /\ base \in Seq(Entries) /\ e \in Entries
  /\ ky \in [Entries -> Keys] /\ vl \in [Entries -> Values \union {Default}]
  /\ k1 = [ky EXCEPT ![e] = k] /\ v1 = [vl EXCEPT ![e] = v] /\ w = Append(base, e)
  /\ Mem(base) = Mem(u) \ {e} /\ OneToOne(u)
  /\ \A d, g \in Mem(u) : ky[d] = ky[g] => d = g
  /\ \A d, g \in Mem(w) : k1[d] = k1[g] => d = g
  /\ \/ /\ ky[e] = k /\ fd = vl[e]
        /\ \E j \in 1 .. Len(u) : e = u[j] /\ base = Less(u, j)
     \/ /\ \A d \in Mem(u) : ky[d] # k
        /\ fd = Default
        /\ \/ base = u /\ Len(u) < Nentry
           \/ e = u[1] /\ base = Less(u, 1) /\ Len(u) = Nentry
\* It is the operation of the map.
LEMMA MovesAccess ==
  ASSUME NEW u, NEW base, NEW e, NEW ky, NEW vl, NEW k \in Keys, NEW v, NEW fd, NEW k1, NEW v1, NEW w,
         Moves(u, base, e, ky, vl, k, v, fd, k1, v1, w)
  PROVE  AccessIs(OrderIs(u, ky), ValueIs(u, ky, vl), OrderIs(w, k1), ValueIs(w, k1, v1), fd, k, v)
<1> USE DEF Moves
<1> DEFINE o == OrderIs(u, ky)
           o1 == OrderIs(w, k1)
           vv == ValueIs(u, ky, vl)
           vv1 == ValueIs(w, k1, v1)
<1>0. Nentry \in Nat /\ Nentry >= 2 BY TableAssumption
<1>1. Mem(w) = Mem(base) \union {e} /\ w \in Seq(Entries) BY MemAppend
<1>2. Len(u) \in Nat /\ Mem(u) \subseteq Entries
  <2>1. \A i \in 1 .. Len(u) : u[i] \in Entries BY ElementOfSeq
  <2> QED BY <2>1 DEF Mem
<1>3. k1 \in [Entries -> Keys] /\ k1[e] = k /\ \A d \in Mem(base) : k1[d] = ky[d] /\ d # e
  BY <1>2
<1>4. v1[e] = v /\ \A d \in Mem(base) : v1[d] = vl[d] BY <1>2
<1>5. o1 = Append(OrderIs(base, ky), k)
  <2>1. e \notin Mem(base) BY <1>1
  <2>2. AppendsKey(base, ky, e, k) BY <2>1, OrderAppend
  <2> QED BY <2>2 DEF AppendsKey
<1>6. /\ o \in Seq(Keys) /\ Len(o) = Len(u) /\ DOMAIN o = 1 .. Len(u)
      /\ \A n \in 1 .. Len(u) : o[n] = ky[u[n]]
      /\ \A q : q \in Mem(o) <=> \E d \in Mem(u) : ky[d] = q
  <2>1. OrderFacts(o, u, ky) BY OrderHas
  <2> HIDE DEF o
  <2> QED BY <2>1 DEF OrderFacts
<1>7. \A q : q \in Mem(o1) <=> \E d \in Mem(w) : k1[d] = q
  <2>1. OrderFacts(o1, w, k1) BY <1>1, <1>3, OrderHas
  <2> HIDE DEF o1
  <2> QED BY <2>1 DEF OrderFacts
<1>8. OrderIs(base, ky) = IF k \in Mem(o) THEN Removed(o, Place(o, k))
                          ELSE IF Len(o) < Nentry THEN o ELSE Tail(o)
  <2> HIDE DEF o, o1, vv, vv1
  <2>1. CASE ky[e] = k /\ \E j \in 1 .. Len(u) : e = u[j] /\ base = Less(u, j)
    <3> PICK j \in 1 .. Len(u) : e = u[j] /\ base = Less(u, j) BY <2>1
    <3>1. o[j] = k /\ j \in DOMAIN o /\ k \in Mem(o)
      <4>1. ky[u[j]] = k BY <2>1
      <4>2. o[j] = k /\ j \in DOMAIN o /\ j \in 1 .. Len(o) BY <4>1, <1>6
      <4> QED BY <4>2 DEF Mem
    <3>2. \A n \in DOMAIN o : o[n] = k => n = j
      <4> SUFFICES ASSUME NEW n \in 1 .. Len(u), o[n] = k PROVE n = j BY <1>6
      <4>1. ky[u[n]] = ky[u[j]] /\ u[n] \in Mem(u) /\ u[j] \in Mem(u) BY <1>6, <2>1 DEF Mem
      <4> QED BY <4>1 DEF OneToOne
    <3>3. Place(o, k) = j BY <3>1, <3>2 DEF Place
    <3>4. Removed(o, j) = Less(o, j)
      <4>1. j \in 1 .. Len(o) BY <1>6
      <4> QED BY <4>1, <1>6, RemovedIsLess
    <3>5. OrderIs(base, ky) = Less(o, j) BY OrderLess DEF o
    <3> QED BY <3>1, <3>3, <3>4, <3>5
  <2>2. CASE (\A d \in Mem(u) : ky[d] # k) /\ base = u /\ Len(u) < Nentry
    <3>1. k \notin Mem(o) /\ Len(o) < Nentry BY <2>2, <1>6
    <3> QED BY <3>1, <2>2 DEF o
  <2>3. CASE (\A d \in Mem(u) : ky[d] # k) /\ base = Less(u, 1) /\ Len(u) = Nentry
    <3>1. k \notin Mem(o) /\ ~(Len(o) < Nentry) BY <2>3, <1>0, <1>6
    <3>2. o # <<>>
      <4>1. Len(o) # 0 BY <2>3, <1>0, <1>6
      <4> QED BY <4>1
    <3>3. Tail(o) = Less(o, 1) BY <3>2, <1>6, TailIsLess
    <3>4. OrderIs(Less(u, 1), ky) = Less(o, 1)
      <4> DEFINE j == 1
      <4>1. j \in 1 .. Len(u) BY <2>3, <1>0
      <4> HIDE DEF j
      <4>2. OrderIs(Less(u, j), ky) = Less(o, j) BY <4>1, OrderLess DEF o
      <4> QED BY <4>2 DEF j
    <3> QED BY <3>1, <3>3, <3>4, <2>3
  <2> QED BY <2>1, <2>2, <2>3
<1>9. ASSUME NEW q \in Keys, NEW d \in Mem(u), ky[d] = q PROVE vv[q] = vl[d]
  <2> DEFINE x == CHOOSE x \in Mem(u) : ky[x] = q
  <2>1. x \in Mem(u) /\ ky[x] = q BY <1>9
  <2>2. x = d BY <2>1, <1>9
  <2>3. vv[q] = vl[x] BY <1>9 DEF ValueIs
  <2> QED BY <2>2, <2>3
<1>10. ASSUME NEW q \in Keys, NEW d \in Mem(w), k1[d] = q PROVE vv1[q] = v1[d]
  <2> DEFINE x == CHOOSE x \in Mem(w) : k1[x] = q
  <2>1. x \in Mem(w) /\ k1[x] = q BY <1>10
  <2>2. x = d BY <2>1, <1>10
  <2>3. vv1[q] = v1[x] BY <1>10 DEF ValueIs
  <2> QED BY <2>2, <2>3
<1>11. ASSUME NEW q \in Keys, ~\E d \in Mem(u) : ky[d] = q PROVE vv[q] = Default
  BY <1>11 DEF ValueIs
<1>12. ASSUME NEW q \in Keys, ~\E d \in Mem(w) : k1[d] = q PROVE vv1[q] = Default
  BY <1>12 DEF ValueIs
<1>13. vv1 = [q \in Keys |-> vv1[q]] BY DEF ValueIs
<1> HIDE DEF o, o1, vv, vv1
<1>14. fd = vv[k]
  <2>1. CASE ky[e] = k /\ fd = vl[e] /\ \E j \in 1 .. Len(u) : e = u[j] /\ base = Less(u, j)
    <3>1. e \in Mem(u) BY <2>1 DEF Mem
    <3> QED BY <3>1, <2>1, <1>9
  <2>2. CASE (\A d \in Mem(u) : ky[d] # k) /\ fd = Default BY <2>2, <1>11
  <2> QED BY <2>1, <2>2
<1>15. ASSUME NEW q \in Keys
       PROVE  vv1[q] = IF q = k THEN v ELSE IF q \in Mem(o1) THEN vv[q] ELSE Default
  <2>1. CASE q = k
    <3>1. vv1[q] = v1[e] BY <2>1, <1>1, <1>3, <1>10
    <3> QED BY <3>1, <2>1, <1>4
  <2>2. CASE q # k /\ q \in Mem(o1)
    <3>1. PICK d \in Mem(w) : k1[d] = q BY <2>2, <1>7
    <3>2. d # e BY <3>1, <2>2, <1>3
    <3>3. d \in Mem(base) /\ d \in Mem(u) BY <3>2, <1>1
    <3>4. ky[d] = q /\ v1[d] = vl[d] BY <3>1, <3>3, <1>3, <1>4
    <3>5. vv1[q] = v1[d] BY <3>1, <1>10
    <3>6. vv[q] = vl[d] BY <3>3, <3>4, <1>9
    <3> QED BY <2>2, <3>4, <3>5, <3>6
  <2>3. CASE q # k /\ q \notin Mem(o1)
    <3>1. ~\E d \in Mem(w) : k1[d] = q BY <2>3, <1>7
    <3> QED BY <3>1, <2>3, <1>12
  <2> QED BY <2>1, <2>2, <2>3
<1>16. vv1 = [q \in Keys |-> IF q = k THEN v ELSE IF q \in Mem(o1) THEN vv[q] ELSE Default]
  BY <1>13, <1>15
<1>17. AccessIs(o, vv, o1, vv1, fd, k, v) BY <1>5, <1>8, <1>14, <1>16 DEF AccessIs
<1> QED BY <1>17 DEF o, o1, vv, vv1

----------------------------------------------------------------------------
(* The table: its steps.                                                         *)

Now(C, u) == TableIs(f, bfp, used_f, used_bfp, used_end, unused, key, C, u)
Then(C, u) == TableIs(f', bfp', used_f', used_bfp', used_end', unused', key', C, u)
ValType == val \in [Entries -> Values \union {Default}]
TableInv == ValType /\ \E C, u : Now(C, u)

\* The order and the values of the map, as the table's operators read them.
OrderOf(un, ky) == LET l == Behind({0} \union Entries, un)[0] IN [n \in DOMAIN l |-> ky[l[n]]]
ChainOf(nx, k) == Behind(Rows \union Entries, nx)[Row(k)]
ValueOf(nx, ky, vl) ==
  [k \in Keys |-> IF HasIn(ChainOf(nx, k), ky, k) THEN vl[AtIn(ChainOf(nx, k), ky, k)] ELSE Default]

\* They read the entries in use, the chains and the map of both.
LEMMA TableReads ==
  ASSUME NEW nx, NEW bk, NEW un, NEW ub, NEW end, NEW free, NEW ky, NEW C, NEW u,
         TableIs(nx, bk, un, ub, end, free, ky, C, u)
  PROVE  /\ \A k \in Keys : ChainOf(nx, k) = C[Row(k)]
         /\ OrderOf(un, ky) = OrderIs(u, ky)
<1>1. \A h \in Rows : Behind(Rows \union Entries, nx)[h] = C[h]
  <2> DEFINE H == Rows
  <2>1. Linked(H, nx, bk, C, {}) BY DEF TableIs
  <2> HIDE DEF H
  <2>2. \A h \in H : Behind(H \union Entries, nx)[h] = C[h] BY <2>1, Reads
  <2> QED BY <2>2 DEF H
<1>2. Behind({0} \union Entries, un)[0] = u
  <2> DEFINE H == {0}
             D == One(u)
  <2>1. Linked(H, un, ub, D, {}) BY DEF TableIs, InUse
  <2>2. D[0] = u /\ 0 \in H BY DEF One
  <2> HIDE DEF H, D
  <2>3. \A h \in H : Behind(H \union Entries, un)[h] = D[h] BY <2>1, Reads
  <2>4. Behind(H \union Entries, un)[0] = u BY <2>2, <2>3
  <2> QED BY <2>4 DEF H
<1>3. \A k \in Keys : Row(k) \in Rows BY DEF Rows
<1>4. \A k \in Keys : ChainOf(nx, k) = C[Row(k)] BY <1>1, <1>3 DEF ChainOf
<1>5. OrderOf(un, ky) = OrderIs(u, ky) BY <1>2 DEF OrderOf, OrderIs
<1> QED BY <1>4, <1>5

\* The values as well.
LEMMA ValuesRead ==
  ASSUME NEW nx, NEW bk, NEW un, NEW ub, NEW end, NEW free, NEW ky, NEW C, NEW u, NEW vl,
         TableIs(nx, bk, un, ub, end, free, ky, C, u)
  PROVE  ValueOf(nx, ky, vl) = ValueIs(u, ky, vl)
<1>1. ASSUME NEW k \in Keys PROVE ValueOf(nx, ky, vl)[k] = ValueIs(u, ky, vl)[k]
  <2> DEFINE r == C[Row(k)]
  <2>1. ValueOf(nx, ky, vl)[k] = IF HasIn(r, ky, k) THEN vl[AtIn(r, ky, k)] ELSE Default
    <3>1. ChainOf(nx, k) = r BY TableReads
    <3> HIDE DEF r
    <3> QED BY <3>1 DEF ValueOf
  <2>2. /\ HasIn(r, ky, k) <=> \E e \in Mem(u) : ky[e] = k
        /\ \A e \in Mem(u) : ky[e] = k => AtIn(r, ky, k) = e
    BY Finds
  <2> HIDE DEF r
  <2>3. CASE \E e \in Mem(u) : ky[e] = k
    <3> DEFINE x == CHOOSE e \in Mem(u) : ky[e] = k
    <3>1. x \in Mem(u) /\ ky[x] = k BY <2>3
    <3>2. ValueIs(u, ky, vl)[k] = vl[x] BY <2>3 DEF ValueIs
    <3> HIDE DEF x
    <3> QED BY <2>1, <2>2, <2>3, <3>1, <3>2
  <2>4. CASE ~\E e \in Mem(u) : ky[e] = k
    <3>1. ValueIs(u, ky, vl)[k] = Default BY <2>4 DEF ValueIs
    <3> QED BY <2>1, <2>2, <2>4, <3>1
  <2> QED BY <2>3, <2>4
<1>2. ValueIs(u, ky, vl) = [k \in Keys |-> ValueIs(u, ky, vl)[k]] BY DEF ValueIs
<1>3. ValueOf(nx, ky, vl) = [k \in Keys |-> ValueOf(nx, ky, vl)[k]] BY DEF ValueOf
<1> QED BY <1>1, <1>2, <1>3

\* LruTable's names.
LEMMA TableNames == Table!Heads = Rows /\ Table!Entries = Entries /\ Table!Null = 0
  BY DEF Table!Heads, Rows, Row, Table!Entries, Entries, Table!Null

\* Its recursive functions read the chains and the list.
LEMMA ChainsNow ==
  /\ Table!Chain = Behind(Rows \union Entries, f)
  /\ Table!Listed = Behind({0} \union Entries, used_f)[0]
  BY TableNames DEF Table!Chain, Table!Listed, Behind

\* After a step too.
LEMMA ChainsThen ==
  /\ Table!Chain' = Behind(Rows \union Entries, f')
  /\ Table!Listed' = Behind({0} \union Entries, used_f')[0]
  BY TableNames DEF Table!Chain, Table!Listed, Behind

\* The operators of the table.
LEMMA FindsNow ==
  ASSUME NEW C, NEW u, Now(C, u), NEW k \in Keys
  PROVE  /\ Table!Has(k) <=> \E e \in Mem(u) : key[e] = k
         /\ \A e \in Mem(u) : key[e] = k => Table!At(k) = e
         /\ Table!ChainEnd(k) = Ptr(Row(k), C[Row(k)], Len(C[Row(k)]))
<1> DEFINE r == C[Row(k)]
<1>1. Table!Chain[-Hash[k]] = r
  <2>1. ChainOf(f, k) = r BY TableReads DEF Now
  <2> QED BY <2>1, ChainsNow DEF ChainOf, Row
<1>2. /\ HasIn(r, key, k) <=> \E e \in Mem(u) : key[e] = k
      /\ \A e \in Mem(u) : key[e] = k => AtIn(r, key, k) = e
      /\ (IF r = <<>> THEN Row(k) ELSE r[Len(r)]) = Ptr(Row(k), r, Len(r))
  BY Finds DEF Now
<1> HIDE DEF r
<1>3. Table!Has(k) <=> HasIn(r, key, k) BY <1>1 DEF Table!Has, HasIn
<1>4. Table!At(k) = AtIn(r, key, k) BY <1>1 DEF Table!At, AtIn
<1>5. Table!ChainEnd(k) = IF r = <<>> THEN Row(k) ELSE r[Len(r)]
  BY <1>1 DEF Table!ChainEnd, Table!Last, Row
<1> QED BY <1>2, <1>3, <1>4, <1>5 DEF r

\* The map's operation, in the order and the values that are read.
LEMMA IsAccess ==
  ASSUME NEW k \in Keys, NEW v,
         DOMAIN OrderOf(used_f, key) = 1 .. Len(OrderOf(used_f, key)),
         DOMAIN OrderOf(used_f', key') = 1 .. Len(OrderOf(used_f', key')),
         AccessIs(OrderOf(used_f, key), ValueOf(f, key, val),
                  OrderOf(used_f', key'), ValueOf(f', key', val'), found', k, v)
  PROVE  Table!Map!Access(k, v)
<1> DEFINE o == OrderOf(used_f, key)
           o1 == OrderOf(used_f', key')
           vv == ValueOf(f, key, val)
           vv1 == ValueOf(f', key', val')
<1>1. o = [n \in DOMAIN Table!Listed |-> key[Table!Listed[n]]]
  BY ChainsNow DEF OrderOf
<1>2. o1 = [n \in DOMAIN Table!Listed |-> key[Table!Listed[n]]]'
  BY ChainsThen DEF OrderOf
<1>3. vv = [q \in Keys |-> IF Table!Has(q) THEN val[Table!At(q)] ELSE Default]
  BY ChainsNow DEF ValueOf, ChainOf, HasIn, AtIn, Table!Has, Table!At, Row
<1>4. vv1 = [q \in Keys |-> IF Table!Has(q) THEN val[Table!At(q)] ELSE Default]'
  BY ChainsThen DEF ValueOf, ChainOf, HasIn, AtIn, Table!Has, Table!At, Row
<1>0. DOMAIN o = 1 .. Len(o) /\ DOMAIN o1 = 1 .. Len(o1) BY DEF o, o1
<1> HIDE DEF o, o1, vv, vv1
<1>5. AccessIs(o, vv, o1, vv1, found', k, v) BY DEF o, vv, o1, vv1
<1> DEFINE oo == [n \in DOMAIN Table!Listed |-> key[Table!Listed[n]]]
           ww == [q \in Keys |-> IF Table!Has(q) THEN val[Table!At(q)] ELSE Default]
<1>6. AccessIs(oo, ww, oo', ww', found', k, v) BY <1>1, <1>2, <1>3, <1>4, <1>5
<1>7. Table!Map!At(k) = Place(oo, k) BY DEF Table!Map!At, Place
<1>8. k \in Table!Map!ToSet(oo) <=> k \in Mem(oo)
  <2>1. oo = o BY <1>1
  <2>2. DOMAIN o = 1 .. Len(o) BY <1>0
  <2> HIDE DEF oo
  <2> QED BY <2>1, <2>2 DEF Table!Map!ToSet, Mem
<1>9. \A q : q \in Table!Map!ToSet(oo') <=> q \in Mem(oo')
  <2>1. oo' = o1 BY <1>2
  <2>2. DOMAIN o1 = 1 .. Len(o1) BY <1>0
  <2> HIDE DEF oo
  <2> QED BY <2>1, <2>2 DEF Table!Map!ToSet, Mem
<1>10. Table!Map!RemoveAt(oo, Place(oo, k)) = Removed(oo, Place(oo, k))
  BY DEF Table!Map!RemoveAt, Removed
<1>11. Table!Map!Kept = IF Len(oo) < Nentry THEN oo ELSE Tail(oo) BY DEF Table!Map!Kept
<1>12. oo' = Append(IF k \in Table!Map!ToSet(oo) THEN Table!Map!RemoveAt(oo, Table!Map!At(k))
                    ELSE Table!Map!Kept, k)
  <2> HIDE DEF oo, ww
  <2> QED BY <1>6, <1>7, <1>8, <1>10, <1>11 DEF AccessIs
<1>13. found' = ww[k]
  <2> HIDE DEF oo, ww
  <2> QED BY <1>6 DEF AccessIs
<1>14. ww' = [q \in Keys |-> IF q = k THEN v ELSE IF q \in Table!Map!ToSet(oo') THEN ww[q] ELSE Default]
  <2> HIDE DEF oo, ww
  <2> QED BY <1>6, <1>9 DEF AccessIs
<1> QED BY <1>12, <1>13, <1>14 DEF Table!Map!Access

\* What a step leaves behind, and the operation of the map that it is.
Accessed(C, u, k, v) ==
  \E D, w : /\ Then(D, w)
            /\ AccessIs(OrderIs(u, key), ValueIs(u, key, val),
                        OrderIs(w, key'), ValueIs(w, key', val'), found', k, v)

\* Before a step: what a move to the end asks for.
LEMMA KeysApart ==
  ASSUME NEW C, NEW u, Now(C, u)
  PROVE  /\ \A d, g \in Mem(u) : key[d] = key[g] => d = g
         /\ key \in [Entries -> Keys] /\ OneFacts(used_f, used_bfp, u)
         /\ used_end = Ptr(0, u, Len(u))
  BY Shape DEF Now, TableIs
\* After it no two entries in use have one key.
LEMMA KeysApartThen ==
  ASSUME NEW C, NEW u, Then(C, u)
  PROVE  \A d, g \in Mem(u) : key'[d] = key'[g] => d = g
  BY DEF Then, TableIs

\* A key that is there.
LEMMA HitIs ==
  ASSUME NEW C, NEW u, Now(C, u), ValType, NEW k \in Keys, NEW v \in Values, Table!Hit(k, v)
  PROVE  Accessed(C, u, k, v)
<1> DEFINE e == Table!At(k)
<1>1. PICK j \in 1 .. Len(u) : e = u[j] /\ key[e] = k
  <2>1. Table!Has(k) BY DEF Table!Hit
  <2>2. PICK d \in Mem(u) : key[d] = k BY <2>1, FindsNow
  <2>3. e = d BY <2>2, FindsNow
  <2> HIDE DEF e
  <2> QED BY <2>2, <2>3 DEF Mem
<1>2. /\ u \in Seq(Entries) /\ Len(u) \in Nat /\ OneToOne(u) /\ Mem(u) \subseteq Entries
      /\ used_f \in [{0} \union Entries -> {0} \union Entries] /\ used_bfp \in [Entries -> Int]
      /\ key \in [Entries -> Keys] /\ used_end = Ptr(0, u, Len(u))
      /\ \A d, g \in Mem(u) : key[d] = key[g] => d = g
      /\ \A i \in 0 .. Len(u) : used_f[Ptr(0, u, i)] = Nxt(u, i)
      /\ \A i \in 1 .. Len(u) : used_bfp[u[i]] = Ptr(0, u, i - 1)
  BY KeysApart DEF OneFacts
<1>3. /\ found' = val[e] /\ val' = [val EXCEPT ![e] = v]
      /\ f' = f /\ bfp' = bfp /\ unused' = unused /\ key' = key
      /\ used_f[e] = 0 => used_f' = used_f /\ used_bfp' = used_bfp /\ used_end' = used_end
      /\ used_f[e] # 0 =>
           /\ used_bfp' = [used_bfp EXCEPT ![used_f[e]] = used_bfp[e], ![e] = used_end]
           /\ used_f' = [used_f EXCEPT ![used_bfp[e]] = used_f[e], ![e] = 0, ![used_end] = e]
           /\ used_end' = e
  BY TableNames DEF Table!Hit, Table!Written
<1> HIDE DEF e
<1>4. e \in Entries /\ e \in Mem(u) BY <1>1, <1>2 DEF Mem
<1> DEFINE s == Less(u, j)
           w == Append(s, e)
<1>5. /\ s \in Seq(Entries) /\ Len(s) = Len(u) - 1
      /\ \A i \in 1 .. Len(u) - 1 : s[i] = IF i < j THEN u[i] ELSE u[i + 1]
  BY <1>1, <1>2, LessIs
<1>6. Mem(s) = Mem(u) \ {e} BY <1>1, <1>2, MemLess
<1>7. Then(C, w)
  <2>1. used_f[e] = Nxt(u, j) /\ used_bfp[e] = Ptr(0, u, j - 1)
    <3>1. j \in 0 .. Len(u) /\ Ptr(0, u, j) = e BY <1>1, <1>2 DEF Ptr
    <3> QED BY <3>1, <1>1, <1>2
  <2>2. CASE j = Len(u)
    <3>1. used_f[e] = 0 BY <2>1, <2>2, <1>2 DEF Nxt
    <3>2. w = u
      <4> HIDE DEF s
      <4>1. /\ w \in Seq(Entries) /\ Len(w) = Len(s) + 1 /\ w[Len(s) + 1] = e
            /\ \A i \in 1 .. Len(s) : w[i] = s[i]
        BY <1>4, <1>5
      <4> HIDE DEF w
      <4>2. Len(w) = Len(u) BY <4>1, <1>2, <1>5
      <4>3. ASSUME NEW i \in 1 .. Len(w) PROVE w[i] = u[i]
        <5>1. CASE i = Len(u) BY <5>1, <4>1, <1>1, <1>2, <1>5, <2>2
        <5>2. CASE i # Len(u)
          <6>1. i \in 1 .. Len(u) - 1 /\ i \in 1 .. Len(s) /\ i < j BY <5>2, <4>2, <1>2, <1>5, <2>2
          <6> QED BY <6>1, <4>1, <1>5
        <5> QED BY <5>1, <5>2
      <4> QED BY <4>1, <4>2, <4>3, <1>2, SeqEqual
    <3> HIDE DEF w
    <3>3. Then(C, u) BY <3>1, <1>3 DEF Now, Then
    <3> QED BY <3>2, <3>3
  <2>3. CASE j # Len(u)
    <3> DEFINE n1 == Put(Passed(used_f, used_bfp, e), e, used_end)
               b1 == PutBack(PassedBack(used_f, used_bfp, e), e, used_end)
    <3>1. j \in 1 .. Len(u) - 1 BY <2>3, <1>2
    <3>2. /\ used_f[e] \in Entries
          /\ TableIs(f, bfp, n1, b1, e, unused, key, C, w)
      <4> HIDE DEF n1, b1
      <4>1. n1 = Put(Passed(used_f, used_bfp, e), e, used_end) BY DEF n1
      <4>2. b1 = PutBack(PassedBack(used_f, used_bfp, e), e, used_end) BY DEF b1
      <4>3. TableIs(f, bfp, used_f, used_bfp, used_end, unused, key, C, u) BY DEF Now
      <4> QED BY <4>1, <4>2, <4>3, <3>1, <1>1, HitKeeps
    <3>3. used_f[e] # 0 BY <3>2 DEF Entries
    <3>4. used_f' = n1 BY <3>3, <1>3 DEF Put, Passed
    <3>5. used_bfp' = b1 BY <3>3, <1>3 DEF PutBack, PassedBack
    <3> HIDE DEF n1, b1, w
    <3>6. used_end' = e BY <3>3, <1>3
    <3> QED BY <3>2, <3>4, <3>5, <3>6, <1>3 DEF Then
  <2> QED BY <2>2, <2>3
<1>8. AccessIs(OrderIs(u, key), ValueIs(u, key, val), OrderIs(w, key'), ValueIs(w, key', val'), found', k, v)
  <2> HIDE DEF s
  <2>1. w = Append(s, e) OBVIOUS
  <2> HIDE DEF w
  <2>2. key' = [key EXCEPT ![e] = k] BY <1>1, <1>2, <1>3, <1>4
  <2>3. \A d, g \in Mem(w) : key'[d] = key'[g] => d = g BY <1>7, KeysApartThen
  <2>4. \E i \in 1 .. Len(u) : e = u[i] /\ s = Less(u, i) BY <1>1 DEF s
  <2> DEFINE k1 == key'
             v1 == val'
             fd == found'
  <2>5. /\ k1 = [key EXCEPT ![e] = k] /\ v1 = [val EXCEPT ![e] = v] /\ fd = val[e]
        /\ \A d, g \in Mem(w) : k1[d] = k1[g] => d = g
    BY <2>2, <2>3, <1>3
  <2>6. val \in [Entries -> Values \union {Default}] BY DEF ValType
  <2> HIDE DEF k1, v1, fd
  <2>7. Moves(u, s, e, key, val, k, v, fd, k1, v1, w)
    BY <2>1, <2>4, <2>5, <2>6, <1>1, <1>2, <1>4, <1>5, <1>6 DEF Moves
  <2>8. AccessIs(OrderIs(u, key), ValueIs(u, key, val), OrderIs(w, k1), ValueIs(w, k1, v1), fd, k, v)
    BY <2>7, MovesAccess
  <2> QED BY <2>8 DEF k1, v1, fd
<1> HIDE DEF w
<1> QED BY <1>7, <1>8 DEF Accessed

\* A new key takes an unused entry.
LEMMA MissIs ==
  ASSUME NEW C, NEW u, Now(C, u), ValType, NEW k \in Keys, NEW v \in Values, Table!Miss(k, v)
  PROVE  Accessed(C, u, k, v)
<1> DEFINE e == Head(unused)
           last == Table!ChainEnd(k)
           rest == Tail(unused)
           w == Append(u, e)
           D == In(C, Row(k), e)
<1>1. unused # <<>> /\ \A d \in Mem(u) : key[d] # k
  <2>1. ~Table!Has(k) BY DEF Table!Miss
  <2>2. Table!Has(k) <=> \E d \in Mem(u) : key[d] = k BY FindsNow
  <2> QED BY <2>1, <2>2 DEF Table!Miss
<1>2. TableBut(f, bfp, used_f, used_bfp, used_end, rest, key, C, u, e)
  BY <1>1, TakeKeeps DEF Now
<1>3. /\ f' = Put(f, e, last) /\ bfp' = PutBack(bfp, e, last)
      /\ used_f' = Put(used_f, e, used_end) /\ used_bfp' = PutBack(used_bfp, e, used_end)
      /\ used_end' = e /\ unused' = rest
      /\ key' = [key EXCEPT ![e] = k] /\ val' = [val EXCEPT ![e] = v] /\ found' = Default
  BY TableNames DEF Table!Miss, Table!Put, Table!Written, Put, PutBack
<1>4. last = Ptr(Row(k), C[Row(k)], Len(C[Row(k)])) BY FindsNow
<1> HIDE DEF e, last, rest
<1> DEFINE k1 == key'
           v1 == val'
           fd == found'
           f1 == f'
           g1 == bfp'
           n1 == used_f'
           b1 == used_bfp'
<1>5. TableIs(f1, g1, n1, b1, e, rest, k1, D, w)
  <2>1. /\ f1 = Put(f, e, last) /\ g1 = PutBack(bfp, e, last)
        /\ n1 = Put(used_f, e, used_end) /\ b1 = PutBack(used_bfp, e, used_end)
        /\ k1 = [key EXCEPT ![e] = k] /\ D = In(C, Row(k), e)
    BY <1>3
  <2> HIDE DEF f1, g1, n1, b1, k1, D
  <2> QED BY <2>1, <1>1, <1>2, <1>4, PutKeeps
<1>6. Then(D, w)
  <2> HIDE DEF D, w
  <2> QED BY <1>3, <1>5 DEF Then
<1>7. /\ u \in Seq(Entries) /\ OneToOne(u) /\ key \in [Entries -> Keys]
      /\ \A d, g \in Mem(u) : key[d] = key[g] => d = g
      /\ Len(u) \in Nat
  BY KeysApart DEF OneFacts
<1>8. e \in Entries /\ e \notin Mem(u) /\ Len(u) < Nentry
  <2>1. e \in Entries \ Mem(u) /\ rest \in Seq(Entries) /\ Len(rest) + Len(u) + 1 = Nentry
    BY <1>2 DEF TableBut
  <2>2. Len(rest) \in Nat BY <2>1
  <2> QED BY <2>1, <2>2, <1>7
<1>9. AccessIs(OrderIs(u, key), ValueIs(u, key, val), OrderIs(w, k1), ValueIs(w, k1, v1), fd, k, v)
  <2>1. w = Append(u, e) OBVIOUS
  <2> HIDE DEF D, w
  <2>2. \A d, g \in Mem(w) : key'[d] = key'[g] => d = g BY <1>6, KeysApartThen
  <2>3. /\ k1 = [key EXCEPT ![e] = k] /\ v1 = [val EXCEPT ![e] = v] /\ fd = Default
        /\ \A d, g \in Mem(w) : k1[d] = k1[g] => d = g
    BY <2>2, <1>3
  <2>4. val \in [Entries -> Values \union {Default}] BY DEF ValType
  <2>5. Mem(u) = Mem(u) \ {e} BY <1>8
  <2> HIDE DEF k1, v1, fd
  <2>6. Moves(u, u, e, key, val, k, v, fd, k1, v1, w)
    BY <2>1, <2>3, <2>4, <2>5, <1>1, <1>7, <1>8 DEF Moves
  <2> QED BY <2>6, MovesAccess
<1> HIDE DEF w, D
<1> QED BY <1>6, <1>9 DEF Accessed

\* A new key takes the entry that was asked for longest ago.
LEMMA EvictIs ==
  ASSUME NEW C, NEW u, Now(C, u), ValType, NEW k \in Keys, NEW v \in Values, Table!Evict(k, v)
  PROVE  Accessed(C, u, k, v)
<1> DEFINE e == used_f[0]
           s == Less(u, 1)
           w == Append(s, e)
           last == Table!EndAfter(e, Table!ChainEnd(k))
           g0 == Passed(f, bfp, e)
           c0 == PassedBack(f, bfp, e)
           n0 == [used_f EXCEPT ![0] = used_f[e]]
           b0 == [used_bfp EXCEPT ![used_f[e]] = 0]
<1>1. unused = <<>> /\ \A d \in Mem(u) : key[d] # k
  <2>1. ~Table!Has(k) BY DEF Table!Evict
  <2>2. Table!Has(k) <=> \E d \in Mem(u) : key[d] = k BY FindsNow
  <2> QED BY <2>1, <2>2 DEF Table!Evict
<1>2. /\ f' = Put(g0, e, last) /\ bfp' = PutBack(c0, e, last)
      /\ used_f' = Put(n0, e, used_end) /\ used_bfp' = PutBack(b0, e, used_end)
      /\ used_end' = e /\ unused' = unused
      /\ key' = [key EXCEPT ![e] = k] /\ val' = [val EXCEPT ![e] = v] /\ found' = Default
  BY TableNames DEF Table!Evict, Table!Put, Table!Written, Put, PutBack, Passed, PassedBack
<1> HIDE DEF g0, c0, n0, b0
<1>3. GivenUp(g0, c0, n0, b0, used_end, unused, key, C, u, bfp, e)
  <2>1. /\ g0 = Passed(f, bfp, e) /\ c0 = PassedBack(f, bfp, e) /\ e = used_f[0]
        /\ n0 = [used_f EXCEPT ![0] = used_f[e]] /\ b0 = [used_bfp EXCEPT ![used_f[e]] = 0]
    BY DEF g0, c0, n0, b0
  <2>2. TableIs(f, bfp, used_f, used_bfp, used_end, unused, key, C, u) BY DEF Now
  <2> HIDE DEF e, s, w, last
  <2> QED BY <2>1, <2>2, <1>1, GiveUpKeeps
<1>4. PICK E : /\ TableBut(g0, c0, n0, b0, used_end, unused, key, E, s, e)
               /\ Ptr(Row(k), E[Row(k)], Len(E[Row(k)])) = last
  <2>1. Table!ChainEnd(k) = Ptr(Row(k), C[Row(k)], Len(C[Row(k)])) BY FindsNow
  <2>2. last = IF Table!ChainEnd(k) = e THEN bfp[e] ELSE Table!ChainEnd(k) BY DEF Table!EndAfter
  <2> HIDE DEF e, last
  <2> QED BY <2>1, <2>2, <1>3 DEF GivenUp
<1>5. /\ u \in Seq(Entries) /\ OneToOne(u) /\ key \in [Entries -> Keys]
      /\ \A d, g \in Mem(u) : key[d] = key[g] => d = g
      /\ Len(u) \in Nat
  BY KeysApart DEF OneFacts
<1> HIDE DEF e, last
<1>6. e \in Entries /\ s \in Seq(Entries) /\ e \notin Mem(s) BY <1>4 DEF TableBut
<1>7. Mem(s) = Mem(u) \ {e}
  <2> DEFINE j == 1
  <2>1. j \in 1 .. Len(u) /\ e = u[j] BY <1>3, <1>5, TableAssumption DEF GivenUp
  <2> HIDE DEF j
  <2>2. Mem(Less(u, j)) = Mem(u) \ {u[j]} BY <2>1, <1>5, MemLess
  <2> QED BY <2>1, <2>2 DEF j
<1> HIDE DEF s
<1> DEFINE k1 == key'
           v1 == val'
           fd == found'
           f1 == f'
           g1 == bfp'
           n1 == used_f'
           b1 == used_bfp'
           D == In(E, Row(k), e)
<1>8. TableIs(f1, g1, n1, b1, e, unused, k1, D, w)
  <2>1. /\ f1 = Put(g0, e, last) /\ g1 = PutBack(c0, e, last)
        /\ n1 = Put(n0, e, used_end) /\ b1 = PutBack(b0, e, used_end)
        /\ k1 = [key EXCEPT ![e] = k] /\ D = In(E, Row(k), e)
    BY <1>2
  <2>2. \A d \in Mem(s) : key[d] # k BY <1>1, <1>7
  <2> HIDE DEF f1, g1, n1, b1, k1, D
  <2> QED BY <2>1, <2>2, <1>4, PutKeeps
<1>9. Then(D, w)
  <2> HIDE DEF D, w
  <2> QED BY <1>2, <1>8 DEF Then
<1>10. AccessIs(OrderIs(u, key), ValueIs(u, key, val), OrderIs(w, k1), ValueIs(w, k1, v1), fd, k, v)
  <2>1. w = Append(s, e) OBVIOUS
  <2> HIDE DEF D, w
  <2>2. \A d, g \in Mem(w) : key'[d] = key'[g] => d = g BY <1>9, KeysApartThen
  <2>3. /\ k1 = [key EXCEPT ![e] = k] /\ v1 = [val EXCEPT ![e] = v] /\ fd = Default
        /\ \A d, g \in Mem(w) : k1[d] = k1[g] => d = g
    BY <2>2, <1>2
  <2>4. val \in [Entries -> Values \union {Default}] BY DEF ValType
  <2>5. e = u[1] /\ s = Less(u, 1) /\ Len(u) = Nentry BY <1>3 DEF s, GivenUp
  <2> HIDE DEF k1, v1, fd
  <2>6. Moves(u, s, e, key, val, k, v, fd, k1, v1, w)
    BY <2>1, <2>3, <2>4, <2>5, <1>1, <1>5, <1>6, <1>7 DEF Moves
  <2> QED BY <2>6, MovesAccess
<1> HIDE DEF w, D
<1> QED BY <1>9, <1>10 DEF Accessed

\* An empty table.
LEMMA TableStart == Table!Init => TableInv /\ Table!Map!Init
<1> SUFFICES ASSUME Table!Init PROVE TableInv /\ Table!Map!Init OBVIOUS
<1>0. Nentry \in Nat /\ Nentry >= 2 /\ Keys # {} /\ Hash \in [Keys -> Nat \ {0}] BY TableAssumption
<1> DEFINE C == [h \in Rows |-> <<>>]
           u == <<>>
<1>1. /\ f = [p \in Rows \union Entries |-> 0] /\ bfp = [e \in Entries |-> 0]
      /\ used_f = [p \in {0} \union Entries |-> 0] /\ used_bfp = [e \in Entries |-> 0]
      /\ used_end = 0 /\ unused = [e \in Entries |-> e]
      /\ key = [e \in Entries |-> CHOOSE k \in Keys : TRUE]
      /\ val = [e \in Entries |-> Default] /\ found = Default
  BY TableNames DEF Table!Init
<1>2. /\ u \in Seq(Entries) /\ Len(u) = 0 /\ Mem(u) = {} /\ C \in [Rows -> Seq(Entries)]
      /\ \A h \in Rows : C[h] = <<>> /\ Len(C[h]) = 0 /\ Mem(C[h]) = {}
      /\ DOMAIN C = Rows
  BY DEF Mem
<1>3. /\ One(u) \in [{0} -> Seq(Entries)] /\ Len(One(u)[0]) = 0
      /\ \A h \in {0} : Len(One(u)[h]) = 0
      /\ DOMAIN One(u) = {0}
  BY <1>2 DEF One
<1>4. HeadsOk(Rows) /\ HeadsOk({0}) BY <1>0 DEF HeadsOk, Rows, Row, Entries
<1>5. Entries \subseteq Nat \ {0} BY DEF Entries
<1> HIDE DEF C, u
<1>6. Linked(Rows, f, bfp, C, {})
  <2>1. ListTypes(Rows, f, bfp, C) BY <1>1, <1>2, <1>4 DEF ListTypes
  <2>2. Forward(Rows, f, C) BY <1>1, <1>2 DEF Forward, Ptr, Nxt
  <2>3. Backward(Rows, bfp, C) /\ Apart(C) BY <1>2 DEF Backward, Apart
  <2>4. Loose(f, C, {}) BY <1>1 DEF Loose
  <2> QED BY <2>1, <2>2, <2>3, <2>4 DEF Linked
<1>7. InUse(used_f, used_bfp, u)
  <2> DEFINE H == {0}
             D == One(u)
  <2>1. ListTypes(H, used_f, used_bfp, D) BY <1>1, <1>3, <1>4 DEF ListTypes
  <2>2. Forward(H, used_f, D) BY <1>1, <1>3 DEF Forward, Ptr, Nxt
  <2>3. Backward(H, used_bfp, D) /\ Apart(D) BY <1>3 DEF Backward, Apart
  <2>4. Loose(used_f, D, {}) BY <1>1 DEF Loose
  <2> HIDE DEF H, D
  <2>5. Linked(H, used_f, used_bfp, D, {}) BY <2>1, <2>2, <2>3, <2>4 DEF Linked
  <2> QED BY <2>5 DEF InUse, H, D
<1>8. /\ unused \in Seq(Entries) /\ Len(unused) = Nentry /\ OneToOne(unused)
      /\ Mem(unused) = Entries
  <2>1. unused \in Seq(Entries) /\ Len(unused) = Nentry BY <1>0, <1>1 DEF Entries
  <2>2. \A i \in 1 .. Nentry : unused[i] = i BY <1>1 DEF Entries
  <2> QED BY <2>1, <2>2 DEF OneToOne, Mem, Entries
<1>9. key \in [Entries -> Keys] BY <1>0, <1>1
<1>10. used_end = Ptr(0, u, Len(u)) BY <1>1, <1>2 DEF Ptr
<1>11. Now(C, u)
  <2>1. Mem(unused) = Entries \ Mem(u) /\ Len(unused) + Len(u) = Nentry BY <1>0, <1>2, <1>8
  <2>2. \A h \in Rows : Mem(C[h]) = {e \in Mem(u) : Row(key[e]) = h} BY <1>2
  <2>3. \A d, e \in Mem(u) : key[d] = key[e] => d = e BY <1>2
  <2> QED BY <1>6, <1>7, <1>8, <1>9, <1>10, <2>1, <2>2, <2>3 DEF Now, TableIs
<1>12. ValType BY <1>1 DEF ValType
<1>13. TableInv BY <1>11, <1>12 DEF TableInv
<1>14. OrderOf(used_f, key) = <<>>
  <2>1. OrderOf(used_f, key) = OrderIs(u, key) BY <1>11, TableReads DEF Now
  <2>2. OrderIs(u, key) = <<>> BY DEF OrderIs, u
  <2> QED BY <2>1, <2>2
<1>15. ValueOf(f, key, val) = [k \in Keys |-> Default]
  <2>1. ValueOf(f, key, val) = ValueIs(u, key, val) BY <1>11, ValuesRead DEF Now
  <2>2. ValueIs(u, key, val) = [k \in Keys |-> Default] BY <1>2 DEF ValueIs
  <2> QED BY <2>1, <2>2
<1>16. [n \in DOMAIN Table!Listed |-> key[Table!Listed[n]]] = <<>>
  BY <1>14, ChainsNow DEF OrderOf
<1>17. [k \in Keys |-> IF Table!Has(k) THEN val[Table!At(k)] ELSE Default] = [k \in Keys |-> Default]
  BY <1>15, ChainsNow DEF ValueOf, ChainOf, HasIn, AtIn, Table!Has, Table!At, Row
<1>18. Table!Map!Init BY <1>1, <1>16, <1>17 DEF Table!Map!Init
<1> QED BY <1>13, <1>18

\* A step of the table is the operation of the map.
LEMMA TableStep ==
  ASSUME TableInv, NEW k \in Keys, NEW v \in Values,
         Table!Hit(k, v) \/ Table!Miss(k, v) \/ Table!Evict(k, v)
  PROVE  TableInv' /\ Table!Map!Access(k, v)
<1>1. PICK C, u : Now(C, u) BY DEF TableInv
<1>2. ValType BY DEF TableInv
<1>3. Accessed(C, u, k, v) BY <1>1, <1>2, HitIs, MissIs, EvictIs
<1>4. PICK D, w : /\ Then(D, w)
                  /\ AccessIs(OrderIs(u, key), ValueIs(u, key, val),
                              OrderIs(w, key'), ValueIs(w, key', val'), found', k, v)
  BY <1>3 DEF Accessed
<1>5. ValType'
  <2>1. PICK e : val' = [val EXCEPT ![e] = v]
    BY DEF Table!Hit, Table!Miss, Table!Evict, Table!Put, Table!Written
  <2> QED BY <2>1, <1>2 DEF ValType
<1>6. TableInv' BY <1>4, <1>5 DEF TableInv, Now, Then
<1>7. OrderOf(used_f, key) = OrderIs(u, key) BY <1>1, TableReads DEF Now
<1>8. ValueOf(f, key, val) = ValueIs(u, key, val) BY <1>1, ValuesRead DEF Now
<1>9. OrderOf(used_f', key') = OrderIs(w, key') BY <1>4, TableReads DEF Then
<1>10. ValueOf(f', key', val') = ValueIs(w, key', val')
  <2> DEFINE f1 == f'
             k1 == key'
             v1 == val'
             g1 == bfp'
             n1 == used_f'
             b1 == used_bfp'
             e1 == used_end'
             r1 == unused'
  <2>1. TableIs(f1, g1, n1, b1, e1, r1, k1, D, w) BY <1>4 DEF Then
  <2> HIDE DEF f1, g1, n1, b1, e1, r1, k1, v1
  <2>2. ValueOf(f1, k1, v1) = ValueIs(w, k1, v1) BY <2>1, ValuesRead
  <2> QED BY <2>2 DEF f1, k1, v1
<1>11. DOMAIN OrderIs(u, key) = 1 .. Len(OrderIs(u, key))
  <2>1. u \in Seq(Entries) /\ key \in [Entries -> Keys] BY <1>1, KeysApart DEF OneFacts
  <2> QED BY <2>1, OrderHas DEF OrderFacts
<1>12. DOMAIN OrderIs(w, key') = 1 .. Len(OrderIs(w, key'))
  <2>1. w \in Seq(Entries) /\ key' \in [Entries -> Keys] BY <1>4, Shape DEF Then, OneFacts
  <2> QED BY <2>1, OrderHas DEF OrderFacts
<1> HIDE DEF TableInv
<1>13. /\ DOMAIN OrderOf(used_f, key) = 1 .. Len(OrderOf(used_f, key))
       /\ DOMAIN OrderOf(used_f', key') = 1 .. Len(OrderOf(used_f', key'))
       /\ AccessIs(OrderOf(used_f, key), ValueOf(f, key, val),
                   OrderOf(used_f', key'), ValueOf(f', key', val'), found', k, v)
  BY <1>4, <1>7, <1>8, <1>9, <1>10, <1>11, <1>12
<1>14. Table!Map!Access(k, v) BY <1>13, IsAccess
<1> QED BY <1>6, <1>14

\* Every step of the composition is operator[]'s or leaves the table alone.
LEMMA TableNext ==
  ASSUME TableInv, [MCNext]_<<vars, lines, table, side>>
  PROVE  TableInv' /\ [Table!Map!Next]_(Table!Map!vars)
<1>1. CASE Table!Next
  <2>1. PICK k \in Keys, v \in Values : Table!Hit(k, v) \/ Table!Miss(k, v) \/ Table!Evict(k, v)
    BY <1>1 DEF Table!Next
  <2>2. TableInv' /\ Table!Map!Access(k, v) BY <2>1, TableStep
  <2> QED BY <2>2 DEF Table!Map!Next
<1>2. CASE UNCHANGED table
  <2>1. /\ UNCHANGED <<f, bfp, used_f, used_bfp, used_end, unused, key, val, found>>
    BY <1>2 DEF table
  <2>2. TableInv' BY <2>1 DEF TableInv, ValType, Now
  <2>3. Table!Chain' = Table!Chain /\ Table!Listed' = Table!Listed BY <2>1, ChainsNow, ChainsThen
  <2>4. UNCHANGED Table!Map!vars
    BY <2>1, <2>3 DEF Table!Map!vars, Table!Has, Table!At
  <2> QED BY <2>2, <2>4
<1> QED BY <1>1, <1>2 DEF MCNext

\* The chains, the list and the unused entries are always those of a table: every entry is in
\* use or unused and not both, each pointer back names the pointer that leads to the entry, a
\* chain has the entries whose keys have its hash, and no key is there twice.
THEOREM TableInvariance == MCSpec => []TableInv
<1>1. MCInit => TableInv BY TableStart DEF MCInit
<1>2. TableInv /\ [MCNext]_<<vars, lines, table, side>> => TableInv' BY TableNext
<1> QED BY <1>1, <1>2, PTL DEF MCSpec

\* HashTable is a map that forgets the key that was asked for longest ago, whatever the
\* keys, their hashes and the number of entries: operator[] of each of its three ways finds
\* the last value written.
THEOREM TableRefinement == MCSpec => ImplementsLruMap
<1>1. MCInit => Table!Map!Init BY TableStart DEF MCInit
<1>2. TableInv /\ [MCNext]_<<vars, lines, table, side>> => [Table!Map!Next]_(Table!Map!vars)
  BY TableNext
<1> QED BY <1>1, <1>2, TableInvariance, PTL
        DEF MCSpec, ImplementsLruMap, Table!ImplementsLruMap, Table!Map!Spec
=============================================================================
