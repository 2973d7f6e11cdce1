---------------------------- MODULE ServiceProofs ----------------------------
(* What the service of a network promises, for any number of engines and any     *)
(* size of batches, as long as no new weight comes before every engine has       *)
(* registered (~LateBoot; MCNNetServiceBoot.cfg shows what happens otherwise).   *)
(*                                                                               *)
(* An engine that waits for its semaphore has one request, and the request is in *)
(* one place: in the jobs, in a batch to fill or to give, at the device, with    *)
(* worker_wait or, answered, in the semaphore. The invariant says that there is  *)
(* such a place for each engine (OnePlace); every step of the three threads      *)
(* moves the requests of one batch, or of one job, from one place to the next.   *)
(* What is left in the memory of a number is then never another engine's.        *)
(* Bounds adds how long the batches and the device's queue may get.              *)
EXTENDS NNetService, TLAPS, FiniteSetTheorems, SequenceTheorems

----------------------------------------------------------------------------
(* The inductive invariant.                                                      *)

Types     == {"Register", "FeedForward", "NNReset", "NOP"}
Labels    == {"boot", "named", "registering", "idle", "search", "blocked", "moved", "stopped"}
Positions == {<<>>} \union (Engines \X Nat)
Jobs      == [type : Types, id : Ids \union {NoId}]
Left      == [id : Ids, what : Positions]
Results   == [id : Ids, what : Positions, wght : Int]
Places    == {"job", "push", "pushing", "device", "answer", "sem"}

ServiceTypes ==
  /\ id_ipc_next \in Nat /\ jobs \in Seq(Jobs) /\ given \in [Ids -> Positions]
  /\ result \in [Ids -> [what : Positions, wght : Int]] /\ sem \in [Ids -> {0, 1}]
  /\ srv \in {"take", "notify", "load"} /\ pusher \in {"check", "asleep", "push", "notify"}
  /\ waiter \in {"check", "asleep", "wait", "notify"}
  /\ entries_push \in Seq(Seq(Left)) /\ pe_push \in Seq(Left)
  /\ entries_wait \in Seq(Seq(Results)) /\ pe_wait \in Seq(Results)
  /\ net \in Int /\ flag_srv \in BOOLEAN
  /\ at \in [Engines -> Labels] /\ id \in [Engines -> Ids \union {NoId}]
  /\ count \in [Engines -> Nat]
  /\ ctl \in {"free", "resetting", "waiting"} /\ wid \in Nat /\ latest \in Nat
  /\ thinking \subseteq Engines

\* One number, one engine; the next number is nobody's, as long as it matters.
Up == {e \in Engines : at[e] # "boot"}
Numbers ==
  /\ \A e \in Up : id[e] \in Ids
  /\ \A e, f \in Up : id[e] = id[f] => e = f
  /\ Up # Engines => id_ipc_next = Cardinality(Up) /\ \A e \in Up : id[e] < id_ipc_next

\* No batch is empty, and a thread has one when it needs it.
Batches ==
  /\ \A n \in 1 .. Len(entries_push) : entries_push[n] # <<>>
  /\ \A n \in 1 .. Len(entries_wait) : entries_wait[n] # <<>>
  /\ pusher = "push" <=> pe_push # <<>>
  /\ waiter # "wait" => pe_wait = <<>>

\* A new weight: nobody thinks until every engine goes on, the network has the weight
\* that the games have, except when it is about to load it, and in the meantime the
\* service has no other job.
AllStarted == \A e \in Engines : at[e] \notin {"boot", "named", "registering"}
OnlyJob(type) == IF flag_srv = TRUE THEN jobs = <<>> ELSE jobs = <<Job(type, NoId)>>
Renewal ==
  /\ wid <= latest /\ (latest # 0 => AllStarted)
  /\ \A e \in Engines : at[e] \in {"search", "blocked"} => e \in thinking
  /\ ctl = "free" => /\ flag_srv = FALSE /\ srv # "load"
                     /\ \A n \in 1 .. Len(jobs) : jobs[n].type \in {"Register", "FeedForward"}
  /\ ctl # "free" => thinking = {} /\ wid = latest /\ latest # 0
  /\ ctl = "resetting" => OnlyJob("NNReset") /\ (srv = "load" => flag_srv = TRUE)
  /\ ctl = "waiting" => OnlyJob("NOP") /\ (srv = "load" => flag_srv = FALSE)
  /\ srv # "load" /\ (ctl = "resetting" => flag_srv = TRUE) => net = wid

\* No number is twice in a batch, or in two batches of a queue.
IdsIn(b) == {b[k].id : k \in 1 .. Len(b)}
Distinct(b) == \A k, l \in 1 .. Len(b) : b[k].id = b[l].id => k = l
Apart(q) == /\ \A n \in 1 .. Len(q) : Distinct(q[n])
            /\ \A m, n \in 1 .. Len(q) : m # n => IdsIn(q[m]) \cap IdsIn(q[n]) = {}
Weighed(b, w) == \A k \in 1 .. Len(b) : b[k].wght = w
EachOnce ==
  /\ Apart(entries_push) /\ Distinct(pe_push) /\ Apart(entries_wait) /\ Distinct(pe_wait)
  /\ \A n \in 1 .. Len(entries_wait) : Weighed(entries_wait[n], wid)
  /\ Weighed(pe_wait, wid)

\* Whoever waits has its request in one place, and what is there is its own. With a,
\* d and c for at, id and count, and p for the places.
Held(b, place, a, d, c, p) ==
  \A k \in 1 .. Len(b) : \E e \in Engines :
    d[e] = b[k].id /\ a[e] = "blocked" /\ b[k].what = <<e, c[e]>> /\ p[e] = place
AllHeld(q, place, a, d, c, p) == \A n \in 1 .. Len(q) : Held(q[n], place, a, d, c, p)
Registers(i, a, d, p) == \E e \in Engines : d[e] = i /\ a[e] = "registering" /\ p[e] = "job"
Asks(i, g, a, d, c, p) ==
  \E e \in Engines : d[e] = i /\ a[e] = "blocked" /\ g[i] = <<e, c[e]>> /\ p[e] = "job"
JobsHeld(j, g, a, d, c, p) ==
  /\ \A n \in 1 .. Len(j) : j[n].type = "Register" => Registers(j[n].id, a, d, p)
  /\ \A n \in 1 .. Len(j) : j[n].type = "FeedForward" => Asks(j[n].id, g, a, d, c, p)
  /\ \A m, n \in 1 .. Len(j) : j[m].id = j[n].id /\ j[m].id # NoId => m = n
AnswerOf(i, r, w, a, d, c, p) == \E e \in Engines :
  /\ d[e] = i /\ p[e] = "sem"
  /\ \/ a[e] = "registering"
     \/ a[e] = "blocked" /\ r[i].what = <<e, c[e]>> /\ r[i].wght = w
SemHeld(s, r, w, a, d, c, p) ==
  \A i \in Ids : s[i] = 1 => AnswerOf(i, r, w, a, d, c, p)
QueuesHeld(q, b, u, v, a, d, c, p) ==
  /\ AllHeld(q, "push", a, d, c, p)   /\ Held(b, "pushing", a, d, c, p)
  /\ AllHeld(u, "device", a, d, c, p) /\ Held(v, "answer", a, d, c, p)
Placed(p) ==
  /\ JobsHeld(jobs, given, at, id, count, p)
  /\ QueuesHeld(entries_push, pe_push, entries_wait, pe_wait, at, id, count, p)
  /\ SemHeld(sem, result, wid, at, id, count, p)
OnePlace == \E p \in [Engines -> Places] : Placed(p)

ServiceInv == ServiceTypes /\ Numbers /\ Batches /\ Renewal /\ EachOnce /\ OnePlace

----------------------------------------------------------------------------
(* Batches and queues.                                                           *)

\* A sequence with one more element, and without its first.
LEMMA Appended ==
  ASSUME NEW S, NEW s \in Seq(S), NEW c \in S
  PROVE  /\ Append(s, c) \in Seq(S) /\ Len(Append(s, c)) = Len(s) + 1 /\ Len(s) \in Nat
         /\ \A i \in 1 .. Len(s) : Append(s, c)[i] = s[i]
         /\ Append(s, c)[Len(s) + 1] = c /\ Append(s, c) # <<>>
  OBVIOUS

\* A sequence without its first element.
LEMMA Taken ==
  ASSUME NEW S, NEW s \in Seq(S), s # <<>>
  PROVE  /\ Tail(s) \in Seq(S) /\ Len(Tail(s)) = Len(s) - 1 /\ Len(s) \in Nat /\ Len(s) > 0
         /\ \A i \in 1 .. Len(Tail(s)) : Tail(s)[i] = s[i + 1] /\ i + 1 \in 1 .. Len(s)
         /\ Head(s) = s[1] /\ Head(s) \in S /\ 1 \in 1 .. Len(s)
  OBVIOUS

\* The numbers in a batch without its first entry.
LEMMA DistinctTaken ==
  ASSUME NEW S, NEW b \in Seq(S), b # <<>>, Distinct(b)
  PROVE  Distinct(Tail(b)) /\ Head(b).id \notin IdsIn(Tail(b))
<1> DEFINE t == Tail(b)
<1>1. /\ Len(t) = Len(b) - 1 /\ Len(b) \in Nat /\ Len(b) > 0 /\ Head(b) = b[1]
      /\ \A i \in 1 .. Len(t) : t[i] = b[i + 1] /\ i + 1 \in 1 .. Len(b)
      /\ 1 \in 1 .. Len(b)
  BY Taken
<1> HIDE DEF t
<1>2. Distinct(t)
  <2> SUFFICES ASSUME NEW k \in 1 .. Len(t), NEW l \in 1 .. Len(t), t[k].id = t[l].id
               PROVE  k = l
    BY DEF Distinct
  <2>1. k + 1 = l + 1 BY <1>1 DEF Distinct
  <2> QED BY <2>1
<1>3. Head(b).id \notin IdsIn(t)
  <2> SUFFICES ASSUME NEW k \in 1 .. Len(t), t[k].id = b[1].id PROVE FALSE
    BY <1>1 DEF IdsIn
  <2>1. k + 1 = 1 BY <1>1 DEF Distinct
  <2> QED BY <2>1
<1> QED BY <1>2, <1>3 DEF t

\* The numbers in a batch with one more entry.
LEMMA DistinctAppended ==
  ASSUME NEW S, NEW b \in Seq(S), NEW r \in S, Distinct(b), r.id \notin IdsIn(b)
  PROVE  Distinct(Append(b, r)) /\ IdsIn(Append(b, r)) = IdsIn(b) \union {r.id}
<1> DEFINE t == Append(b, r)
<1>1. /\ Len(t) = Len(b) + 1 /\ Len(b) \in Nat /\ t[Len(b) + 1] = r
      /\ \A i \in 1 .. Len(b) : t[i] = b[i]
  BY Appended
<1> HIDE DEF t
<1>2. \A i \in 1 .. Len(t) : i \in 1 .. Len(b) \/ i = Len(b) + 1 BY <1>1
<1>3. \A i \in 1 .. Len(b) : b[i].id # r.id BY DEF IdsIn
<1>4. Distinct(t) BY <1>1, <1>2, <1>3 DEF Distinct
<1>5. IdsIn(t) = IdsIn(b) \union {r.id}
  <2>1. \A i \in 1 .. Len(b) : i \in 1 .. Len(t) BY <1>1
  <2>2. Len(b) + 1 \in 1 .. Len(t) BY <1>1
  <2> QED BY <1>1, <1>2, <2>1, <2>2 DEF IdsIn
<1> QED BY <1>4, <1>5 DEF t

\* A queue without its first batch, and with one more.
LEMMA ApartTaken ==
  ASSUME NEW S, NEW q \in Seq(S), q # <<>>, Apart(q)
  PROVE  /\ Apart(Tail(q)) /\ Distinct(Head(q))
         /\ \A n \in 1 .. Len(Tail(q)) : IdsIn(Tail(q)[n]) \cap IdsIn(Head(q)) = {}
<1> DEFINE t == Tail(q)
<1>1. /\ Len(t) = Len(q) - 1 /\ Len(q) \in Nat /\ Len(q) > 0 /\ Head(q) = q[1]
      /\ \A i \in 1 .. Len(t) : t[i] = q[i + 1] /\ i + 1 \in 1 .. Len(q)
      /\ 1 \in 1 .. Len(q)
  BY Taken
<1> HIDE DEF t
<1>2. ASSUME NEW m \in 1 .. Len(t), NEW n \in 1 .. Len(t), m # n
      PROVE  IdsIn(t[m]) \cap IdsIn(t[n]) = {}
  <2>1. m + 1 # n + 1 BY <1>2
  <2> QED BY <1>1, <2>1 DEF Apart
<1>3. ASSUME NEW n \in 1 .. Len(t) PROVE IdsIn(t[n]) \cap IdsIn(q[1]) = {}
  <2>1. n + 1 # 1 OBVIOUS
  <2> QED BY <1>1, <2>1 DEF Apart
<1>4. \A n \in 1 .. Len(t) : Distinct(t[n]) BY <1>1 DEF Apart
<1> QED BY <1>1, <1>2, <1>3, <1>4 DEF Apart, t

\* A queue with one more batch, of numbers that are not in it.
LEMMA ApartAppended ==
  ASSUME NEW S, NEW q \in Seq(S), NEW b \in S, Apart(q), Distinct(b),
         \A n \in 1 .. Len(q) : IdsIn(q[n]) \cap IdsIn(b) = {}
  PROVE  Apart(Append(q, b))
<1> DEFINE t == Append(q, b)
<1>1. /\ Len(t) = Len(q) + 1 /\ Len(q) \in Nat /\ t[Len(q) + 1] = b
      /\ \A i \in 1 .. Len(q) : t[i] = q[i]
  BY Appended
<1> HIDE DEF t
<1>2. \A i \in 1 .. Len(t) : i \in 1 .. Len(q) \/ i = Len(q) + 1 BY <1>1
<1>3. ASSUME NEW m \in 1 .. Len(t), NEW n \in 1 .. Len(t), m # n
      PROVE  IdsIn(t[m]) \cap IdsIn(t[n]) = {}
  <2>1. CASE m \in 1 .. Len(q) /\ n \in 1 .. Len(q) BY <1>1, <1>3, <2>1 DEF Apart
  <2>2. CASE m \in 1 .. Len(q) /\ n = Len(q) + 1 BY <1>1, <2>2
  <2>3. CASE n \in 1 .. Len(q) /\ m = Len(q) + 1 BY <1>1, <2>3
  <2> QED BY <1>2, <1>3, <2>1, <2>2, <2>3
<1>4. \A n \in 1 .. Len(t) : Distinct(t[n]) BY <1>1, <1>2 DEF Apart
<1> QED BY <1>3, <1>4 DEF Apart, t

----------------------------------------------------------------------------
(* Requests stay where they are, or go to the next place.                        *)

\* The requests of the numbers ids go from one place to another.
Moved(p, d, ids, from, to) ==
  [e \in Engines |-> IF p[e] = from /\ d[e] \in ids THEN to ELSE p[e]]

\* The requests that move are held where they go...
LEMMA HeldMoves ==
  ASSUME NEW b, NEW a, NEW d, NEW c, NEW p, NEW from, NEW to, NEW ids,
         Held(b, from, a, d, c, p), IdsIn(b) \subseteq ids
  PROVE  Held(b, to, a, d, c, Moved(p, d, ids, from, to))
  BY DEF Held, IdsIn, Moved

\* ... and the others where they were.
LEMMA HeldStays ==
  ASSUME NEW b, NEW a, NEW d, NEW c, NEW p, NEW from, NEW to, NEW ids, NEW s,
         Held(b, s, a, d, c, p), s # from \/ IdsIn(b) \cap ids = {}
  PROVE  Held(b, s, a, d, c, Moved(p, d, ids, from, to))
  BY DEF Held, IdsIn, Moved

\* Engines that do not wait, or have their answer, may change.
Frame(a, d, c, p, a2, d2, c2, p2) == \A e \in Engines :
  a[e] \in {"registering", "blocked"} /\ p[e] # "sem" =>
    a2[e] = a[e] /\ d2[e] = d[e] /\ c2[e] = c[e] /\ p2[e] = p[e]

\* What is held stays held if only engines without a request change: a batch...
LEMMA HeldFrame ==
  ASSUME NEW b, NEW s, NEW a, NEW d, NEW c, NEW p, NEW a2, NEW d2, NEW c2, NEW p2,
         Held(b, s, a, d, c, p), s # "sem", Frame(a, d, c, p, a2, d2, c2, p2)
  PROVE  Held(b, s, a2, d2, c2, p2)
  BY DEF Held, Frame

\* ... the batches of the three threads...
LEMMA QueuesFrame ==
  ASSUME NEW q, NEW b, NEW u, NEW v, NEW a, NEW d, NEW c, NEW p,
         NEW a2, NEW d2, NEW c2, NEW p2,
         QueuesHeld(q, b, u, v, a, d, c, p), Frame(a, d, c, p, a2, d2, c2, p2)
  PROVE  QueuesHeld(q, b, u, v, a2, d2, c2, p2)
  BY HeldFrame DEF QueuesHeld, AllHeld

\* ... and the jobs.
LEMMA JobsFrame ==
  ASSUME NEW j, NEW g, NEW a, NEW d, NEW c, NEW p, NEW a2, NEW d2, NEW c2, NEW p2,
         JobsHeld(j, g, a, d, c, p), Frame(a, d, c, p, a2, d2, c2, p2)
  PROVE  JobsHeld(j, g, a2, d2, c2, p2)
<1>1. \A i : Registers(i, a, d, p) => Registers(i, a2, d2, p2) BY DEF Registers, Frame
<1>2. \A i : Asks(i, g, a, d, c, p) => Asks(i, g, a2, d2, c2, p2) BY DEF Asks, Frame
<1> QED BY <1>1, <1>2 DEF JobsHeld

Owned(r, place, a, d, c, p) ==
  \E e \in Engines : d[e] = r.id /\ a[e] = "blocked" /\ r.what = <<e, c[e]>> /\ p[e] = place

\* A batch with one more entry, and without its first.
LEMMA HeldAppended ==
  ASSUME NEW S, NEW b \in Seq(S), NEW r \in S, NEW s, NEW a, NEW d, NEW c, NEW p,
         Held(b, s, a, d, c, p),
         NEW e \in Engines, d[e] = r.id, a[e] = "blocked", r.what = <<e, c[e]>>, p[e] = s
  PROVE  Held(Append(b, r), s, a, d, c, p)
<1>1. /\ Len(Append(b, r)) = Len(b) + 1 /\ Len(b) \in Nat /\ Append(b, r)[Len(b) + 1] = r
      /\ \A i \in 1 .. Len(b) : Append(b, r)[i] = b[i]
  BY Appended
<1>2. \A i \in 1 .. Len(Append(b, r)) : i \in 1 .. Len(b) \/ i = Len(b) + 1 BY <1>1
<1> QED BY <1>1, <1>2 DEF Held

\* A batch without its first entry, and the engine of that entry.
LEMMA HeldTaken ==
  ASSUME NEW S, NEW b \in Seq(S), b # <<>>, NEW s, NEW a, NEW d, NEW c, NEW p,
         Held(b, s, a, d, c, p)
  PROVE  Held(Tail(b), s, a, d, c, p) /\ Owned(Head(b), s, a, d, c, p)
<1>1. /\ Head(b) = b[1] /\ 1 \in 1 .. Len(b)
      /\ \A i \in 1 .. Len(Tail(b)) : Tail(b)[i] = b[i + 1] /\ i + 1 \in 1 .. Len(b)
  BY Taken
<1> QED BY <1>1 DEF Held, Owned

\* A queue without its first batch, and that batch.
LEMMA AllHeldTaken ==
  ASSUME NEW S, NEW q \in Seq(S), q # <<>>, NEW s, NEW a, NEW d, NEW c, NEW p,
         AllHeld(q, s, a, d, c, p)
  PROVE  AllHeld(Tail(q), s, a, d, c, p) /\ Held(Head(q), s, a, d, c, p)
<1>1. /\ Head(q) = q[1] /\ 1 \in 1 .. Len(q)
      /\ \A i \in 1 .. Len(Tail(q)) : Tail(q)[i] = q[i + 1] /\ i + 1 \in 1 .. Len(q)
  BY Taken
<1> QED BY <1>1 DEF AllHeld

\* A queue with one more batch.
LEMMA AllHeldAppended ==
  ASSUME NEW S, NEW q \in Seq(S), NEW b \in S, NEW s, NEW a, NEW d, NEW c, NEW p,
         AllHeld(q, s, a, d, c, p), Held(b, s, a, d, c, p)
  PROVE  AllHeld(Append(q, b), s, a, d, c, p)
<1>1. /\ Len(Append(q, b)) = Len(q) + 1 /\ Len(q) \in Nat /\ Append(q, b)[Len(q) + 1] = b
      /\ \A i \in 1 .. Len(q) : Append(q, b)[i] = q[i]
  BY Appended
<1>2. \A i \in 1 .. Len(Append(q, b)) : i \in 1 .. Len(q) \/ i = Len(q) + 1 BY <1>1
<1> QED BY <1>1, <1>2 DEF AllHeld

\* The number of an engine that does not wait for a result in this place is not there.
LEMMA Elsewhere ==
  ASSUME Numbers, NEW b, NEW s, NEW p, Held(b, s, at, id, count, p),
         NEW e \in Up, at[e] # "blocked" \/ p[e] # s
  PROVE  id[e] \notin IdsIn(b)
<1> SUFFICES ASSUME NEW k \in 1 .. Len(b), b[k].id = id[e] PROVE FALSE
  BY DEF IdsIn
<1>1. PICK f \in Engines : id[f] = b[k].id /\ at[f] = "blocked" /\ p[f] = s BY DEF Held
<1>2. f \in Up BY <1>1 DEF Up
<1> QED BY <1>1, <1>2 DEF Numbers

----------------------------------------------------------------------------
(* The steps of an engine.                                                       *)

\* An engine that waits has a number, and thinks when it waits for a result.
LEMMA EnginesFinite ==
  /\ Nipc \in Nat
  /\ \A S \in SUBSET Engines : IsFiniteSet(S) /\ Cardinality(S) \in Nat
       /\ (S # Engines => Cardinality(S) < Nipc)
  BY NNetServiceAssumption, FS_Subset, FS_CardinalityType DEF Nipc

\* The next number, and the job that registers it.
LEMMA TakeIdKeeps ==
  ASSUME ServiceInv, NEW e \in Engines, TakeId(e)
  PROVE  ServiceInv'
<1> DEFINE i == id_ipc_next
<1>1. /\ at[e] = "boot" /\ id' = [id EXCEPT ![e] = i] /\ id_ipc_next' = i + 1
      /\ at' = [at EXCEPT ![e] = "named"]
      /\ UNCHANGED <<jobs, given, result, sem, entries_push, entries_wait, pe_push, pe_wait,
                     srv, pusher, waiter, net, flag_srv, count, ctl, wid, latest, thinking>>
  BY DEF TakeId, EngineAt, queues, workers, manager
<1>2. ServiceTypes /\ Numbers BY DEF ServiceInv
<1>3. /\ \A f \in Engines : f # e => at'[f] = at[f] /\ id'[f] = id[f]
      /\ at'[e] = "named" /\ id'[e] = i
  BY <1>1, <1>2 DEF ServiceTypes
<1>4. Up' = Up \union {e} /\ e \notin Up /\ Up \in SUBSET Engines BY <1>1, <1>3 DEF Up
<1>5. i = Cardinality(Up) /\ i \in Ids /\ \A f \in Up : id[f] < i
  <2>1. Up # Engines BY <1>4
  <2>2. i = Cardinality(Up) /\ i \in Nat /\ i < Nipc /\ Nipc \in Nat
    BY <1>2, <1>4, <2>1, EnginesFinite DEF Numbers
  <2> QED BY <1>2, <2>1, <2>2 DEF Numbers, Ids
<1>6. ServiceTypes'
  <2>1. at' \in [Engines -> Labels] BY <1>1, <1>2 DEF ServiceTypes, Labels
  <2>2. id' \in [Engines -> Ids \union {NoId}] BY <1>1, <1>2, <1>5 DEF ServiceTypes
  <2>3. id_ipc_next' \in Nat BY <1>1, <1>2 DEF ServiceTypes
  <2> QED BY <1>1, <1>2, <2>1, <2>2, <2>3 DEF ServiceTypes
<1>7. Numbers'
  <2>1. \A f \in Up : id'[f] = id[f] /\ id[f] \in Ids /\ id[f] # i
    BY <1>2, <1>3, <1>4, <1>5 DEF Numbers, Ids
  <2>2. \A f \in Up' : id'[f] \in Ids BY <1>3, <1>4, <1>5, <2>1
  <2>3. \A f, g \in Up' : id'[f] = id'[g] => f = g
    BY <1>2, <1>3, <1>4, <2>1 DEF Numbers
  <2>4. Cardinality(Up') = Cardinality(Up) + 1
    <3>1. IsFiniteSet(Up) BY <1>4, EnginesFinite
    <3> QED BY <1>4, <3>1, FS_AddElement
  <2>5. \A f \in Up' : id'[f] < i + 1
    BY <1>3, <1>4, <1>5, <2>1, EnginesFinite DEF Ids
  <2> QED BY <1>1, <1>5, <2>2, <2>3, <2>4, <2>5 DEF Numbers
<1>8. Renewal'
  <2>1. \A f \in Engines : at'[f] \in {"search", "blocked"} => at[f] \in {"search", "blocked"}
    BY <1>3
  <2>2. latest = 0 BY <1>1 DEF ServiceInv, Renewal, AllStarted
  <2> QED BY <1>1, <2>1, <2>2 DEF ServiceInv, Renewal, OnlyJob
<1>9. OnePlace'
  <2>1. PICK p \in [Engines -> Places] : Placed(p) BY DEF ServiceInv, OnePlace
  <2>2. Frame(at, id, count, p, at', id', count', p) BY <1>1, <1>3 DEF Frame
  <2>3. JobsHeld(jobs', given', at', id', count', p)
    BY <1>1, <2>1, <2>2, JobsFrame DEF Placed
  <2>4. QueuesHeld(entries_push', pe_push', entries_wait', pe_wait', at', id', count', p)
    BY <1>1, <2>1, <2>2, QueuesFrame DEF Placed
  <2>5. SemHeld(sem', result', wid', at', id', count', p)
    BY <1>1, <1>3, <2>1 DEF Placed, SemHeld, AnswerOf
  <2> QED BY <2>3, <2>4, <2>5 DEF OnePlace, Placed, Ids
<1> QED BY <1>1, <1>6, <1>7, <1>8, <1>9 DEF ServiceInv, Batches, EachOnce

\* An engine that has its number goes from one place of its program to another.
Goes(e, label) == /\ e \in Engines /\ at[e] # "boot" /\ label \in Labels \ {"boot"}
                  /\ at' = [at EXCEPT ![e] = label]
                  /\ UNCHANGED <<id, id_ipc_next>>

\* What such a step leaves as it is.
LEMMA GoesOn ==
  ASSUME ServiceTypes, Numbers, NEW e, NEW label, Goes(e, label)
  PROVE  /\ \A f \in Engines : f # e => at'[f] = at[f]
         /\ at'[e] = label /\ at' \in [Engines -> Labels] /\ Numbers'
         /\ e \in Up /\ id[e] \in Ids
         /\ \A f \in Up : id[f] = id[e] => f = e
<1>1. /\ \A f \in Engines : f # e => at'[f] = at[f]
      /\ at'[e] = label /\ at' \in [Engines -> Labels]
  BY DEF Goes, ServiceTypes
<1>2. Up' = Up BY <1>1 DEF Up, Goes, Labels
<1>3. e \in Up BY DEF Up, Goes
<1> QED BY <1>1, <1>2, <1>3 DEF Numbers, Goes, Ids

\* The semaphore of an engine that waits lets it go: its request is answered.
LEMMA Wakes ==
  ASSUME ServiceTypes, Numbers, NEW p, Placed(p), NEW e \in Engines,
         at[e] \in {"registering", "blocked"}, 0 < sem[id[e]]
  PROVE  /\ id[e] \in Ids /\ sem[id[e]] = 1 /\ p[e] = "sem"
         /\ at[e] = "blocked" => /\ result[id[e]].what = <<e, count[e]>>
                                 /\ result[id[e]].wght = wid
<1>1. e \in Up /\ id[e] \in Ids BY DEF Up, Numbers
<1>2. sem[id[e]] = 1 BY <1>1 DEF ServiceTypes
<1>3. PICK f \in Engines :
        /\ id[f] = id[e] /\ p[f] = "sem"
        /\ \/ at[f] = "registering"
           \/ at[f] = "blocked" /\ result[id[e]].what = <<f, count[f]>> /\ result[id[e]].wght = wid
  BY <1>1, <1>2 DEF Placed, SemHeld, AnswerOf
<1>4. f = e
  <2>1. f \in Up BY <1>3 DEF Up
  <2> QED BY <1>1, <1>3, <2>1 DEF Numbers
<1> QED BY <1>1, <1>2, <1>3, <1>4

\* The job that registers it: nobody else has a job of that number.
LEMMA RegisterKeeps ==
  ASSUME ServiceInv, NEW e \in Engines, Register(e)
  PROVE  ServiceInv'
<1> DEFINE i == id[e]
           j == Job("Register", i)
<1>1. /\ at[e] = "named" /\ at' = [at EXCEPT ![e] = "registering"] /\ jobs' = Append(jobs, j)
      /\ UNCHANGED <<id_ipc_next, given, result, sem, entries_push, entries_wait, pe_push,
                     pe_wait, srv, pusher, waiter, net, flag_srv, id, count, ctl, wid, latest,
                     thinking>>
  BY DEF Register, Submit, EngineAt, queues, workers, manager
<1>2. ServiceTypes /\ Numbers BY DEF ServiceInv
<1>3. Goes(e, "registering") BY <1>1 DEF Goes, Labels
<1>4. /\ \A f \in Engines : f # e => at'[f] = at[f]
      /\ at'[e] = "registering" /\ at' \in [Engines -> Labels] /\ Numbers'
      /\ e \in Up /\ i \in Ids
      /\ \A f \in Up : id[f] = i => f = e
  BY <1>2, <1>3, GoesOn
<1>5. j \in Jobs /\ j.type = "Register" /\ j.id = i BY <1>4 DEF Job, Jobs, Types
<1> HIDE DEF j
<1>6. /\ jobs' \in Seq(Jobs) /\ Len(jobs') = Len(jobs) + 1 /\ Len(jobs) \in Nat
      /\ \A n \in 1 .. Len(jobs) : jobs'[n] = jobs[n]
      /\ jobs'[Len(jobs) + 1] = j
  BY <1>1, <1>2, <1>5, Appended DEF ServiceTypes
<1>7. \A n \in 1 .. Len(jobs') : n \in 1 .. Len(jobs) \/ n = Len(jobs) + 1 BY <1>6
<1>8. latest = 0 /\ ctl = "free"
  BY <1>1 DEF ServiceInv, Renewal, AllStarted
<1>9. ServiceTypes' BY <1>1, <1>2, <1>4, <1>6 DEF ServiceTypes
<1>10. Renewal'
  <2>1. \A f \in Engines : at'[f] \in {"search", "blocked"} => at[f] \in {"search", "blocked"}
    BY <1>1, <1>4
  <2>2. \A n \in 1 .. Len(jobs') : jobs'[n].type \in {"Register", "FeedForward"}
    BY <1>5, <1>6, <1>7, <1>8 DEF ServiceInv, Renewal
  <2> QED BY <1>1, <1>8, <2>1, <2>2 DEF ServiceInv, Renewal
<1>11. OnePlace'
  <2>1. PICK p \in [Engines -> Places] : Placed(p) BY DEF ServiceInv, OnePlace
  <2>2. PICK p2 \in [Engines -> Places] : p2 = [p EXCEPT ![e] = "job"] BY <2>1 DEF Places
  <2>3. Frame(at, id, count, p, at', id', count', p2) BY <1>1, <1>4, <2>1, <2>2 DEF Frame
  <2>4. JobsHeld(jobs, given, at', id', count', p2) BY <2>1, <2>3, JobsFrame DEF Placed
  <2>5. Registers(j.id, at', id', p2) BY <1>1, <1>4, <1>5, <2>1, <2>2 DEF Registers
  <2>6. \A n \in 1 .. Len(jobs) : jobs[n].id # i
    <3> SUFFICES ASSUME NEW n \in 1 .. Len(jobs), jobs[n].id = i PROVE FALSE
      OBVIOUS
    <3>1. jobs[n].type \in {"Register", "FeedForward"} BY <1>8 DEF ServiceInv, Renewal
    <3>2. \E f \in Engines : id[f] = i /\ at[f] \in {"registering", "blocked"}
      BY <2>1, <3>1 DEF Placed, JobsHeld, Registers, Asks
    <3> QED BY <1>1, <1>4, <3>2 DEF Up
  <2>7. JobsHeld(jobs', given', at', id', count', p2)
    <3>1. \A m, n \in 1 .. Len(jobs') :
            jobs'[m].id = jobs'[n].id /\ jobs'[m].id # NoId => m = n
      BY <1>5, <1>6, <1>7, <2>4, <2>6 DEF JobsHeld
    <3> QED BY <1>1, <1>5, <1>6, <1>7, <2>4, <2>5, <3>1 DEF JobsHeld
  <2>8. QueuesHeld(entries_push', pe_push', entries_wait', pe_wait', at', id', count', p2)
    BY <1>1, <2>1, <2>3, QueuesFrame DEF Placed
  <2>9. SemHeld(sem', result', wid', at', id', count', p2)
    BY <1>1, <1>4, <2>1, <2>2 DEF Placed, SemHeld, AnswerOf
  <2> QED BY <2>2, <2>7, <2>8, <2>9 DEF OnePlace, Placed
<1> QED BY <1>1, <1>4, <1>9, <1>10, <1>11 DEF ServiceInv, Batches, EachOnce

\* An engine takes what its semaphore announces.
LEMMA WakeKeeps ==
  ASSUME ServiceInv, NEW e \in Engines, at[e] \in {"registering", "blocked"}, 0 < sem[id[e]],
         sem' = [sem EXCEPT ![id[e]] = @ - 1],
         NEW label \in {"idle", "search"}, Goes(e, label),
         label = "search" => at[e] = "blocked",
         UNCHANGED <<jobs, given, result, entries_push, entries_wait, pe_push, pe_wait, srv,
                     pusher, waiter, net, flag_srv, count, ctl, wid, latest, thinking>>
  PROVE  ServiceInv'
<1>1. ServiceTypes /\ Numbers BY DEF ServiceInv
<1>2. /\ \A f \in Engines : f # e => at'[f] = at[f]
      /\ at'[e] = label /\ at' \in [Engines -> Labels] /\ Numbers'
      /\ e \in Up /\ id[e] \in Ids
      /\ \A f \in Up : id[f] = id[e] => f = e
  BY <1>1, GoesOn
<1>3. PICK p \in [Engines -> Places] : Placed(p) BY DEF ServiceInv, OnePlace
<1>4. sem[id[e]] = 1 /\ p[e] = "sem" BY <1>1, <1>3, Wakes
<1>5. sem' \in [Ids -> {0, 1}] /\ sem'[id[e]] = 0 /\ \A i \in Ids : i # id[e] => sem'[i] = sem[i]
  BY <1>1, <1>2, <1>4 DEF ServiceTypes
<1>6. ServiceTypes' BY <1>1, <1>2, <1>5 DEF ServiceTypes, Goes
<1>7. Renewal'
  <2>1. \A f \in Engines : at'[f] \in {"search", "blocked"} => f \in thinking
    BY <1>2 DEF ServiceInv, Renewal
  <2>2. latest # 0 => AllStarted'
    BY <1>2 DEF ServiceInv, Renewal, AllStarted, Goes
  <2> QED BY <2>1, <2>2 DEF ServiceInv, Renewal, OnlyJob
<1>8. OnePlace'
  <2>1. Frame(at, id, count, p, at', id', count', p) BY <1>2, <1>4 DEF Frame, Goes
  <2>2. JobsHeld(jobs', given', at', id', count', p) BY <1>3, <2>1, JobsFrame DEF Placed
  <2>3. QueuesHeld(entries_push', pe_push', entries_wait', pe_wait', at', id', count', p)
    BY <1>3, <2>1, QueuesFrame DEF Placed
  <2>4. SemHeld(sem', result', wid', at', id', count', p)
    BY <1>2, <1>3, <1>5 DEF Placed, SemHeld, AnswerOf, Goes
  <2> QED BY <1>3, <2>2, <2>3, <2>4 DEF OnePlace, Placed
<1> QED BY <1>2, <1>6, <1>7, <1>8 DEF ServiceInv, Batches, EachOnce

\* The engine has registered.
LEMMA RegisteredKeeps ==
  ASSUME ServiceInv, NEW e \in Engines, Registered(e)
  PROVE  ServiceInv'
<1>1. /\ at[e] = "registering" /\ 0 < sem[id[e]] /\ sem' = [sem EXCEPT ![id[e]] = @ - 1]
      /\ Goes(e, "idle")
      /\ UNCHANGED <<jobs, given, result, entries_push, entries_wait, pe_push, pe_wait, srv,
                     pusher, waiter, net, flag_srv, count, ctl, wid, latest, thinking>>
  BY DEF Registered, EngineAt, Goes, Labels, queues, workers, manager
<1> QED BY <1>1, WakeKeeps

\* The engine has its result.
LEMMA AnsweredKeeps ==
  ASSUME ServiceInv, NEW e \in Engines, Answered(e)
  PROVE  ServiceInv'
<1>1. /\ at[e] = "blocked" /\ 0 < sem[id[e]] /\ sem' = [sem EXCEPT ![id[e]] = @ - 1]
      /\ Goes(e, "search")
      /\ UNCHANGED <<jobs, given, result, entries_push, entries_wait, pe_push, pe_wait, srv,
                     pusher, waiter, net, flag_srv, count, ctl, wid, latest, thinking>>
  BY DEF Answered, EngineAt, Goes, Labels, queues, workers, manager
<1> QED BY <1>1, WakeKeeps

\* A position is left, and the job that asks for it: an engine that thinks has none.
LEMMA SubmitBlockKeeps ==
  ASSUME ServiceInv, NEW e \in Engines, SubmitBlock(e)
  PROVE  ServiceInv'
<1> DEFINE i == id[e]
           w == <<e, count[e] + 1>>
           j == Job("FeedForward", i)
<1>1. /\ at[e] = "search" /\ at' = [at EXCEPT ![e] = "blocked"] /\ jobs' = Append(jobs, j)
      /\ count' = [count EXCEPT ![e] = @ + 1] /\ given' = [given EXCEPT ![i] = w]
      /\ UNCHANGED <<id_ipc_next, result, sem, entries_push, entries_wait, pe_push,
                     pe_wait, srv, pusher, waiter, net, flag_srv, id, ctl, wid, latest,
                     thinking>>
  BY DEF SubmitBlock, Submit, EngineAt, queues, workers, manager
<1>2. ServiceTypes /\ Numbers BY DEF ServiceInv
<1>3. Goes(e, "blocked") BY <1>1 DEF Goes, Labels
<1>4. /\ \A f \in Engines : f # e => at'[f] = at[f]
      /\ at'[e] = "blocked" /\ at' \in [Engines -> Labels] /\ Numbers'
      /\ e \in Up /\ i \in Ids
      /\ \A f \in Up : id[f] = i => f = e
  BY <1>2, <1>3, GoesOn
<1>5. j \in Jobs /\ j.type = "FeedForward" /\ j.id = i BY <1>4 DEF Job, Jobs, Types
<1> HIDE DEF j
<1>6. /\ jobs' \in Seq(Jobs) /\ Len(jobs') = Len(jobs) + 1 /\ Len(jobs) \in Nat
      /\ \A n \in 1 .. Len(jobs) : jobs'[n] = jobs[n]
      /\ jobs'[Len(jobs) + 1] = j
  BY <1>1, <1>2, <1>5, Appended DEF ServiceTypes
<1>7. \A n \in 1 .. Len(jobs') : n \in 1 .. Len(jobs) \/ n = Len(jobs) + 1 BY <1>6
<1>8. ctl = "free" /\ e \in thinking
  BY <1>1 DEF ServiceInv, Renewal
<1>9. /\ count' \in [Engines -> Nat] /\ count'[e] = count[e] + 1
      /\ \A f \in Engines : f # e => count'[f] = count[f]
      /\ w \in Positions
  BY <1>1, <1>2 DEF ServiceTypes, Positions
<1> HIDE DEF w
<1>10. /\ given' \in [Ids -> Positions] /\ given'[i] = w
       /\ \A n \in Ids : n # i => given'[n] = given[n]
  BY <1>1, <1>2, <1>4, <1>9 DEF ServiceTypes
<1>11. ServiceTypes' BY <1>1, <1>2, <1>4, <1>6, <1>9, <1>10 DEF ServiceTypes
<1>12. Renewal'
  <2>1. \A f \in Engines : at'[f] \in {"search", "blocked"} => f \in thinking
    BY <1>4, <1>8 DEF ServiceInv, Renewal
  <2>2. \A n \in 1 .. Len(jobs') : jobs'[n].type \in {"Register", "FeedForward"}
    BY <1>5, <1>6, <1>7, <1>8 DEF ServiceInv, Renewal
  <2>3. latest # 0 => AllStarted' BY <1>4 DEF ServiceInv, Renewal, AllStarted
  <2> QED BY <1>1, <1>8, <2>1, <2>2, <2>3 DEF ServiceInv, Renewal
<1>13. OnePlace'
  <2>1. PICK p \in [Engines -> Places] : Placed(p) BY DEF ServiceInv, OnePlace
  <2>2. PICK p2 \in [Engines -> Places] : p2 = [p EXCEPT ![e] = "job"] BY <2>1 DEF Places
  <2>3. Frame(at, id, count, p, at', id', count', p2)
    BY <1>1, <1>4, <1>9, <2>1, <2>2 DEF Frame
  <2>4. JobsHeld(jobs, given, at', id', count', p2) BY <2>1, <2>3, JobsFrame DEF Placed
  <2>5. ASSUME NEW n \in 1 .. Len(jobs)
        PROVE  /\ jobs[n].id # i
               /\ jobs[n].type = "FeedForward" => Asks(jobs[n].id, given', at', id', count', p2)
    <3>1. jobs[n].type \in {"Register", "FeedForward"} BY <1>8 DEF ServiceInv, Renewal
    <3>2. PICK f \in Engines : id[f] = jobs[n].id /\ at[f] \in {"registering", "blocked"}
      BY <2>1, <3>1 DEF Placed, JobsHeld, Registers, Asks
    <3>3. f \in Up BY <3>2 DEF Up
    <3>4. jobs[n].id \in Ids /\ jobs[n].id # i BY <1>1, <1>2, <1>4, <3>2, <3>3 DEF Numbers
    <3>5. given'[jobs[n].id] = given[jobs[n].id] BY <1>10, <3>4
    <3> QED BY <2>4, <3>4, <3>5 DEF JobsHeld, Asks
  <2>6. Asks(j.id, given', at', id', count', p2)
    BY <1>1, <1>4, <1>5, <1>9, <1>10, <2>1, <2>2 DEF Asks, w
  <2>7. JobsHeld(jobs', given', at', id', count', p2)
    <3>1. \A m, n \in 1 .. Len(jobs') :
            jobs'[m].id = jobs'[n].id /\ jobs'[m].id # NoId => m = n
      BY <1>5, <1>6, <1>7, <2>4, <2>5 DEF JobsHeld
    <3>2. \A n \in 1 .. Len(jobs') : jobs'[n].type = "Register" =>
            Registers(jobs'[n].id, at', id', p2)
      BY <1>5, <1>6, <1>7, <2>4 DEF JobsHeld
    <3>3. \A n \in 1 .. Len(jobs') : jobs'[n].type = "FeedForward" =>
            Asks(jobs'[n].id, given', at', id', count', p2)
      BY <1>5, <1>6, <1>7, <2>5, <2>6
    <3> QED BY <3>1, <3>2, <3>3 DEF JobsHeld
  <2>8. QueuesHeld(entries_push', pe_push', entries_wait', pe_wait', at', id', count', p2)
    BY <1>1, <2>1, <2>3, QueuesFrame DEF Placed
  <2>9. SemHeld(sem', result', wid', at', id', count', p2)
    BY <1>1, <1>4, <1>9, <2>1, <2>2 DEF Placed, SemHeld, AnswerOf
  <2> QED BY <2>2, <2>7, <2>8, <2>9 DEF OnePlace, Placed
<1> QED BY <1>1, <1>4, <1>11, <1>12, <1>13 DEF ServiceInv, Batches, EachOnce

\* Engines that do not wait go on: the end of a search, and what the manager does with
\* the line that follows, or with all that stopped.
LEMMA OthersKeep ==
  ASSUME ServiceInv, at' \in [Engines -> Labels], count' \in [Engines -> Nat],
         \A e \in Engines : at'[e] # at[e] =>
           /\ at[e] \notin {"boot", "named", "registering", "blocked"}
           /\ at'[e] \notin {"boot", "named", "registering", "blocked"},
         \A e \in Engines : at[e] \in {"registering", "blocked"} => count'[e] = count[e],
         \A e \in Engines : at'[e] \in {"search", "blocked"} => e \in thinking',
         thinking' \subseteq Engines,
         UNCHANGED <<id_ipc_next, jobs, given, result, sem, entries_push, entries_wait, pe_push,
                     pe_wait, srv, pusher, waiter, net, id, wid, latest>>,
         \/ ctl = "free" /\ UNCHANGED <<ctl, flag_srv>>
         \/ ctl = "waiting" /\ flag_srv = TRUE /\ ctl' = "free" /\ flag_srv' = FALSE
  PROVE  ServiceInv'
<1>1. ServiceTypes /\ Numbers BY DEF ServiceInv
<1>2. ServiceTypes' BY <1>1 DEF ServiceTypes
<1>3. Up' = Up BY DEF Up
<1>4. Numbers' BY <1>1, <1>3 DEF Numbers
<1>5. Renewal'
  <2>1. latest # 0 => AllStarted'
    BY DEF ServiceInv, Renewal, AllStarted
  <2>2. CASE ctl = "free" BY <2>1, <2>2 DEF ServiceInv, Renewal, OnlyJob
  <2>3. CASE ctl = "waiting"
    <3>1. jobs = <<>> /\ srv # "load" /\ net = wid BY <2>3 DEF ServiceInv, Renewal, OnlyJob
    <3> QED BY <2>1, <2>3, <3>1 DEF ServiceInv, Renewal
  <2> QED BY <2>2, <2>3
<1>6. OnePlace'
  <2>1. PICK p \in [Engines -> Places] : Placed(p) BY DEF ServiceInv, OnePlace
  <2>2. Frame(at, id, count, p, at', id', count', p) BY DEF Frame
  <2>3. JobsHeld(jobs', given', at', id', count', p) BY <2>1, <2>2, JobsFrame DEF Placed
  <2>4. QueuesHeld(entries_push', pe_push', entries_wait', pe_wait', at', id', count', p)
    BY <2>1, <2>2, QueuesFrame DEF Placed
  <2>5. SemHeld(sem', result', wid', at', id', count', p)
    BY <2>1 DEF Placed, SemHeld, AnswerOf
  <2> QED BY <2>1, <2>3, <2>4, <2>5 DEF OnePlace, Placed
<1> QED BY <1>2, <1>4, <1>5, <1>6 DEF ServiceInv, Batches, EachOnce

\* The search ends.
LEMMA BestMoveKeeps ==
  ASSUME ServiceInv, NEW e \in Engines, BestMove(e)
  PROVE  ServiceInv'
<1>1. /\ at[e] = "search" /\ at' = [at EXCEPT ![e] = "moved"]
      /\ UNCHANGED <<id_ipc_next, jobs, given, result, sem, entries_push, entries_wait, pe_push,
                     pe_wait, srv, pusher, waiter, net, flag_srv, id, count, ctl, wid, latest,
                     thinking>>
  BY DEF BestMove, EngineAt, shm, queues, workers, manager
<1>2. ServiceTypes /\ Numbers BY DEF ServiceInv
<1>3. Goes(e, "moved") BY <1>1 DEF Goes, Labels
<1>4. /\ \A f \in Engines : f # e => at'[f] = at[f]
      /\ at'[e] = "moved" /\ at' \in [Engines -> Labels]
  BY <1>2, <1>3, GoesOn
<1>5. \A f \in Engines : at'[f] \in {"search", "blocked"} => f \in thinking'
  BY <1>1, <1>4 DEF ServiceInv, Renewal
<1>6. ctl = "free" BY <1>1 DEF ServiceInv, Renewal
<1>7. count' \in [Engines -> Nat] /\ thinking' \subseteq Engines BY <1>1, <1>2 DEF ServiceTypes
<1> QED BY <1>1, <1>4, <1>5, <1>6, <1>7, OthersKeep

\* A line is read.
LEMMA LineKeeps ==
  ASSUME ServiceInv, NEW e \in Engines, Line(e)
  PROVE  ServiceInv'
<1>1. /\ ctl = "free" /\ at[e] \in {"idle", "moved"}
      /\ \/ /\ at' = [at EXCEPT ![e] = "search"] /\ count' = [count EXCEPT ![e] = 0]
            /\ thinking' = thinking \union {e}
         \/ /\ at' = [at EXCEPT ![e] = "stopped"] /\ UNCHANGED count
            /\ thinking' = thinking \ {e}
      /\ UNCHANGED <<id_ipc_next, jobs, given, result, sem, entries_push, entries_wait, pe_push,
                     pe_wait, srv, pusher, waiter, net, flag_srv, id, ctl, wid, latest>>
  BY DEF Line, NotThinking, EngineAt, shm, queues, workers
<1>2. ServiceTypes /\ Numbers BY DEF ServiceInv
<1>3. /\ \A f \in Engines : f # e => at'[f] = at[f] /\ count'[f] = count[f]
      /\ at'[e] \in {"search", "stopped"} /\ (at'[e] = "search" => e \in thinking')
      /\ at' \in [Engines -> Labels] /\ count' \in [Engines -> Nat] /\ thinking' \subseteq Engines
  <2>1. /\ at \in [Engines -> Labels] /\ count \in [Engines -> Nat] /\ thinking \subseteq Engines
        /\ "search" \in Labels /\ "stopped" \in Labels
    BY <1>2 DEF ServiceTypes, Labels
  <2>2. CASE /\ at' = [at EXCEPT ![e] = "search"] /\ count' = [count EXCEPT ![e] = 0]
             /\ thinking' = thinking \union {e}
    BY <2>1, <2>2
  <2>3. CASE /\ at' = [at EXCEPT ![e] = "stopped"] /\ UNCHANGED count
             /\ thinking' = thinking \ {e}
    BY <2>1, <2>3
  <2> QED BY <1>1, <2>2, <2>3
<1>4. \A f \in Engines : at'[f] \in {"search", "blocked"} => f \in thinking'
  <2>1. \A f \in Engines : f # e /\ f \in thinking => f \in thinking' BY <1>1
  <2> QED BY <1>3, <2>1 DEF ServiceInv, Renewal
<1> QED BY <1>1, <1>3, <1>4, OthersKeep

\* Those that stopped go on with the new weight.
LEMMA NNGoKeeps ==
  ASSUME ServiceInv, NNGo
  PROVE  ServiceInv'
<1>1. /\ ctl = "waiting" /\ flag_srv = TRUE /\ flag_srv' = FALSE /\ ctl' = "free"
      /\ thinking' = {e \in Engines : at[e] = "stopped"}
      /\ at' = [e \in Engines |-> IF at[e] = "stopped" THEN "search" ELSE at[e]]
      /\ count' = [e \in Engines |-> IF at[e] = "stopped" THEN 0 ELSE count[e]]
      /\ UNCHANGED <<id_ipc_next, jobs, given, result, sem, entries_push, entries_wait, pe_push,
                     pe_wait, srv, pusher, waiter, net, id, wid, latest>>
  <2>1. flag_srv = TRUE BY DEF NNGo, ServiceInv, ServiceTypes
  <2> QED BY <2>1 DEF NNGo, Resume, shm, queues, workers
<1>2. ServiceTypes /\ Numbers BY DEF ServiceInv
<1>3. /\ at' \in [Engines -> Labels] /\ count' \in [Engines -> Nat] /\ thinking' \subseteq Engines
  BY <1>1, <1>2 DEF ServiceTypes, Labels
<1>4. \A e \in Engines : at[e] \notin {"search", "blocked"}
  BY <1>1 DEF ServiceInv, Renewal
<1> QED BY <1>1, <1>3, <1>4, OthersKeep

----------------------------------------------------------------------------
(* The steps of the manager, and what worker_srv does for it.                    *)

\* The engines have registered, or there is no newer weight: ~LateBoot.
LEMMA NewWghtKeeps ==
  ASSUME ServiceInv, ~LateBoot, NewWght
  PROVE  ServiceInv'
<1>1. /\ latest' = latest + 1 /\ ctl = "free" /\ AllStarted
      /\ UNCHANGED <<id_ipc_next, jobs, given, result, sem, entries_push, entries_wait, pe_push,
                     pe_wait, srv, pusher, waiter, net, flag_srv, at, id, count, ctl, wid,
                     thinking>>
  BY DEF NewWght, AllStarted, shm, queues, workers, engine
<1>2. ServiceTypes' BY <1>1 DEF ServiceInv, ServiceTypes
<1>3. wid <= latest' BY <1>1 DEF ServiceInv, ServiceTypes, Renewal
<1>4. Renewal' BY <1>1, <1>3 DEF ServiceInv, Renewal, AllStarted
<1>5. OnePlace' BY <1>1 DEF ServiceInv, OnePlace, Placed, Ids
<1> QED BY <1>1, <1>2, <1>4, <1>5 DEF ServiceInv, Numbers, Up, Ids, Batches, EachOnce

\* With nobody at work there is no request anywhere.
LEMMA NoRequests ==
  ASSUME ServiceInv, AllStarted, thinking = {}
  PROVE  /\ \A n \in 1 .. Len(jobs) : jobs[n].type \notin {"Register", "FeedForward"}
         /\ entries_push = <<>> /\ pe_push = <<>> /\ entries_wait = <<>> /\ pe_wait = <<>>
         /\ \A i \in Ids : sem[i] = 0
<1>1. \A e \in Engines : at[e] \notin {"registering", "blocked"}
  BY DEF ServiceInv, Renewal, AllStarted
<1>2. PICK p \in [Engines -> Places] : Placed(p) BY DEF ServiceInv, OnePlace
<1>3. \A n \in 1 .. Len(jobs) : jobs[n].type \notin {"Register", "FeedForward"}
  BY <1>1, <1>2 DEF Placed, JobsHeld, Registers, Asks
<1>4. ASSUME NEW S, NEW b \in Seq(S), NEW s, Held(b, s, at, id, count, p) PROVE b = <<>>
  <2>1. Len(b) \in Nat OBVIOUS
  <2>2. \A k \in 1 .. Len(b) : FALSE BY <1>1, <1>4 DEF Held
  <2>3. Len(b) = 0 BY <2>1, <2>2
  <2> QED BY <2>3
<1>5. pe_push = <<>> /\ pe_wait = <<>>
  BY <1>2, <1>4 DEF Placed, QueuesHeld, ServiceInv, ServiceTypes
<1>6. ASSUME NEW S, NEW q \in Seq(Seq(S)), NEW s, AllHeld(q, s, at, id, count, p),
             \A n \in 1 .. Len(q) : q[n] # <<>>
      PROVE  q = <<>>
  <2>1. Len(q) \in Nat /\ \A n \in 1 .. Len(q) : q[n] \in Seq(S) OBVIOUS
  <2>2. \A n \in 1 .. Len(q) : FALSE BY <1>4, <1>6, <2>1 DEF AllHeld
  <2>3. Len(q) = 0 BY <2>1, <2>2
  <2> QED BY <2>3
<1>7. entries_push = <<>>
  <2>1. entries_push \in Seq(Seq(Left)) /\ AllHeld(entries_push, "push", at, id, count, p)
    BY <1>2 DEF Placed, QueuesHeld, ServiceInv, ServiceTypes
  <2> QED BY <1>6, <2>1 DEF ServiceInv, Batches
<1>8. entries_wait = <<>>
  <2>1. entries_wait \in Seq(Seq(Results)) /\ AllHeld(entries_wait, "device", at, id, count, p)
    BY <1>2 DEF Placed, QueuesHeld, ServiceInv, ServiceTypes
  <2> QED BY <1>6, <2>1 DEF ServiceInv, Batches
<1>9. \A i \in Ids : sem[i] = 0
  BY <1>1, <1>2 DEF Placed, SemHeld, AnswerOf, ServiceInv, ServiceTypes
<1> QED BY <1>3, <1>5, <1>7, <1>8, <1>9

\* Steps that leave the service without requests: only its job, the flag and the
\* network change.
LEMMA RenewalKeeps ==
  ASSUME ServiceInv, AllStarted, thinking = {},
         jobs' \in {<<>>, <<Job("NNReset", NoId)>>, <<Job("NOP", NoId)>>},
         id_ipc_next' \in Nat, wid' \in Nat, net' \in Int, flag_srv' \in BOOLEAN,
         srv' \in {"take", "notify", "load"}, ctl' \in {"free", "resetting", "waiting"},
         UNCHANGED <<given, result, sem, entries_push, entries_wait, pe_push, pe_wait, pusher,
                     waiter, at, id, count, latest, thinking>>
  PROVE  ServiceTypes' /\ Numbers' /\ Batches' /\ EachOnce' /\ OnePlace'
<1>1. /\ entries_push = <<>> /\ pe_push = <<>> /\ entries_wait = <<>> /\ pe_wait = <<>>
      /\ \A i \in Ids : sem[i] = 0
  BY NoRequests
<1>2. /\ jobs' \in Seq(Jobs) /\ Len(jobs') \in {0, 1}
      /\ \A n \in 1 .. Len(jobs') : jobs'[n].type \in {"NNReset", "NOP"}
  <2>1. \A t \in {"NNReset", "NOP"} : Job(t, NoId) \in Jobs /\ Job(t, NoId).type = t
    BY DEF Job, Jobs, Types
  <2>2. CASE jobs' = <<>> BY <2>2
  <2>3. ASSUME NEW t \in {"NNReset", "NOP"}, jobs' = <<Job(t, NoId)>>
        PROVE  /\ jobs' \in Seq(Jobs) /\ Len(jobs') \in {0, 1}
               /\ \A n \in 1 .. Len(jobs') : jobs'[n].type \in {"NNReset", "NOP"}
    <3> DEFINE j == Job(t, NoId)
    <3>1. j \in Jobs /\ j.type = t BY <2>1
    <3>2. jobs' = <<j>> BY <2>3
    <3> HIDE DEF j
    <3> QED BY <3>1, <3>2
  <2> QED BY <2>2, <2>3
<1>3. ServiceTypes' BY <1>2 DEF ServiceInv, ServiceTypes
<1>4. Numbers'
  <2>1. Up = Engines BY DEF AllStarted, Up
  <2> QED BY <2>1 DEF ServiceInv, Numbers, Up
<1>5. EachOnce' BY <1>1 DEF ServiceInv, EachOnce, Weighed
<1>6. OnePlace'
  <2>1. PICK p \in [Engines -> Places] : Placed(p) BY DEF ServiceInv, OnePlace
  <2>2. JobsHeld(jobs', given', at', id', count', p)
    <3>1. \A m, n \in 1 .. Len(jobs') : m = n BY <1>2
    <3> QED BY <1>2, <3>1 DEF JobsHeld
  <2>3. SemHeld(sem', result', wid', at', id', count', p) BY <1>1 DEF SemHeld
  <2>4. QueuesHeld(entries_push', pe_push', entries_wait', pe_wait', at', id', count', p)
    BY <2>1 DEF Placed
  <2> QED BY <2>1, <2>2, <2>3, <2>4 DEF OnePlace, Placed
<1> QED BY <1>3, <1>4, <1>5, <1>6 DEF ServiceInv, Batches

\* nnreset(): the jobs are empty but for the reset.
LEMMA NNResetKeeps ==
  ASSUME ServiceInv, NNReset
  PROVE  ServiceInv'
<1>1. /\ ctl = "free" /\ wid # latest /\ thinking = {} /\ wid' = latest
      /\ jobs' = Append(jobs, Job("NNReset", NoId)) /\ ctl' = "resetting"
      /\ UNCHANGED <<id_ipc_next, given, result, sem, entries_push, entries_wait, pe_push,
                     pe_wait, srv, pusher, waiter, net, flag_srv, at, id, count, latest, thinking>>
  BY DEF NNReset, Quiet, Submit, queues, workers, engine
<1>2. AllStarted /\ latest # 0
  <2>1. latest # 0 BY <1>1 DEF ServiceInv, ServiceTypes, Renewal
  <2> QED BY <2>1 DEF ServiceInv, Renewal
<1>3. jobs = <<>>
  <2>1. \A n \in 1 .. Len(jobs) : FALSE BY <1>1, <1>2, NoRequests DEF ServiceInv, Renewal
  <2>2. jobs \in Seq(Jobs) BY DEF ServiceInv, ServiceTypes
  <2>3. Len(jobs) = 0 BY <2>1, <2>2
  <2> QED BY <2>2, <2>3
<1>4. jobs' = <<Job("NNReset", NoId)>> BY <1>1, <1>3
<1>5. ServiceTypes' /\ Numbers' /\ Batches' /\ EachOnce' /\ OnePlace'
  BY <1>1, <1>2, <1>4, RenewalKeeps DEF ServiceInv, ServiceTypes
<1>6. flag_srv = FALSE /\ srv # "load" BY <1>1 DEF ServiceInv, Renewal
<1>7. OnlyJob("NNReset")'
  <2>1. flag_srv' # TRUE BY <1>1, <1>6
  <2> QED BY <1>4, <2>1 DEF OnlyJob, Job
<1>8. \A e \in Engines : at[e] \notin {"search", "blocked"}
  BY <1>1 DEF ServiceInv, Renewal
<1>9. Renewal'
  BY <1>1, <1>2, <1>6, <1>7, <1>8 DEF ServiceInv, ServiceTypes, Renewal, AllStarted
<1> QED BY <1>5, <1>9 DEF ServiceInv

\* wait(): the flag is down and the job that raises it is sent.
LEMMA NNWaitKeeps ==
  ASSUME ServiceInv, NNWait
  PROVE  ServiceInv'
<1>1. /\ ctl = "resetting" /\ flag_srv = TRUE /\ flag_srv' = FALSE /\ ctl' = "waiting"
      /\ jobs' = Append(jobs, Job("NOP", NoId))
      /\ UNCHANGED <<id_ipc_next, given, result, sem, entries_push, entries_wait, pe_push,
                     pe_wait, srv, pusher, waiter, net, at, id, count, wid, latest, thinking>>
  <2>1. flag_srv = TRUE BY DEF NNWait, ServiceInv, ServiceTypes
  <2> QED BY <2>1 DEF NNWait, Submit, queues, workers, engine
<1>2. /\ AllStarted /\ thinking = {} /\ latest # 0 /\ wid = latest /\ jobs = <<>>
      /\ srv # "load" => net = wid
  BY <1>1 DEF ServiceInv, Renewal, OnlyJob
<1>3. jobs' = <<Job("NOP", NoId)>> BY <1>1, <1>2
<1>4. ServiceTypes' /\ Numbers' /\ Batches' /\ EachOnce' /\ OnePlace'
  BY <1>1, <1>2, <1>3, RenewalKeeps DEF ServiceInv, ServiceTypes
<1>5. Renewal' BY <1>1, <1>2, <1>3 DEF ServiceInv, ServiceTypes, Renewal, AllStarted, OnlyJob, Job
<1> QED BY <1>4, <1>5 DEF ServiceInv

\* Which job there is tells where the manager is.
LEMMA JobTells ==
  ASSUME ServiceInv, jobs # <<>>
  PROVE  /\ Head(jobs).type \in {"Register", "FeedForward"} => ctl = "free"
         /\ Head(jobs).type = "NNReset" =>
              ctl = "resetting" /\ flag_srv = FALSE /\ Tail(jobs) = <<>>
         /\ Head(jobs).type = "NOP" =>
              ctl = "waiting" /\ flag_srv = FALSE /\ Tail(jobs) = <<>>
<1>1. /\ jobs \in Seq(Jobs) /\ ctl \in {"free", "resetting", "waiting"} /\ flag_srv \in BOOLEAN
      /\ Head(jobs) = jobs[1] /\ 1 \in 1 .. Len(jobs)
  <2>1. jobs \in Seq(Jobs) BY DEF ServiceInv, ServiceTypes
  <2> QED BY <2>1, Taken DEF ServiceInv, ServiceTypes
<1>2. CASE ctl = "free" BY <1>1, <1>2 DEF ServiceInv, Renewal
<1>3. CASE ctl = "resetting"
  <2>1. jobs = <<Job("NNReset", NoId)>> /\ flag_srv = FALSE
    BY <1>1, <1>3 DEF ServiceInv, Renewal, OnlyJob
  <2>2. Head(jobs).type = "NNReset" /\ Tail(jobs) = <<>> BY <2>1 DEF Job
  <2> QED BY <1>3, <2>1, <2>2
<1>4. CASE ctl = "waiting"
  <2>1. jobs = <<Job("NOP", NoId)>> /\ flag_srv = FALSE
    BY <1>1, <1>4 DEF ServiceInv, Renewal, OnlyJob
  <2>2. Head(jobs).type = "NOP" /\ Tail(jobs) = <<>> BY <2>1 DEF Job
  <2> QED BY <1>4, <2>1, <2>2
<1> QED BY <1>1, <1>2, <1>3, <1>4

\* The job of wait(): the flag goes up.
LEMMA SrvNOPKeeps ==
  ASSUME ServiceInv, SrvNOP
  PROVE  ServiceInv'
<1>1. /\ srv = "take" /\ jobs # <<>> /\ Head(jobs).type = "NOP" /\ jobs' = Tail(jobs)
      /\ flag_srv' = TRUE
      /\ UNCHANGED <<id_ipc_next, given, result, sem, entries_push, entries_wait, pe_push,
                     pe_wait, srv, pusher, waiter, net, at, id, count, ctl, wid, latest, thinking>>
  BY DEF SrvNOP, Take, queues, workers, engine, manager
<1>2. ctl = "waiting" /\ flag_srv = FALSE /\ jobs' = <<>> BY <1>1, JobTells
<1>3. AllStarted /\ thinking = {} /\ latest # 0 /\ wid = latest /\ net = wid
  BY <1>1, <1>2 DEF ServiceInv, Renewal
<1>4. ServiceTypes' /\ Numbers' /\ Batches' /\ EachOnce' /\ OnePlace'
  BY <1>1, <1>2, <1>3, RenewalKeeps DEF ServiceInv, ServiceTypes
<1>5. Renewal' BY <1>1, <1>2, <1>3 DEF ServiceInv, ServiceTypes, Renewal, AllStarted, OnlyJob
<1> QED BY <1>4, <1>5 DEF ServiceInv

\* The reset finds the service idle.
LEMMA SrvResetKeeps ==
  ASSUME ServiceInv, SrvReset
  PROVE  ServiceInv'
<1>1. srv = "take" /\ jobs # <<>> /\ Head(jobs).type = "NNReset" /\ jobs' = Tail(jobs)
  BY DEF SrvReset, Take
<1>2. ctl = "resetting" /\ flag_srv = FALSE /\ Tail(jobs) = <<>> BY <1>1, JobTells
<1>3. AllStarted /\ thinking = {} /\ latest # 0 /\ wid = latest
  BY <1>2 DEF ServiceInv, Renewal
<1>4. entries_push = <<>> /\ entries_wait = <<>> BY <1>3, NoRequests
<1>5. /\ id_ipc_next' = 0 /\ srv' = "load" /\ flag_srv' = TRUE /\ net' = -1
      /\ UNCHANGED <<given, result, sem, entries_push, entries_wait, pe_push, pe_wait, pusher,
                     waiter, at, id, count, ctl, wid, latest, thinking>>
  BY <1>1, <1>2, <1>4 DEF SrvReset, NoWght, queues, engine, manager
<1>6. ServiceTypes' /\ Numbers' /\ Batches' /\ EachOnce' /\ OnePlace'
  BY <1>1, <1>2, <1>3, <1>5, RenewalKeeps DEF ServiceInv, ServiceTypes
<1>7. Renewal'
  BY <1>1, <1>2, <1>3, <1>5 DEF ServiceInv, ServiceTypes, Renewal, AllStarted, OnlyJob
<1> QED BY <1>6, <1>7 DEF ServiceInv

\* The network loads the weight of the games.
LEMMA SrvLoadKeeps ==
  ASSUME ServiceInv, SrvLoad
  PROVE  ServiceInv'
<1>1. /\ srv = "load" /\ net' = latest /\ srv' = "take"
      /\ UNCHANGED <<id_ipc_next, jobs, given, result, sem, entries_push, entries_wait, pe_push,
                     pe_wait, pusher, waiter, flag_srv, at, id, count, ctl, wid, latest, thinking>>
  BY DEF SrvLoad, shm, queues, engine, manager
<1>2. ctl # "free" /\ AllStarted /\ thinking = {} /\ latest # 0 /\ wid = latest
  BY <1>1 DEF ServiceInv, ServiceTypes, Renewal
<1>3. jobs' \in {<<>>, <<Job("NNReset", NoId)>>, <<Job("NOP", NoId)>>}
  BY <1>1, <1>2 DEF ServiceInv, ServiceTypes, Renewal, OnlyJob
<1>4. ServiceTypes' /\ Numbers' /\ Batches' /\ EachOnce' /\ OnePlace'
  BY <1>1, <1>2, <1>3, RenewalKeeps DEF ServiceInv, ServiceTypes
<1>5. Renewal' BY <1>1, <1>2 DEF ServiceInv, ServiceTypes, Renewal, AllStarted, OnlyJob
<1> QED BY <1>4, <1>5 DEF ServiceInv

----------------------------------------------------------------------------
(* The requests go their way.                                                    *)

\* What a step of the service that is not about a new weight leaves as it is.
LEMMA FlowKeeps ==
  ASSUME ServiceInv,
         UNCHANGED <<id_ipc_next, net, flag_srv, at, id, count, ctl, wid, latest, thinking>>,
         \/ jobs' = jobs
         \/ ctl = "free" /\ jobs # <<>> /\ jobs' = Tail(jobs),
         srv' = srv \/ (srv # "load" /\ srv' \in {"take", "notify"})
  PROVE  Numbers' /\ Renewal'
<1>1. Numbers' BY DEF ServiceInv, Numbers, Up, Ids
<1>2. ctl' = "free" => \A n \in 1 .. Len(jobs') : jobs'[n].type \in {"Register", "FeedForward"}
  <2>1. CASE jobs' = jobs BY <2>1 DEF ServiceInv, Renewal
  <2>2. CASE ctl = "free" /\ jobs # <<>> /\ jobs' = Tail(jobs)
    <3>1. jobs \in Seq(Jobs) BY DEF ServiceInv, ServiceTypes
    <3>2. \A n \in 1 .. Len(jobs') : jobs'[n] = jobs[n + 1] /\ n + 1 \in 1 .. Len(jobs)
      BY <2>2, <3>1, Taken
    <3> QED BY <2>2, <3>2 DEF ServiceInv, Renewal
  <2> QED BY <2>1, <2>2
<1>3. CASE ctl = "free" BY <1>1, <1>2, <1>3 DEF ServiceInv, Renewal, AllStarted
<1>4. CASE ctl # "free" BY <1>1, <1>4 DEF ServiceInv, Renewal, AllStarted, OnlyJob
<1> QED BY <1>1, <1>3, <1>4

\* Steps of the threads that move no request.
LEMMA ThreadsKeep ==
  ASSUME ServiceInv,
         UNCHANGED <<id_ipc_next, jobs, given, result, sem, entries_push, entries_wait, pe_push,
                     pe_wait, net, flag_srv, at, id, count, ctl, wid, latest, thinking>>,
         srv' = srv \/ (srv # "load" /\ srv' \in {"take", "notify"}),
         pusher' \in {"check", "asleep", "push", "notify"}, pusher' = "push" <=> pusher = "push",
         waiter' \in {"check", "asleep", "wait", "notify"}, waiter' # "wait" => pe_wait = <<>>
  PROVE  ServiceInv'
<1>1. Numbers' /\ Renewal' BY FlowKeeps
<1>2. ServiceTypes' BY DEF ServiceInv, ServiceTypes
<1>3. OnePlace' BY DEF ServiceInv, OnePlace, Placed, Ids
<1> QED BY <1>1, <1>2, <1>3 DEF ServiceInv, Batches, EachOnce

\* Notifications and spurious wakeups.
LEMMA NotifyKeeps ==
  ASSUME ServiceInv, SrvNotify \/ PushNotify \/ WaitPool \/ WaitNotify \/ SpuriousWakeup
                     \/ UNCHANGED vars
  PROVE  ServiceInv'
<1>1. /\ pusher \in {"check", "asleep", "push", "notify"}
      /\ waiter \in {"check", "asleep", "wait", "notify"}
      /\ waiter # "wait" => pe_wait = <<>>
  BY DEF ServiceInv, ServiceTypes, Batches
<1>2. CASE SrvNotify
  BY <1>1, <1>2, ThreadsKeep DEF SrvNotify, Woken, shm, queues, engine, manager
<1>3. CASE PushNotify
  BY <1>1, <1>3, ThreadsKeep DEF PushNotify, Woken, shm, queues, engine, manager
<1>4. CASE WaitPool
  BY <1>1, <1>4, ThreadsKeep DEF WaitPool, shm, queues, engine, manager
<1>5. CASE WaitNotify
  BY <1>1, <1>5, ThreadsKeep DEF WaitNotify, Woken, shm, queues, engine, manager
<1>6. CASE SpuriousWakeup
  BY <1>1, <1>6, ThreadsKeep DEF SpuriousWakeup, Woken, shm, queues, engine, manager
<1>7. CASE UNCHANGED vars
  BY <1>1, <1>7, ThreadsKeep DEF vars, shm, queues, workers, engine, manager
<1> QED BY <1>2, <1>3, <1>4, <1>5, <1>6, <1>7

\* What a move of some requests does to the places of the others.
LEMMA MovedFits ==
  ASSUME NEW p \in [Engines -> Places], NEW d, NEW ids, NEW from, NEW to \in Places
  PROVE  Moved(p, d, ids, from, to) \in [Engines -> Places]
  BY DEF Moved

\* The requests of a queue that do not move.
LEMMA AllHeldStays ==
  ASSUME NEW q, NEW a, NEW d, NEW c, NEW p, NEW from, NEW to, NEW ids, NEW s,
         AllHeld(q, s, a, d, c, p),
         s # from \/ \A n \in 1 .. Len(q) : IdsIn(q[n]) \cap ids = {}
  PROVE  AllHeld(q, s, a, d, c, Moved(p, d, ids, from, to))
  BY HeldStays DEF AllHeld

\* The requests among the jobs that do not move.
LEMMA JobsStay ==
  ASSUME NEW j, NEW g, NEW a, NEW d, NEW c, NEW p, NEW from, NEW to, NEW ids,
         JobsHeld(j, g, a, d, c, p),
         from # "job" \/ \A n \in 1 .. Len(j) : j[n].id \notin ids
  PROVE  JobsHeld(j, g, a, d, c, Moved(p, d, ids, from, to))
<1>1. \A n \in 1 .. Len(j) : Registers(j[n].id, a, d, p) =>
        Registers(j[n].id, a, d, Moved(p, d, ids, from, to))
  BY DEF Registers, Moved
<1>2. \A n \in 1 .. Len(j) : Asks(j[n].id, g, a, d, c, p) =>
        Asks(j[n].id, g, a, d, c, Moved(p, d, ids, from, to))
  BY DEF Asks, Moved
<1> QED BY <1>1, <1>2 DEF JobsHeld

\* The answers stay when other requests move.
LEMMA SemStays ==
  ASSUME NEW s, NEW r, NEW w, NEW a, NEW d, NEW c, NEW p, NEW from, NEW to, NEW ids,
         SemHeld(s, r, w, a, d, c, p), from # "sem"
  PROVE  SemHeld(s, r, w, a, d, c, Moved(p, d, ids, from, to))
<1>1. \A i \in Ids : AnswerOf(i, r, w, a, d, c, p) =>
        AnswerOf(i, r, w, a, d, c, Moved(p, d, ids, from, to))
  BY DEF AnswerOf, Moved
<1> QED BY <1>1 DEF SemHeld

\* The jobs without the first: no other is of its number.
LEMMA JobsTaken ==
  ASSUME NEW j \in Seq(Jobs), j # <<>>, NEW g, NEW a, NEW d, NEW c, NEW p,
         JobsHeld(j, g, a, d, c, p)
  PROVE  /\ JobsHeld(Tail(j), g, a, d, c, p)
         /\ Head(j).id # NoId => \A n \in 1 .. Len(Tail(j)) : Tail(j)[n].id # Head(j).id
<1> DEFINE t == Tail(j)
<1>1. /\ Len(t) = Len(j) - 1 /\ Len(j) \in Nat /\ Len(j) > 0 /\ Head(j) = j[1]
      /\ \A i \in 1 .. Len(t) : t[i] = j[i + 1] /\ i + 1 \in 1 .. Len(j)
      /\ 1 \in 1 .. Len(j)
  BY Taken
<1> HIDE DEF t
<1>2. ASSUME NEW m \in 1 .. Len(t), NEW n \in 1 .. Len(t), t[m].id = t[n].id, t[m].id # NoId
      PROVE  m = n
  <2>1. m + 1 = n + 1 BY <1>1, <1>2 DEF JobsHeld
  <2> QED BY <2>1
<1>3. ASSUME NEW n \in 1 .. Len(t), t[n].id = j[1].id, j[1].id # NoId PROVE FALSE
  <2>1. n + 1 = 1 BY <1>1, <1>3 DEF JobsHeld
  <2> QED BY <2>1
<1>4. JobsHeld(t, g, a, d, c, p) BY <1>1, <1>2 DEF JobsHeld
<1> QED BY <1>1, <1>3, <1>4 DEF t

\* The semaphore of an engine with a request elsewhere is 0.
LEMMA NoAnswerYet ==
  ASSUME ServiceTypes, Numbers, NEW p, Placed(p), NEW e \in Engines,
         at[e] \in {"registering", "blocked"}, p[e] # "sem"
  PROVE  id[e] \in Ids /\ sem[id[e]] = 0
<1>1. e \in Up /\ id[e] \in Ids BY DEF Up, Numbers
<1>2. sem[id[e]] \in {0, 1} BY <1>1 DEF ServiceTypes
<1>3. sem[id[e]] # 1 BY <1>1, <1>2, Wakes
<1> QED BY <1>1, <1>2, <1>3

\* An engine is told that it is registered.
LEMMA SrvRegisterKeeps ==
  ASSUME ServiceInv, SrvRegister
  PROVE  ServiceInv'
<1> DEFINE i == Head(jobs).id
<1>1. /\ srv = "take" /\ jobs # <<>> /\ Head(jobs).type = "Register" /\ jobs' = Tail(jobs)
      /\ sem' = [sem EXCEPT ![i] = @ + 1]
      /\ UNCHANGED <<id_ipc_next, given, result, entries_push, entries_wait, pe_push, pe_wait,
                     srv, pusher, waiter, net, flag_srv, at, id, count, ctl, wid, latest,
                     thinking>>
  BY DEF SrvRegister, Take, queues, workers, engine, manager
<1>2. ServiceTypes /\ Numbers BY DEF ServiceInv
<1>3. /\ jobs \in Seq(Jobs) /\ Tail(jobs) \in Seq(Jobs)
      /\ Head(jobs) = jobs[1] /\ 1 \in 1 .. Len(jobs)
  <2>1. jobs \in Seq(Jobs) BY <1>2 DEF ServiceTypes
  <2> QED BY <1>1, <2>1, Taken
<1>4. PICK p \in [Engines -> Places] : Placed(p) BY DEF ServiceInv, OnePlace
<1>5. PICK e \in Engines : id[e] = i /\ at[e] = "registering" /\ p[e] = "job"
  BY <1>1, <1>3, <1>4 DEF Placed, JobsHeld, Registers
<1>6. i \in Ids /\ sem[i] = 0
  BY <1>2, <1>4, <1>5, NoAnswerYet
<1>7. sem' \in [Ids -> {0, 1}] /\ \A n \in Ids : n # i => sem'[n] = sem[n]
  BY <1>1, <1>2, <1>6 DEF ServiceTypes
<1>8. ctl = "free" BY <1>1, JobTells
<1>9. Numbers' /\ Renewal' BY <1>1, <1>8, FlowKeeps
<1>10. ServiceTypes' BY <1>1, <1>2, <1>3, <1>7 DEF ServiceTypes
<1>11. OnePlace'
  <2>1. PICK p2 \in [Engines -> Places] : p2 = Moved(p, id, {i}, "job", "sem")
    BY <1>4, MovedFits DEF Places
  <2>2. JobsHeld(jobs', given, at, id, count, p2)
    <3>1. i # NoId BY <1>6, EnginesFinite DEF Ids, NoId
    <3>2. JobsHeld(Tail(jobs), given, at, id, count, p) /\
          \A n \in 1 .. Len(Tail(jobs)) : Tail(jobs)[n].id # i
      BY <1>1, <1>3, <1>4, <3>1, JobsTaken DEF Placed
    <3> QED BY <1>1, <2>1, <3>2, JobsStay
  <2>3. QueuesHeld(entries_push, pe_push, entries_wait, pe_wait, at, id, count, p2)
    BY <1>4, <2>1, HeldStays, AllHeldStays DEF Placed, QueuesHeld
  <2>4. SemHeld(sem', result, wid, at, id, count, p2)
    <3>1. SemHeld(sem, result, wid, at, id, count, p2) BY <1>4, <2>1, SemStays DEF Placed
    <3>2. AnswerOf(i, result, wid, at, id, count, p2)
      BY <1>5, <2>1 DEF AnswerOf, Moved
    <3> QED BY <1>7, <3>1, <3>2 DEF SemHeld
  <2> QED BY <1>1, <2>1, <2>2, <2>3, <2>4 DEF OnePlace, Placed
<1> QED BY <1>1, <1>9, <1>10, <1>11 DEF ServiceInv, Batches, EachOnce

----------------------------------------------------------------------------
(* worker_srv fills a batch.                                                     *)

\* q2 is q with the entry r in a new batch or in one that was there.
Filled(q, q2, r) ==
  /\ q2 \in Seq(Seq(Left))
  /\ \E m \in 1 .. Len(q2), b \in Seq(Left) :
       /\ q2[m] = Append(b, r)
       /\ \A n \in 1 .. Len(q2) : n # m => n \in 1 .. Len(q) /\ q2[n] = q[n]
       /\ b = <<>> \/ (m \in 1 .. Len(q) /\ b = q[m])

\* SrvFeedForward fills a batch in this sense.
LEMMA Fills ==
  ASSUME ServiceTypes, NEW r \in Left
  PROVE  Filled(entries_push, [OpenBatch EXCEPT ![Len(OpenBatch)] = Append(@, r)], r)
<1> DEFINE q == entries_push
           o == OpenBatch
<1>1. q \in Seq(Seq(Left)) /\ Len(q) \in Nat BY DEF ServiceTypes
<1>2. /\ o \in Seq(Seq(Left)) /\ Len(o) \in 1 .. Len(o)
      /\ \A n \in 1 .. Len(o) : n # Len(o) => n \in 1 .. Len(q) /\ o[n] = q[n]
      /\ o[Len(o)] \in Seq(Left)
      /\ o[Len(o)] = <<>> \/ (Len(o) \in 1 .. Len(q) /\ o[Len(o)] = q[Len(o)])
  <2>1. CASE o = Append(q, <<>>)
    <3>1. <<>> \in Seq(Left) OBVIOUS
    <3>2. /\ o \in Seq(Seq(Left)) /\ Len(o) = Len(q) + 1 /\ o[Len(q) + 1] = <<>>
          /\ \A n \in 1 .. Len(q) : o[n] = q[n]
      BY <1>1, <2>1, <3>1, Appended
    <3> HIDE DEF o, q
    <3>3. \A n \in 1 .. Len(o) : n # Len(o) => n \in 1 .. Len(q) BY <1>1, <3>2
    <3> QED BY <1>1, <3>1, <3>2, <3>3
  <2>2. CASE o = q /\ q # <<>>
    <3>1. Len(q) \in 1 .. Len(q) BY <1>1, <2>2
    <3> QED BY <1>1, <2>2, <3>1
  <2> QED BY <2>1, <2>2 DEF OpenBatch
<1> HIDE DEF o, q
<1>3. PICK m \in 1 .. Len(o), b \in Seq(Left) : m = Len(o) /\ b = o[m]
  BY <1>2
<1>4. Append(b, r) \in Seq(Left) BY <1>3, Appended
<1> DEFINE q2 == [o EXCEPT ![m] = Append(b, r)]
<1>5. q2 \in Seq(Seq(Left)) /\ Len(q2) = Len(o) /\ q2[m] = Append(b, r)
      /\ \A n \in 1 .. Len(o) : n # m => q2[n] = o[n]
  BY <1>2, <1>3, <1>4, ExceptSeq
<1>6. q2 = [o EXCEPT ![Len(o)] = Append(@, r)] BY <1>2, <1>3
<1> HIDE DEF q2
<1>7. Filled(q, q2, r) BY <1>2, <1>3, <1>5 DEF Filled
<1> QED BY <1>6, <1>7 DEF o, q

\* No number is twice in the filled queue if the new one was not in it.
LEMMA FilledApart ==
  ASSUME NEW q \in Seq(Seq(Left)), NEW q2, NEW r \in Left, Filled(q, q2, r), Apart(q),
         \A n \in 1 .. Len(q) : r.id \notin IdsIn(q[n]) /\ q[n] # <<>>
  PROVE  Apart(q2) /\ \A n \in 1 .. Len(q2) : q2[n] # <<>>
<1>1. PICK m \in 1 .. Len(q2), b \in Seq(Left) :
        /\ q2[m] = Append(b, r)
        /\ \A n \in 1 .. Len(q2) : n # m => n \in 1 .. Len(q) /\ q2[n] = q[n]
        /\ b = <<>> \/ (m \in 1 .. Len(q) /\ b = q[m])
  BY DEF Filled
<1>2. Distinct(b) /\ r.id \notin IdsIn(b)
  <2>1. CASE b = <<>> BY <2>1 DEF Distinct, IdsIn
  <2>2. CASE m \in 1 .. Len(q) /\ b = q[m] BY <2>2 DEF Apart
  <2> QED BY <1>1, <2>1, <2>2
<1>3. Distinct(q2[m]) /\ IdsIn(q2[m]) = IdsIn(b) \union {r.id} /\ q2[m] # <<>>
  BY <1>1, <1>2, DistinctAppended, Appended
<1>4. ASSUME NEW n \in 1 .. Len(q2), n # m
      PROVE  IdsIn(q2[n]) \cap IdsIn(q2[m]) = {}
  <2>1. n \in 1 .. Len(q) /\ q2[n] = q[n] BY <1>1, <1>4
  <2>2. IdsIn(q[n]) \cap IdsIn(b) = {}
    <3>1. CASE b = <<>> BY <3>1 DEF IdsIn
    <3>2. CASE m \in 1 .. Len(q) /\ b = q[m] BY <1>4, <2>1, <3>2 DEF Apart
    <3> QED BY <1>1, <3>1, <3>2
  <2> QED BY <1>3, <2>1, <2>2
<1>5. \A k, n \in 1 .. Len(q2) : k # n => IdsIn(q2[k]) \cap IdsIn(q2[n]) = {}
  BY <1>1, <1>4 DEF Apart
<1>6. \A n \in 1 .. Len(q2) : Distinct(q2[n]) /\ q2[n] # <<>> BY <1>1, <1>3 DEF Apart
<1> QED BY <1>5, <1>6 DEF Apart

\* The filled queue holds what the queue held, and the new request.
LEMMA FilledHeld ==
  ASSUME NEW q, NEW q2, NEW r \in Left, Filled(q, q2, r), NEW s, NEW a, NEW d, NEW c, NEW p,
         AllHeld(q, s, a, d, c, p),
         NEW e \in Engines, d[e] = r.id, a[e] = "blocked", r.what = <<e, c[e]>>, p[e] = s
  PROVE  AllHeld(q2, s, a, d, c, p)
<1>1. PICK m \in 1 .. Len(q2), b \in Seq(Left) :
        /\ q2[m] = Append(b, r)
        /\ \A n \in 1 .. Len(q2) : n # m => n \in 1 .. Len(q) /\ q2[n] = q[n]
        /\ b = <<>> \/ (m \in 1 .. Len(q) /\ b = q[m])
  BY DEF Filled
<1>2. Held(b, s, a, d, c, p)
  <2>1. CASE b = <<>> BY <2>1 DEF Held
  <2>2. CASE m \in 1 .. Len(q) /\ b = q[m] BY <2>2 DEF AllHeld
  <2> QED BY <1>1, <2>1, <2>2
<1>3. Held(q2[m], s, a, d, c, p) BY <1>1, <1>2, HeldAppended
<1> QED BY <1>1, <1>3 DEF AllHeld

\* A position goes into a batch as it was left: its engine waits.
LEMMA SrvFeedForwardKeeps ==
  ASSUME ServiceInv, SrvFeedForward
  PROVE  ServiceInv'
<1> DEFINE i == Head(jobs).id
           r == [id |-> i, what |-> given[i]]
<1>1. /\ srv = "take" /\ jobs # <<>> /\ Head(jobs).type = "FeedForward" /\ jobs' = Tail(jobs)
      /\ entries_push' = [OpenBatch EXCEPT ![Len(OpenBatch)] = Append(@, r)]
      /\ srv' \in {"take", "notify"}
      /\ UNCHANGED <<id_ipc_next, given, result, sem, entries_wait, pe_push, pe_wait,
                     pusher, waiter, net, flag_srv, at, id, count, ctl, wid, latest, thinking>>
  BY DEF SrvFeedForward, Take, engine, manager
<1>2. ServiceTypes /\ Numbers BY DEF ServiceInv
<1>3. /\ jobs \in Seq(Jobs) /\ Tail(jobs) \in Seq(Jobs)
      /\ Head(jobs) = jobs[1] /\ 1 \in 1 .. Len(jobs)
  <2>1. jobs \in Seq(Jobs) BY <1>2 DEF ServiceTypes
  <2> QED BY <1>1, <2>1, Taken
<1>4. PICK p \in [Engines -> Places] : Placed(p) BY DEF ServiceInv, OnePlace
<1>5. PICK e \in Engines :
        id[e] = i /\ at[e] = "blocked" /\ given[i] = <<e, count[e]>> /\ p[e] = "job"
  BY <1>1, <1>3, <1>4 DEF Placed, JobsHeld, Asks
<1>6. e \in Up /\ i \in Ids BY <1>2, <1>5 DEF Up, Numbers
<1>7. r \in Left /\ r.id = i /\ r.what = given[i] BY <1>2, <1>6 DEF Left, ServiceTypes
<1>8. Filled(entries_push, entries_push', r) BY <1>1, <1>2, <1>7, Fills
<1> HIDE DEF r
<1>9. ctl = "free" BY <1>1, JobTells
<1>10. Numbers' /\ Renewal' BY <1>1, <1>9, FlowKeeps
<1>11. ServiceTypes' BY <1>1, <1>2, <1>3, <1>8 DEF ServiceTypes, Filled
<1>12. Apart(entries_push') /\ \A n \in 1 .. Len(entries_push') : entries_push'[n] # <<>>
  <2>1. \A n \in 1 .. Len(entries_push) : i \notin IdsIn(entries_push[n])
    BY <1>2, <1>4, <1>5, <1>6, Elsewhere DEF Placed, QueuesHeld, AllHeld
  <2> QED BY <1>2, <1>7, <1>8, <2>1, FilledApart DEF ServiceInv, ServiceTypes, Batches, EachOnce
<1>13. OnePlace'
  <2>1. PICK p2 \in [Engines -> Places] : p2 = Moved(p, id, {i}, "job", "push")
    BY <1>4, MovedFits DEF Places
  <2>2. JobsHeld(jobs', given, at, id, count, p2)
    <3>1. i # NoId BY <1>6, EnginesFinite DEF Ids, NoId
    <3>2. JobsHeld(Tail(jobs), given, at, id, count, p) /\
          \A n \in 1 .. Len(Tail(jobs)) : Tail(jobs)[n].id # i
      BY <1>1, <1>3, <1>4, <3>1, JobsTaken DEF Placed
    <3> QED BY <1>1, <2>1, <3>2, JobsStay
  <2>3. QueuesHeld(entries_push, pe_push, entries_wait, pe_wait, at, id, count, p2)
    BY <1>4, <2>1, HeldStays, AllHeldStays DEF Placed, QueuesHeld
  <2>4. AllHeld(entries_push', "push", at, id, count, p2)
    <3>1. p2[e] = "push" BY <1>5, <2>1 DEF Moved
    <3> QED BY <1>5, <1>7, <1>8, <2>3, <3>1, FilledHeld DEF QueuesHeld
  <2>5. SemHeld(sem, result, wid, at, id, count, p2) BY <1>4, <2>1, SemStays DEF Placed
  <2> QED BY <1>1, <2>1, <2>2, <2>3, <2>4, <2>5 DEF OnePlace, Placed, QueuesHeld
<1> QED BY <1>1, <1>10, <1>11, <1>12, <1>13 DEF ServiceInv, Batches, EachOnce

----------------------------------------------------------------------------
(* worker_push and worker_wait: a batch goes from one place to the next.         *)

\* worker_push takes the first batch, or sleeps.
LEMMA PushCheckKeeps ==
  ASSUME ServiceInv, PushCheck
  PROVE  ServiceInv'
<1>1. /\ pusher = "check"
      /\ UNCHANGED <<id_ipc_next, jobs, given, result, sem, entries_wait, pe_wait, srv, waiter,
                     net, flag_srv, at, id, count, ctl, wid, latest, thinking>>
      /\ \/ /\ entries_push # <<>> /\ pusher' = "push"
            /\ pe_push' = entries_push[1] /\ entries_push' = Tail(entries_push)
         \/ pusher' = "asleep" /\ UNCHANGED <<entries_push, pe_push>>
  BY DEF PushCheck, MayPush, shm, engine, manager
<1>2. CASE UNCHANGED <<entries_push, pe_push>> /\ pusher' = "asleep"
  <2>1. waiter' # "wait" => pe_wait = <<>> BY <1>1 DEF ServiceInv, Batches
  <2> QED BY <1>1, <1>2, <2>1, ThreadsKeep DEF ServiceInv, ServiceTypes
<1>3. CASE /\ entries_push # <<>> /\ pusher' = "push"
           /\ pe_push' = entries_push[1] /\ entries_push' = Tail(entries_push)
  <2> DEFINE b == Head(entries_push)
             ids == IdsIn(b)
  <2>1. entries_push \in Seq(Seq(Left)) BY DEF ServiceInv, ServiceTypes
  <2>2. /\ entries_push' \in Seq(Seq(Left)) /\ b \in Seq(Left) /\ pe_push' = b /\ b # <<>>
        /\ \A n \in 1 .. Len(entries_push') : entries_push'[n] # <<>>
    BY <1>3, <2>1, Taken DEF ServiceInv, Batches
  <2>3. /\ Apart(entries_push') /\ Distinct(b)
        /\ \A n \in 1 .. Len(entries_push') : IdsIn(entries_push'[n]) \cap ids = {}
    BY <1>3, <2>1, ApartTaken DEF ServiceInv, EachOnce
  <2>4. PICK p \in [Engines -> Places] : Placed(p) BY DEF ServiceInv, OnePlace
  <2>5. PICK p2 \in [Engines -> Places] : p2 = Moved(p, id, ids, "push", "pushing")
    BY <2>4, MovedFits DEF Places
  <2>6. AllHeld(entries_push', "push", at, id, count, p) /\ Held(b, "push", at, id, count, p)
    BY <1>3, <2>1, <2>4, AllHeldTaken DEF Placed, QueuesHeld
  <2>7. AllHeld(entries_push', "push", at, id, count, p2) BY <2>3, <2>5, <2>6, AllHeldStays
  <2>8. Held(b, "pushing", at, id, count, p2) BY <2>5, <2>6, HeldMoves
  <2>9. /\ AllHeld(entries_wait, "device", at, id, count, p2)
        /\ Held(pe_wait, "answer", at, id, count, p2)
    BY <2>4, <2>5, HeldStays, AllHeldStays DEF Placed, QueuesHeld
  <2>10. JobsHeld(jobs, given, at, id, count, p2) BY <2>4, <2>5, JobsStay DEF Placed
  <2>11. SemHeld(sem, result, wid, at, id, count, p2) BY <2>4, <2>5, SemStays DEF Placed
  <2>12. OnePlace'
    BY <1>1, <2>2, <2>5, <2>7, <2>8, <2>9, <2>10, <2>11 DEF OnePlace, Placed, QueuesHeld
  <2>13. Numbers' /\ Renewal' BY <1>1, FlowKeeps
  <2>14. ServiceTypes' BY <1>1, <1>3, <2>2 DEF ServiceInv, ServiceTypes
  <2> QED BY <1>1, <1>3, <2>2, <2>3, <2>12, <2>13, <2>14 DEF ServiceInv, Batches, EachOnce
<1> QED BY <1>1, <1>2, <1>3

\* The device has the weight of the games when it is given a batch: somebody waits, so
\* somebody thinks, and there is no reset.
LEMMA WeightIsWid ==
  ASSUME ServiceInv, pe_push # <<>>
  PROVE  net = wid
<1>1. PICK p \in [Engines -> Places] : Placed(p) BY DEF ServiceInv, OnePlace
<1>2. pe_push \in Seq(Left) BY DEF ServiceInv, ServiceTypes
<1>3. 1 \in 1 .. Len(pe_push) BY <1>2, Taken
<1>4. \E e \in Engines : at[e] = "blocked" BY <1>1, <1>3 DEF Placed, QueuesHeld, Held
<1> QED BY <1>4 DEF ServiceInv, Renewal

\* A batch and its evaluation are for the same engines.
LEMMA EvaluatedIs ==
  ASSUME NEW b \in Seq(Left), net \in Int
  PROVE  /\ Evaluated(b) \in Seq(Results) /\ IdsIn(Evaluated(b)) = IdsIn(b)
         /\ (Distinct(b) => Distinct(Evaluated(b))) /\ Weighed(Evaluated(b), net)
         /\ (b # <<>> => Evaluated(b) # <<>>)
         /\ \A s, a, d, c, p : Held(b, s, a, d, c, p) => Held(Evaluated(b), s, a, d, c, p)
<1> DEFINE v == Evaluated(b)
<1>1. Len(b) \in Nat /\ DOMAIN b = 1 .. Len(b) /\ \A n \in 1 .. Len(b) : b[n] \in Left
  OBVIOUS
<1>2. v = [n \in 1 .. Len(b) |-> [id |-> b[n].id, what |-> b[n].what, wght |-> net]]
  BY <1>1 DEF Evaluated
<1>3. \A n \in 1 .. Len(b) : [id |-> b[n].id, what |-> b[n].what, wght |-> net] \in Results
  BY <1>1 DEF Left, Results
<1>4. v \in Seq(Results) /\ Len(v) = Len(b)
  <2>1. v \in [1 .. Len(b) -> Results] BY <1>2, <1>3
  <2> HIDE DEF v
  <2> QED BY <1>1, <2>1
<1>5. \A n \in 1 .. Len(b) : v[n].id = b[n].id /\ v[n].what = b[n].what /\ v[n].wght = net
  BY <1>2
<1> HIDE DEF v
<1>6. IdsIn(v) = IdsIn(b) BY <1>4, <1>5 DEF IdsIn
<1>7. Distinct(b) => Distinct(v) BY <1>4, <1>5 DEF Distinct
<1>8. Weighed(v, net) BY <1>4, <1>5 DEF Weighed
<1>9. b # <<>> => v # <<>>
  <2>1. b # <<>> => Len(b) > 0 BY <1>1
  <2>2. v = <<>> => Len(v) = 0 OBVIOUS
  <2> QED BY <1>4, <2>1, <2>2
<1>10. ASSUME NEW s, NEW a, NEW d, NEW c, NEW p, Held(b, s, a, d, c, p)
       PROVE  Held(v, s, a, d, c, p)
  BY <1>4, <1>5, <1>10 DEF Held
<1> QED BY <1>4, <1>6, <1>7, <1>8, <1>9, <1>10 DEF v

\* push_ff()
LEMMA PushToDeviceKeeps ==
  ASSUME ServiceInv, PushToDevice
  PROVE  ServiceInv'
<1> DEFINE v == Evaluated(pe_push)
           ids == IdsIn(pe_push)
<1>1. /\ pusher = "push" /\ entries_wait' = Append(entries_wait, v) /\ pe_push' = <<>>
      /\ pusher' = "notify"
      /\ UNCHANGED <<id_ipc_next, jobs, given, result, sem, entries_push, pe_wait, srv, waiter,
                     net, flag_srv, at, id, count, ctl, wid, latest, thinking>>
  BY DEF PushToDevice, shm, engine, manager
<1>2. ServiceTypes /\ Numbers BY DEF ServiceInv
<1>3. pe_push # <<>> /\ pe_push \in Seq(Left) /\ entries_wait \in Seq(Seq(Results))
  BY <1>1 DEF ServiceInv, ServiceTypes, Batches
<1>4. /\ v \in Seq(Results) /\ IdsIn(v) = ids /\ Distinct(v) /\ Weighed(v, wid) /\ v # <<>>
      /\ \A s, a, d, c, p : Held(pe_push, s, a, d, c, p) => Held(v, s, a, d, c, p)
  <2>1. net \in Int /\ Distinct(pe_push) BY <1>2 DEF ServiceTypes, ServiceInv, EachOnce
  <2> QED BY <1>3, <2>1, WeightIsWid, EvaluatedIs
<1> HIDE DEF v
<1>5. /\ entries_wait' \in Seq(Seq(Results)) /\ Len(entries_wait') = Len(entries_wait) + 1
      /\ Len(entries_wait) \in Nat /\ entries_wait'[Len(entries_wait) + 1] = v
      /\ \A n \in 1 .. Len(entries_wait) : entries_wait'[n] = entries_wait[n]
  BY <1>1, <1>3, <1>4, Appended
<1>6. \A n \in 1 .. Len(entries_wait') : n \in 1 .. Len(entries_wait) \/ n = Len(entries_wait) + 1
  BY <1>5
<1>7. \A n \in 1 .. Len(entries_wait') : entries_wait'[n] # <<>> /\ Weighed(entries_wait'[n], wid)
  BY <1>4, <1>5, <1>6 DEF ServiceInv, Batches, EachOnce
<1>8. PICK p \in [Engines -> Places] : Placed(p) BY DEF ServiceInv, OnePlace
<1>9. ASSUME NEW n \in 1 .. Len(entries_wait) PROVE IdsIn(entries_wait[n]) \cap ids = {}
  <2> SUFFICES ASSUME NEW k \in 1 .. Len(pe_push), pe_push[k].id \in IdsIn(entries_wait[n])
               PROVE  FALSE
    BY DEF IdsIn
  <2>1. PICK e \in Engines : id[e] = pe_push[k].id /\ at[e] = "blocked" /\ p[e] = "pushing"
    BY <1>8 DEF Placed, QueuesHeld, Held
  <2>2. e \in Up BY <2>1 DEF Up
  <2>3. Held(entries_wait[n], "device", at, id, count, p)
    BY <1>8 DEF Placed, QueuesHeld, AllHeld
  <2>4. id[e] \notin IdsIn(entries_wait[n]) BY <1>2, <2>1, <2>2, <2>3, Elsewhere
  <2> QED BY <2>1, <2>4
<1>10. Apart(entries_wait')
  <2>1. Apart(entries_wait) BY DEF ServiceInv, EachOnce
  <2> QED BY <1>1, <1>3, <1>4, <1>9, <2>1, ApartAppended
<1>11. OnePlace'
  <2>1. PICK p2 \in [Engines -> Places] : p2 = Moved(p, id, ids, "pushing", "device")
    BY <1>8, MovedFits DEF Places
  <2>2. Held(v, "device", at, id, count, p2)
    <3>1. Held(pe_push, "device", at, id, count, p2)
      BY <1>8, <2>1, HeldMoves DEF Placed, QueuesHeld
    <3> QED BY <1>4, <3>1
  <2>3. AllHeld(entries_wait, "device", at, id, count, p2)
    BY <1>8, <1>9, <2>1, AllHeldStays DEF Placed, QueuesHeld
  <2>4. AllHeld(entries_wait', "device", at, id, count, p2)
    BY <1>1, <1>3, <1>4, <2>2, <2>3, AllHeldAppended
  <2>5. /\ AllHeld(entries_push, "push", at, id, count, p2)
        /\ Held(pe_wait, "answer", at, id, count, p2)
    BY <1>8, <2>1, HeldStays, AllHeldStays DEF Placed, QueuesHeld
  <2>6. Held(pe_push', "pushing", at, id, count, p2) BY <1>1 DEF Held
  <2>7. JobsHeld(jobs, given, at, id, count, p2) BY <1>8, <2>1, JobsStay DEF Placed
  <2>8. SemHeld(sem, result, wid, at, id, count, p2) BY <1>8, <2>1, SemStays DEF Placed
  <2> QED BY <1>1, <2>1, <2>4, <2>5, <2>6, <2>7, <2>8 DEF OnePlace, Placed, QueuesHeld
<1>12. Numbers' /\ Renewal' BY <1>1, FlowKeeps
<1>13. ServiceTypes' BY <1>1, <1>2, <1>5 DEF ServiceTypes
<1>14. Distinct(pe_push') BY <1>1 DEF Distinct
<1> QED BY <1>1, <1>7, <1>10, <1>11, <1>12, <1>13, <1>14 DEF ServiceInv, Batches, EachOnce

\* worker_wait takes the first batch of the device, or sleeps.
LEMMA WaitCheckKeeps ==
  ASSUME ServiceInv, WaitCheck
  PROVE  ServiceInv'
<1>1. /\ waiter = "check"
      /\ UNCHANGED <<id_ipc_next, jobs, given, result, sem, entries_push, pe_push, srv, pusher,
                     net, flag_srv, at, id, count, ctl, wid, latest, thinking>>
      /\ \/ /\ entries_wait # <<>> /\ waiter' = "wait"
            /\ pe_wait' = entries_wait[1] /\ entries_wait' = Tail(entries_wait)
         \/ waiter' = "asleep" /\ UNCHANGED <<entries_wait, pe_wait>>
  BY DEF WaitCheck, shm, engine, manager
<1>2. CASE UNCHANGED <<entries_wait, pe_wait>> /\ waiter' = "asleep"
  <2>1. pe_wait = <<>> BY <1>1 DEF ServiceInv, Batches
  <2> QED BY <1>1, <1>2, <2>1, ThreadsKeep DEF ServiceInv, ServiceTypes
<1>3. CASE /\ entries_wait # <<>> /\ waiter' = "wait"
           /\ pe_wait' = entries_wait[1] /\ entries_wait' = Tail(entries_wait)
  <2> DEFINE b == Head(entries_wait)
             ids == IdsIn(b)
  <2>1. entries_wait \in Seq(Seq(Results)) BY DEF ServiceInv, ServiceTypes
  <2>2. /\ entries_wait' \in Seq(Seq(Results)) /\ b \in Seq(Results) /\ pe_wait' = b
        /\ \A n \in 1 .. Len(entries_wait') : entries_wait'[n] # <<>>
        /\ \A n \in 1 .. Len(entries_wait') : Weighed(entries_wait'[n], wid)
        /\ Weighed(b, wid)
    BY <1>3, <2>1, Taken DEF ServiceInv, Batches, EachOnce
  <2>3. /\ Apart(entries_wait') /\ Distinct(b)
        /\ \A n \in 1 .. Len(entries_wait') : IdsIn(entries_wait'[n]) \cap ids = {}
    BY <1>3, <2>1, ApartTaken DEF ServiceInv, EachOnce
  <2>4. PICK p \in [Engines -> Places] : Placed(p) BY DEF ServiceInv, OnePlace
  <2>5. PICK p2 \in [Engines -> Places] : p2 = Moved(p, id, ids, "device", "answer")
    BY <2>4, MovedFits DEF Places
  <2>6. AllHeld(entries_wait', "device", at, id, count, p) /\ Held(b, "device", at, id, count, p)
    BY <1>3, <2>1, <2>4, AllHeldTaken DEF Placed, QueuesHeld
  <2>7. AllHeld(entries_wait', "device", at, id, count, p2) BY <2>3, <2>5, <2>6, AllHeldStays
  <2>8. Held(b, "answer", at, id, count, p2) BY <2>5, <2>6, HeldMoves
  <2>9. /\ AllHeld(entries_push, "push", at, id, count, p2)
        /\ Held(pe_push, "pushing", at, id, count, p2)
    BY <2>4, <2>5, HeldStays, AllHeldStays DEF Placed, QueuesHeld
  <2>10. JobsHeld(jobs, given, at, id, count, p2) BY <2>4, <2>5, JobsStay DEF Placed
  <2>11. SemHeld(sem, result, wid, at, id, count, p2) BY <2>4, <2>5, SemStays DEF Placed
  <2>12. OnePlace'
    BY <1>1, <2>2, <2>5, <2>7, <2>8, <2>9, <2>10, <2>11 DEF OnePlace, Placed, QueuesHeld
  <2>13. Numbers' /\ Renewal' BY <1>1, FlowKeeps
  <2>14. ServiceTypes' BY <1>1, <1>3, <2>2 DEF ServiceInv, ServiceTypes
  <2> QED BY <1>1, <1>3, <2>2, <2>3, <2>12, <2>13, <2>14 DEF ServiceInv, Batches, EachOnce
<1> QED BY <1>1, <1>2, <1>3

\* wait_ff(): one result goes to the engine that left the position.
LEMMA WaitAnswerKeeps ==
  ASSUME ServiceInv, WaitAnswer
  PROVE  ServiceInv'
<1> DEFINE r == Head(pe_wait)
           i == r.id
           x == [what |-> r.what, wght |-> r.wght]
<1>1. /\ waiter = "wait" /\ pe_wait # <<>> /\ pe_wait' = Tail(pe_wait)
      /\ result' = [result EXCEPT ![i] = x] /\ sem' = [sem EXCEPT ![i] = @ + 1]
      /\ UNCHANGED <<id_ipc_next, jobs, given, entries_push, entries_wait, pe_push, srv, pusher,
                     waiter, net, flag_srv, at, id, count, ctl, wid, latest, thinking>>
  BY DEF WaitAnswer, workers, engine, manager
<1>2. ServiceTypes /\ Numbers BY DEF ServiceInv
<1>3. pe_wait \in Seq(Results) BY <1>2 DEF ServiceTypes
<1>4. PICK p \in [Engines -> Places] : Placed(p) BY DEF ServiceInv, OnePlace
<1>5. /\ pe_wait' \in Seq(Results) /\ r \in Results /\ r.wght = wid /\ Weighed(pe_wait', wid)
  BY <1>1, <1>3, Taken DEF ServiceInv, EachOnce, Weighed
<1>6. Distinct(pe_wait') /\ i \notin IdsIn(pe_wait')
  BY <1>1, <1>3, DistinctTaken DEF ServiceInv, EachOnce
<1>7. Held(pe_wait', "answer", at, id, count, p) /\ Owned(r, "answer", at, id, count, p)
  <2>1. Held(pe_wait, "answer", at, id, count, p) BY <1>4 DEF Placed, QueuesHeld
  <2>2. Held(Tail(pe_wait), "answer", at, id, count, p) /\ Owned(r, "answer", at, id, count, p)
    BY <1>1, <1>3, <2>1, HeldTaken
  <2> QED BY <1>1, <2>2
<1>8. PICK e \in Engines :
        id[e] = i /\ at[e] = "blocked" /\ r.what = <<e, count[e]>> /\ p[e] = "answer"
  BY <1>7 DEF Owned
<1>9. i \in Ids /\ sem[i] = 0 BY <1>2, <1>4, <1>8, NoAnswerYet
<1>10. x \in [what : Positions, wght : Int] /\ x.what = r.what /\ x.wght = wid
  BY <1>5 DEF Results
<1> HIDE DEF x
<1>11. /\ sem' \in [Ids -> {0, 1}] /\ \A n \in Ids : n # i => sem'[n] = sem[n]
       /\ result' \in [Ids -> [what : Positions, wght : Int]] /\ result'[i] = x
       /\ \A n \in Ids : n # i => result'[n] = result[n]
  BY <1>1, <1>2, <1>9, <1>10 DEF ServiceTypes
<1>12. ServiceTypes' BY <1>1, <1>2, <1>5, <1>11 DEF ServiceTypes
<1>13. Numbers' /\ Renewal' BY <1>1, FlowKeeps
<1>14. OnePlace'
  <2>1. PICK p2 \in [Engines -> Places] : p2 = Moved(p, id, {i}, "answer", "sem")
    BY <1>4, MovedFits DEF Places
  <2>2. Held(pe_wait', "answer", at, id, count, p2) BY <1>6, <1>7, <2>1, HeldStays
  <2>3. /\ AllHeld(entries_push, "push", at, id, count, p2)
        /\ Held(pe_push, "pushing", at, id, count, p2)
        /\ AllHeld(entries_wait, "device", at, id, count, p2)
    BY <1>4, <2>1, HeldStays, AllHeldStays DEF Placed, QueuesHeld
  <2>4. JobsHeld(jobs, given, at, id, count, p2) BY <1>4, <2>1, JobsStay DEF Placed
  <2>5. SemHeld(sem', result', wid, at, id, count, p2)
    <3>1. SemHeld(sem, result, wid, at, id, count, p2) BY <1>4, <2>1, SemStays DEF Placed
    <3>2. AnswerOf(i, result', wid, at, id, count, p2)
      <4>1. p2[e] = "sem" BY <1>8, <2>1 DEF Moved
      <4> QED BY <1>8, <1>10, <1>11, <4>1 DEF AnswerOf
    <3>3. \A n \in Ids : n # i /\ AnswerOf(n, result, wid, at, id, count, p2) =>
            AnswerOf(n, result', wid, at, id, count, p2)
      BY <1>11 DEF AnswerOf
    <3> QED BY <1>11, <3>1, <3>2, <3>3 DEF SemHeld
  <2> QED BY <1>1, <2>1, <2>2, <2>3, <2>4, <2>5 DEF OnePlace, Placed, QueuesHeld
<1> QED BY <1>1, <1>5, <1>6, <1>12, <1>13, <1>14 DEF ServiceInv, Batches, EachOnce

----------------------------------------------------------------------------
(* The specification.                                                            *)

\* The invariant holds at the start.
LEMMA ServiceStarts == ASSUME Init PROVE ServiceInv
<1>1. ServiceTypes
  <2>1. given \in [Ids -> Positions] BY DEF Init, Positions
  <2>2. result \in [Ids -> [what : Positions, wght : Int]] BY DEF Init, Positions, NoWght
  <2>3. /\ jobs \in Seq(Jobs) /\ entries_push \in Seq(Seq(Left)) /\ pe_push \in Seq(Left)
        /\ entries_wait \in Seq(Seq(Results)) /\ pe_wait \in Seq(Results)
    BY DEF Init
  <2>4. /\ sem \in [Ids -> {0, 1}] /\ at \in [Engines -> Labels]
        /\ id \in [Engines -> Ids \union {NoId}] /\ count \in [Engines -> Nat]
    BY DEF Init, Labels
  <2>5. /\ id_ipc_next \in Nat /\ net \in Int /\ wid \in Nat /\ latest \in Nat
        /\ thinking \subseteq Engines /\ srv = "take" /\ pusher = "check" /\ waiter = "check"
        /\ ctl = "free"
    BY DEF Init
  <2>6. flag_srv \in BOOLEAN BY DEF Init
  <2> QED BY <2>1, <2>2, <2>3, <2>4, <2>5, <2>6 DEF ServiceTypes
<1>2. Up = {} BY DEF Init, Up
<1>3. Numbers BY <1>2, FS_EmptySet DEF Init, Numbers
<1>4. Batches BY DEF Init, Batches
<1>5. Renewal BY DEF Init, Renewal, OnlyJob
<1>6. EachOnce BY DEF Init, EachOnce, Apart, Distinct, Weighed
<1>7. OnePlace
  <2>1. PICK p \in [Engines -> Places] : p = [e \in Engines |-> "job"] BY DEF Places
  <2>2. JobsHeld(jobs, given, at, id, count, p) BY DEF Init, JobsHeld
  <2>3. QueuesHeld(entries_push, pe_push, entries_wait, pe_wait, at, id, count, p)
    BY DEF Init, QueuesHeld, AllHeld, Held
  <2>4. SemHeld(sem, result, wid, at, id, count, p) BY DEF Init, SemHeld
  <2> QED BY <2>1, <2>2, <2>3, <2>4 DEF OnePlace, Placed
<1> QED BY <1>1, <1>3, <1>4, <1>5, <1>6, <1>7 DEF ServiceInv

\* Every step keeps the invariant.
LEMMA ServiceKeeps == ASSUME ~LateBoot, ServiceInv, [Next]_vars PROVE ServiceInv'
<1>1. ASSUME NEW e \in Engines, EngineStep(e) PROVE ServiceInv'
  BY <1>1, TakeIdKeeps, RegisterKeeps, RegisteredKeeps, SubmitBlockKeeps, AnsweredKeeps,
     BestMoveKeeps DEF EngineStep
<1>2. ASSUME NEW e \in Engines, Line(e) PROVE ServiceInv' BY <1>2, LineKeeps
<1>3. CASE SrvStep
  BY <1>3, SrvRegisterKeeps, SrvNOPKeeps, SrvFeedForwardKeeps, NotifyKeeps, SrvResetKeeps,
     SrvLoadKeeps DEF SrvStep
<1>4. CASE PushStep BY <1>4, PushCheckKeeps, PushToDeviceKeeps, NotifyKeeps DEF PushStep
<1>5. CASE WaitStep BY <1>5, WaitCheckKeeps, WaitAnswerKeeps, NotifyKeeps DEF WaitStep
<1>6. CASE SpuriousWakeup \/ UNCHANGED vars BY <1>6, NotifyKeeps
<1>7. CASE NewWght BY <1>7, NewWghtKeeps
<1>8. CASE WghtStep BY <1>8, NNResetKeeps, NNWaitKeeps, NNGoKeeps DEF WghtStep
<1> QED BY <1>1, <1>2, <1>3, <1>4, <1>5, <1>6, <1>7, <1>8 DEF Next

\* The invariant holds in every behaviour in which no new weight comes before the
\* engines have registered.
THEOREM ServiceInvariance == ~LateBoot => (Spec => []ServiceInv)
<1> SUFFICES ASSUME ~LateBoot PROVE Spec => []ServiceInv
  OBVIOUS
<1> QED BY ServiceStarts, ServiceKeeps, PTL DEF Spec

\* The service does not die of its own check that it is idle when it is reset
\* (nnet-srv.cpp:189-199).
THEOREM ResetsFindIdle == ~LateBoot => (Spec => []ResetFindsServiceIdle)
<1> SUFFICES ASSUME ~LateBoot PROVE Spec => []ResetFindsServiceIdle
  OBVIOUS
<1>1. ServiceInv => ResetFindsServiceIdle
  BY DEF ServiceInv, ServiceTypes, ResetFindsServiceIdle
<1> QED BY <1>1, ServiceInvariance, PTL

\* Only its semaphore lets an engine that waits go on, and only with its own result, by
\* the weight of the games.
LEMMA GoesWithItsOwn ==
  ASSUME ServiceInv, [Next]_vars, NEW e \in Engines, at[e] = "blocked", at'[e] = "search"
  PROVE  result[id[e]].what = <<e, count[e]>> /\ result[id[e]].wght = wid
<1>1. ServiceTypes /\ Numbers BY DEF ServiceInv
<1>2. PICK p \in [Engines -> Places] : Placed(p) BY DEF ServiceInv, OnePlace
<1>3. 0 < sem[id[e]] => result[id[e]].what = <<e, count[e]>> /\ result[id[e]].wght = wid
  BY <1>1, <1>2, Wakes
<1>4. at[e] = at'[e] \/ 0 < sem[id[e]]
  <2>1. ASSUME NEW f \in Engines, EngineStep(f) PROVE at[e] = at'[e] \/ 0 < sem[id[e]]
    <3>1. CASE f = e /\ Answered(f) BY <3>1 DEF Answered
    <3>2. CASE f = e /\ ~Answered(f)
      BY <2>1, <3>2 DEF EngineStep, TakeId, Register, Registered, SubmitBlock, BestMove
    <3>3. CASE f # e
      <4>1. \E l : at' = [at EXCEPT ![f] = l]
        BY <2>1 DEF EngineStep, TakeId, Register, Registered, SubmitBlock, Answered, BestMove,
                    EngineAt
      <4> QED BY <1>1, <3>3, <4>1 DEF ServiceTypes
    <3> QED BY <3>1, <3>2, <3>3
  <2>2. ASSUME NEW f \in Engines, Line(f) PROVE at[e] = at'[e]
    BY <1>1, <2>2 DEF Line, EngineAt, ServiceTypes
  <2>3. CASE SrvStep
    BY <2>3 DEF SrvStep, SrvRegister, SrvNOP, SrvFeedForward, SrvNotify, SrvReset, SrvLoad, engine
  <2>4. CASE PushStep BY <2>4 DEF PushStep, PushCheck, PushToDevice, PushNotify, engine
  <2>5. CASE WaitStep
    BY <2>5 DEF WaitStep, WaitCheck, WaitAnswer, WaitPool, WaitNotify, engine
  <2>6. CASE SpuriousWakeup BY <2>6 DEF SpuriousWakeup, engine
  <2>7. CASE NewWght BY <2>7 DEF NewWght, engine
  <2>8. CASE NNReset \/ NNWait BY <2>8 DEF NNReset, NNWait, engine
  <2>9. CASE NNGo BY <2>9 DEF NNGo, Resume
  <2>10. CASE UNCHANGED vars BY <2>10 DEF vars, engine
  <2> QED
    BY <2>1, <2>2, <2>3, <2>4, <2>5, <2>6, <2>7, <2>8, <2>9, <2>10 DEF Next, WghtStep
<1> QED BY <1>3, <1>4

\* What an engine finds is the result for the position it left (nnet-ipc.cpp,
\* submit_block(); nnet-srv.cpp, the three workers).
THEOREM OwnAnswers == ~LateBoot => (Spec => AnswersOwnRequest)
<1> SUFFICES ASSUME ~LateBoot PROVE Spec => AnswersOwnRequest
  OBVIOUS
<1>1. ServiceInv /\ [Next]_vars =>
        [\A e \in Engines : at[e] = "blocked" /\ at'[e] = "search" =>
           result[id[e]].what = <<e, count[e]>>]_vars
  BY GoesWithItsOwn
<1> QED BY <1>1, ServiceInvariance, PTL DEF Spec, AnswersOwnRequest

\* All positions of a search are evaluated by one weight: no reset happens amid a search
\* (PlayManager::manage_play()).
THEOREM OneWght == ~LateBoot => (Spec => OneWghtPerSearch)
<1> SUFFICES ASSUME ~LateBoot PROVE Spec => OneWghtPerSearch
  OBVIOUS
<1>1. ServiceInv /\ [Next]_vars =>
        [\A e \in Engines : at[e] = "blocked" /\ at'[e] = "search" =>
           result[id[e]].wght = wid]_vars
  BY GoesWithItsOwn
<1> QED BY <1>1, ServiceInvariance, PTL DEF Spec, OneWghtPerSearch

----------------------------------------------------------------------------
(* The bounds of the numbers, the batches and the device's queue.                *)

\* worker_push gives a batch to the device while it has no more than MaxWait, and only
\* it gives one; no batch is longer than it may be.
Bounds ==
  /\ id_ipc_next <= Nipc
  /\ \A n \in 1 .. Len(entries_push) : Len(entries_push[n]) <= SizeBatch
  /\ Len(entries_wait) <= MaxWait + 1
  /\ pusher = "push" => Len(entries_wait) <= MaxWait
  /\ net \in {NoWght} \union 0 .. MaxWght /\ latest <= MaxWght
  /\ \A e \in Engines : count[e] <= MaxSubmit

\* The first engines take as many numbers as there are engines.
LEMMA TakeIdInBounds ==
  ASSUME ServiceInv, NEW e \in Engines, TakeId(e)
  PROVE  id_ipc_next' <= Nipc
<1>1. IsFiniteSet(Engines) BY NNetServiceAssumption
<1>2. Up \subseteq Engines /\ e \notin Up BY DEF Up, TakeId
<1>3. Cardinality(Up) < Cardinality(Engines) /\ Cardinality(Engines) \in Nat /\ Cardinality(Up) \in Nat
  BY <1>1, <1>2, FS_Subset, FS_CardinalityType
<1>4. id_ipc_next = Cardinality(Up) BY <1>2 DEF ServiceInv, Numbers
<1> QED BY <1>3, <1>4 DEF TakeId, Nipc

\* A position goes into a batch with room, or into a new one.
LEMMA FillInBounds ==
  ASSUME ServiceInv, Bounds, SrvFeedForward
  PROVE  \A n \in 1 .. Len(entries_push') : Len(entries_push'[n]) <= SizeBatch
<1> DEFINE i == Head(jobs).id
           x == [id |-> i, what |-> given[i]]
           open == OpenBatch
<1>1. /\ entries_push \in Seq(Seq(Left)) /\ SizeBatch \in Nat \ {0}
      /\ \A n \in 1 .. Len(entries_push) : Len(entries_push[n]) <= SizeBatch
  BY NNetServiceAssumption DEF ServiceInv, ServiceTypes, Bounds
<1>2. /\ open \in Seq(Seq(Left)) /\ Len(open) \in 1 .. Len(open)
      /\ \A n \in 1 .. Len(open) : Len(open[n]) <= SizeBatch
      /\ Len(open[Len(open)]) < SizeBatch
  <2>1. CASE entries_push = <<>> \/ LastIsFull(entries_push)
    <3>1. open = Append(entries_push, <<>>) BY <2>1 DEF OpenBatch
    <3>2. <<>> \in Seq(Left) OBVIOUS
    <3>3. /\ open \in Seq(Seq(Left)) /\ Len(open) = Len(entries_push) + 1 /\ Len(entries_push) \in Nat
          /\ \A n \in 1 .. Len(entries_push) : open[n] = entries_push[n]
          /\ open[Len(open)] = <<>>
      BY <1>1, <3>1, <3>2, Appended
    <3>4. Len(<<>>) = 0 OBVIOUS
    <3> HIDE DEF open
    <3>5. Len(open[Len(open)]) < SizeBatch BY <1>1, <3>3, <3>4
    <3>6. ASSUME NEW n \in 1 .. Len(open) PROVE Len(open[n]) <= SizeBatch
      <4>1. n \in 1 .. Len(entries_push) \/ n = Len(open) BY <3>3
      <4>2. CASE n \in 1 .. Len(entries_push)
        <5>1. open[n] = entries_push[n] BY <3>3, <4>2
        <5> QED BY <1>1, <4>2, <5>1
      <4>3. CASE n = Len(open)
        <5>1. Len(open[n]) = 0 BY <3>3, <3>4, <4>3
        <5> QED BY <1>1, <5>1
      <4> QED BY <4>1, <4>2, <4>3
    <3> QED BY <3>3, <3>5, <3>6
  <2>2. CASE entries_push # <<>> /\ Len(entries_push[Len(entries_push)]) # SizeBatch
    <3>1. open = entries_push BY <2>2 DEF OpenBatch, LastIsFull
    <3>2. Len(entries_push) \in 1 .. Len(entries_push) /\ entries_push[Len(entries_push)] \in Seq(Left)
      BY <1>1, <2>2
    <3>3. Len(entries_push[Len(entries_push)]) \in Nat BY <3>2
    <3> HIDE DEF open
    <3> QED BY <1>1, <2>2, <3>1, <3>2, <3>3
  <2> QED BY <2>1, <2>2 DEF LastIsFull
<1> HIDE DEF open
<1>3. entries_push' = [open EXCEPT ![Len(open)] = Append(@, x)] BY DEF SrvFeedForward, open
<1>4. /\ Len(entries_push') = Len(open)
      /\ \A n \in 1 .. Len(open) : n # Len(open) => entries_push'[n] = open[n]
      /\ entries_push'[Len(open)] = Append(open[Len(open)], x)
  BY <1>2, <1>3
<1>5. open[Len(open)] \in Seq(Left) BY <1>2
<1>6. Len(Append(open[Len(open)], x)) = Len(open[Len(open)]) + 1 /\ Len(open[Len(open)]) \in Nat BY <1>5
<1>7. Len(entries_push'[Len(open)]) <= SizeBatch
  <2> HIDE DEF x
  <2> QED BY <1>1, <1>2, <1>4, <1>6
<1>8. ASSUME NEW n \in 1 .. Len(entries_push'), n # Len(open) PROVE Len(entries_push'[n]) <= SizeBatch
  <2>1. n \in 1 .. Len(open) /\ entries_push'[n] = open[n] BY <1>4, <1>8
  <2> QED BY <1>2, <2>1
<1> QED BY <1>7, <1>8

\* worker_push takes the first batch, if the device has room for it.
LEMMA PushCheckInBounds ==
  ASSUME ServiceInv, Bounds, PushCheck
  PROVE  /\ \A n \in 1 .. Len(entries_push') : Len(entries_push'[n]) <= SizeBatch
         /\ Len(entries_wait') <= MaxWait + 1
         /\ pusher' = "push" => Len(entries_wait') <= MaxWait
<1>1. entries_push \in Seq(Seq(Left)) /\ entries_wait' = entries_wait
  BY DEF ServiceInv, ServiceTypes, PushCheck
<1>2. CASE MayPush
  <2>1. entries_push' = Tail(entries_push) /\ entries_push # <<>> /\ Len(entries_wait) <= MaxWait
    BY <1>2 DEF PushCheck, MayPush
  <2>2. \A n \in 1 .. Len(Tail(entries_push)) :
          Tail(entries_push)[n] = entries_push[n + 1] /\ n + 1 \in 1 .. Len(entries_push)
    BY <1>1, <2>1, Taken
  <2> QED BY <1>1, <2>1, <2>2 DEF Bounds
<1>3. CASE ~MayPush
  <2>1. entries_push' = entries_push /\ pusher' = "asleep" BY <1>3 DEF PushCheck
  <2> QED BY <1>1, <2>1 DEF Bounds
<1> QED BY <1>2, <1>3

\* A batch more at the device, when worker_push has one, and one less for worker_wait.
LEMMA DeviceInBounds ==
  ASSUME ServiceInv, Bounds, PushToDevice \/ WaitCheck
  PROVE  /\ Len(entries_wait') <= MaxWait + 1
         /\ pusher' = "push" => Len(entries_wait') <= MaxWait
<1>0. entries_wait \in Seq(Seq(Results)) /\ Len(entries_wait) \in Nat /\ MaxWait \in Nat
  BY NNetServiceAssumption DEF ServiceInv, ServiceTypes
<1>1. CASE PushToDevice
  <2>1. Len(entries_wait') = Len(entries_wait) + 1 /\ pusher = "push" /\ pusher' = "notify"
    BY <1>0, <1>1 DEF PushToDevice
  <2> QED BY <1>0, <2>1 DEF Bounds
<1>2. CASE WaitCheck
  <2>1. pusher' = pusher BY <1>2 DEF WaitCheck
  <2>2. Len(entries_wait') <= Len(entries_wait) /\ Len(entries_wait') \in Nat
    <3>1. CASE entries_wait # <<>>
      <4>1. entries_wait' = Tail(entries_wait) BY <1>2, <3>1 DEF WaitCheck
      <4> QED BY <1>0, <3>1, <4>1, Taken
    <3>2. CASE entries_wait = <<>> BY <1>0, <1>2, <3>2 DEF WaitCheck
    <3> QED BY <3>1, <3>2
  <2> QED BY <1>0, <2>1, <2>2 DEF Bounds
<1> QED BY <1>1, <1>2

\* The bounds hold at the start.
LEMMA BoundsStart == ASSUME Init PROVE Bounds
<1>1. Nipc \in Nat BY NNetServiceAssumption, FS_CardinalityType DEF Nipc
<1>2. Len(<<>>) = 0 OBVIOUS
<1> QED BY <1>1, <1>2, NNetServiceAssumption DEF Init, Bounds

\* Every step keeps them.
LEMMA BoundsKeep == ASSUME ServiceInv, Bounds, [Next]_vars PROVE Bounds'
<1> DEFINE Short(q) == \A n \in 1 .. Len(q) : Len(q[n]) <= SizeBatch
           Room == /\ Len(entries_wait) <= MaxWait + 1
                   /\ pusher = "push" => Len(entries_wait) <= MaxWait
           Weights == net \in {NoWght} \union 0 .. MaxWght /\ latest <= MaxWght
           Counts == \A e \in Engines : count[e] <= MaxSubmit
<1>0. /\ Bounds <=> id_ipc_next <= Nipc /\ Short(entries_push) /\ Room /\ Weights /\ Counts
      /\ Bounds' <=> id_ipc_next' <= Nipc /\ Short(entries_push') /\ Room' /\ Weights' /\ Counts'
  BY DEF Bounds
<1>t. /\ count \in [Engines -> Nat] /\ latest \in Nat /\ net \in Int
      /\ pusher \in {"check", "asleep", "push", "notify"}
      /\ MaxWght \in Nat /\ MaxSubmit \in Nat \ {0} /\ Nipc \in Nat
  BY NNetServiceAssumption, FS_CardinalityType DEF ServiceInv, ServiceTypes, Nipc
<1>1. ASSUME NEW e \in Engines, EngineStep(e) \/ Line(e) PROVE Bounds'
  <2>1. UNCHANGED <<queues, workers, net, latest>>
    BY <1>1 DEF EngineStep, TakeId, Register, Registered, SubmitBlock, Answered, BestMove, Line,
                manager, queues, workers
  <2>2. Short(entries_push') /\ Room' /\ Weights'
    BY <1>0, <2>1 DEF queues, workers
  <2>3. id_ipc_next' <= Nipc
    <3>1. TakeId(e) \/ id_ipc_next' = id_ipc_next
      BY <1>1 DEF EngineStep, Register, Registered, SubmitBlock, Answered, BestMove, Line, shm
    <3> QED BY <1>0, <3>1, TakeIdInBounds
  <2>4. Counts'
    <3>1. CASE SubmitBlock(e) BY <1>0, <1>t, <3>1 DEF SubmitBlock
    <3>2. CASE Line(e) BY <1>0, <1>t, <3>2 DEF Line
    <3>3. CASE count' = count BY <1>0, <3>3
    <3> QED BY <1>1, <3>1, <3>2, <3>3 DEF EngineStep, TakeId, Register, Registered, Answered, BestMove,
                                        manager
  <2> QED BY <1>0, <2>2, <2>3, <2>4
<1>2. ASSUME SrvStep PROVE Bounds'
  <2>1. UNCHANGED <<engine, manager, entries_wait>>
    BY <1>2 DEF SrvStep, SrvRegister, SrvNOP, SrvFeedForward, SrvNotify, SrvReset, SrvLoad, queues
  <2>2. Counts' /\ latest' = latest BY <1>0, <2>1 DEF engine, manager
  <2>3. Short(entries_push')
    <3>1. SrvFeedForward \/ entries_push' = entries_push
      BY <1>2 DEF SrvStep, SrvRegister, SrvNOP, SrvNotify, SrvReset, SrvLoad, queues
    <3> QED BY <1>0, <3>1, FillInBounds
  <2>4. pusher' = pusher \/ pusher' = Woken(pusher)
    BY <1>2 DEF SrvStep, SrvRegister, SrvNOP, SrvFeedForward, SrvNotify, SrvReset, SrvLoad, workers
  <2>5. Room' BY <1>0, <2>1, <2>4 DEF Woken
  <2>6. id_ipc_next' <= Nipc
    <3>1. id_ipc_next' = id_ipc_next \/ id_ipc_next' = 0
      BY <1>2 DEF SrvStep, SrvRegister, SrvNOP, SrvFeedForward, SrvNotify, SrvReset, SrvLoad, shm
    <3> QED BY <1>0, <1>t, <3>1
  <2>7. Weights'
    <3>1. net' \in {net, NoWght, latest}
      BY <1>2 DEF SrvStep, SrvRegister, SrvNOP, SrvFeedForward, SrvNotify, SrvReset, SrvLoad
    <3> QED BY <1>0, <1>t, <2>2, <3>1
  <2> QED BY <1>0, <2>2, <2>3, <2>5, <2>6, <2>7
<1>3. ASSUME PushStep \/ WaitStep \/ SpuriousWakeup PROVE Bounds'
  <2>1. UNCHANGED <<id_ipc_next, net, engine, manager>>
    BY <1>3 DEF PushStep, WaitStep, PushCheck, PushToDevice, PushNotify, WaitCheck, WaitAnswer, WaitPool,
                WaitNotify, SpuriousWakeup, shm
  <2>2. id_ipc_next' <= Nipc /\ Weights' /\ Counts' BY <1>0, <2>1 DEF engine, manager
  <2>3. Short(entries_push')
    <3>1. PushCheck \/ entries_push' = entries_push
      BY <1>3 DEF PushStep, WaitStep, PushToDevice, PushNotify, WaitCheck, WaitAnswer, WaitPool,
                WaitNotify, SpuriousWakeup, queues
    <3> QED BY <1>0, <3>1, PushCheckInBounds
  <2>4. Room'
    <3>1. \/ PushCheck \/ PushToDevice \/ WaitCheck
          \/ entries_wait' = entries_wait /\ pusher' \in {pusher, Woken(pusher), "check"}
      BY <1>3 DEF PushStep, WaitStep, PushNotify, WaitAnswer, WaitPool,
                WaitNotify, SpuriousWakeup, queues, workers
    <3>2. CASE entries_wait' = entries_wait /\ pusher' \in {pusher, Woken(pusher), "check"}
      BY <1>0, <3>2 DEF Woken
    <3> QED BY <3>1, <3>2, PushCheckInBounds, DeviceInBounds
  <2> QED BY <1>0, <2>2, <2>3, <2>4
<1>4. ASSUME NewWght \/ WghtStep PROVE Bounds'
  <2>1. UNCHANGED <<id_ipc_next, queues, workers, net>>
    BY <1>4 DEF NewWght, WghtStep, NNReset, NNWait, NNGo, shm
  <2>2. id_ipc_next' <= Nipc /\ Short(entries_push') /\ Room' BY <1>0, <2>1 DEF queues, workers
  <2>3. Weights'
    <3>1. latest' = latest \/ (latest < MaxWght /\ latest' = latest + 1)
      BY <1>4 DEF NewWght, WghtStep, NNReset, NNWait, NNGo
    <3> QED BY <1>0, <1>t, <2>1, <3>1
  <2>4. Counts'
    <3>1. CASE NNGo BY <1>0, <1>t, <3>1 DEF NNGo, Resume
    <3>2. CASE count' = count BY <1>0, <3>2
    <3> QED BY <1>4, <3>1, <3>2 DEF NewWght, WghtStep, NNReset, NNWait, engine
  <2> QED BY <1>0, <2>2, <2>3, <2>4
<1>5. CASE UNCHANGED vars
  BY <1>0, <1>5 DEF vars, shm, queues, workers, engine, manager
<1> QED BY <1>1, <1>2, <1>3, <1>4, <1>5 DEF Next

\* Types and bounds of the service's variables: the numbers of the engines, the
\* batches, which are never empty or too long, and the device's queue, which
\* worker_push fills to one more than MaxWait at the most.
THEOREM ServiceTypeCorrect == ~LateBoot => (Spec => []TypeOK)
<1> SUFFICES ASSUME ~LateBoot PROVE Spec => []TypeOK
  OBVIOUS
<1>1. ServiceInv /\ Bounds => TypeOK
  <2> SUFFICES ASSUME ServiceInv, Bounds PROVE TypeOK OBVIOUS
  <2>1. \A n \in DOMAIN jobs : jobs[n].type \in {"Register", "FeedForward", "NNReset", "NOP"}
                               /\ jobs[n].id \in Ids \cup {NoId}
    <3>1. \A n \in DOMAIN jobs : jobs[n] \in Jobs BY DEF ServiceInv, ServiceTypes
    <3> QED BY <3>1 DEF Jobs, Types
  <2>2. \A n \in DOMAIN entries_push : Len(entries_push[n]) \in 1 .. SizeBatch
    <3>1. entries_push \in Seq(Seq(Left)) /\ DOMAIN entries_push = 1 .. Len(entries_push)
      BY DEF ServiceInv, ServiceTypes
    <3> SUFFICES ASSUME NEW n \in 1 .. Len(entries_push) PROVE Len(entries_push[n]) \in 1 .. SizeBatch
      BY <3>1
    <3>2. entries_push[n] \in Seq(Left) /\ entries_push[n] # <<>> /\ Len(entries_push[n]) <= SizeBatch
      BY <3>1 DEF ServiceInv, Batches, Bounds
    <3>3. Len(entries_push[n]) \in Nat /\ Len(entries_push[n]) # 0 BY <3>2
    <3> QED BY <3>2, <3>3, NNetServiceAssumption
  <2>3. count \in [Engines -> 0 .. MaxSubmit]
    BY NNetServiceAssumption DEF ServiceInv, ServiceTypes, Bounds
  <2>4. id_ipc_next \in 0 .. Nipc
    BY NNetServiceAssumption, FS_CardinalityType DEF ServiceInv, ServiceTypes, Bounds, Nipc
  <2>5. wid \in 0 .. MaxWght /\ latest \in 0 .. MaxWght
    BY NNetServiceAssumption DEF ServiceInv, ServiceTypes, Renewal, Bounds
  <2>6. sem \in [Ids -> 0 .. 1]
    <3>1. 0 .. 1 = {0, 1} OBVIOUS
    <3> QED BY <3>1 DEF ServiceInv, ServiceTypes
  <2> QED BY <2>1, <2>2, <2>3, <2>4, <2>5, <2>6 DEF TypeOK, ServiceInv, ServiceTypes, Labels, Bounds
<1>2. Spec => []ServiceInv BY ServiceInvariance
<1> QED BY <1>1, <1>2, BoundsStart, BoundsKeep, PTL DEF Spec

=============================================================================
