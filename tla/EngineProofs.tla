----------------------------- MODULE EngineProofs -----------------------------
(* Proofs about the engine's node table (NodeTable, the instance T of MCEngine)  *)
(* and about its tree search (UctSearch).                                        *)
(*                                                                               *)
(* The table: whatever the threads, the keys, its size and the two probe limits, *)
(* one search has one node per position. Slots are only filled within a search,  *)
(* so what a lookup knows of the slots it has passed stays true (GoodWalk). The  *)
(* first lookup of a key that returns fixes the probe at which the key is from   *)
(* then on (Settled): every other lookup meets it there, or went by before it    *)
(* was there, and then remembers a free slot that it finds taken, or this one.   *)
(*                                                                               *)
(* The search, for any game, any number of threads and any limit: the virtual    *)
(* loss of a move counts the threads below it, the mean of a move stays between  *)
(* a loss and a win unless dfpn has set it, and a search makes no more playouts  *)
(* than it was given. The mean is kept because of what a move is worth without   *)
(* the threads below it: w + vl is between the loss and the win of its n - vl    *)
(* finished games, and a visit adds one game and one of -1, 0, 1. The playouts   *)
(* are bounded because the threads that have seen the threshold are as many as   *)
(* the playouts counted since, and none of them starts another one.              *)
(*                                                                               *)
(* Where no perpetual check can arise, and no position that only a move the      *)
(* search passes over would save, a mark is what the game is (MarksInv). The     *)
(* recursions by which Decided and Ahead are written down stop in time because   *)
(* they are chains of subsets of a finite set (ChainStops of Induction); so lost *)
(* and won are each defined by the other, what lies ahead of a position is       *)
(* closed under moves, and after a line to a calm position no move is illegal.   *)
EXTENDS MCEngine, Induction

----------------------------------------------------------------------------
(* The node table: the inductive invariant.                                      *)

Probes == 0 .. Len(Rehash)
Lookups == [pc : {"idle", "probe", "take", "hold"}, key : Keys \union {None},
            loop : Probes, first : T!Slots \union {None}, at : T!Slots \union {None}]

\* A slot holds a key or nothing and is locked by a thread or nobody; a lookup that
\* runs has a key and a number of a probe. 
TableTypes ==
  /\ slot \in [T!Slots -> Keys \union {None}]
  /\ lock \in [T!Slots -> Threads \union {None}]
  /\ seen \in [Keys -> SUBSET T!Slots]
  /\ lookup \in [Threads -> Lookups]
  /\ \A t \in Threads : lookup[t].pc # "idle" => lookup[t].key \in Keys

\* The locked slots are those the lookups have returned; such a slot is free or
\* holds the key looked up.
Locks ==
  /\ \A t \in Threads : lookup[t].pc = "hold" =>
       /\ lookup[t].at \in T!Slots /\ lock[lookup[t].at] = t
       /\ lookup[t].at \in seen[lookup[t].key]
       /\ slot[lookup[t].at] \in {None, lookup[t].key}
  /\ \A n \in T!Slots : lock[n] # None =>
       lookup[lock[n]].pc = "hold" /\ lookup[lock[n]].at = n

\* The probes a lookup u has made.
Passed(u) == IF u.pc = "probe" THEN 0 .. u.loop - 1 ELSE 0 .. u.loop

\* What a lookup knows of them: if it remembers no free slot there is none; the one
\* it remembers is the first that can be free; those that hold its key by now have
\* been returned to some lookup; and it has stopped where the code stops.
NoneFree(u) == u.first = None => \A j \in Passed(u) : slot[T!At(u.key, j)] # None
FirstIsFirst(u) ==
  u.first # None => \E j \in Passed(u) :
    u.first = T!At(u.key, j) /\ \A l \in 0 .. j - 1 : slot[T!At(u.key, l)] # None
OwnAreSeen(u) ==
  \A j \in Passed(u) : slot[T!At(u.key, j)] = u.key => T!At(u.key, j) \in seen[u.key]
Stops(u) ==
  IF u.pc = "probe" THEN u.first # None => u.loop <= TryMax
  ELSE u.loop = Len(Rehash) \/ (u.loop >= TryMax /\ u.first # None)
GoodWalk(u) == NoneFree(u) /\ FirstIsFirst(u) /\ OwnAreSeen(u) /\ Stops(u)
Walks == \A t \in Threads : lookup[t].pc \in {"probe", "take"} => GoodWalk(lookup[t])

\* Probe i of key k is the slot the search uses for it. It holds the key or is
\* locked by a lookup that will put it there; no probe before it holds the key, nor
\* would one that stops before it find a free slot; a lookup that is beyond it, or
\* has made its last probe, remembers a free slot and can only use this one; and
\* while one is beyond it there is no second copy of the key within its reach.
Beyond(u, k, i) == u.key = k /\ u.pc = "probe" /\ u.loop > i
Anchored(k, i) ==
  \/ slot[T!At(k, i)] = k
  \/ lock[T!At(k, i)] # None /\ lookup[lock[T!At(k, i)]].key = k
NoneBefore(k, i) == \A j \in 0 .. i - 1 : slot[T!At(k, j)] # k
NoFreeBefore(k, i) ==
  \A l \in 0 .. i - 1 : l >= TryMax => \A j \in 0 .. l : slot[T!At(k, j)] # None
Returns(u, k, i) == u.first # None /\ (slot[u.first] # None \/ u.first = T!At(k, i))
LastProbed(k, i) ==
  \A t \in Threads : lookup[t].key = k /\ lookup[t].pc = "take" => Returns(lookup[t], k, i)
ProbedBeyond(k, i) ==
  \A t \in Threads : Beyond(lookup[t], k, i) =>
    /\ Returns(lookup[t], k, i)
    /\ \A j \in i + 1 .. Len(Rehash) : j <= TryMax => slot[T!At(k, j)] # k
Settled(k, i) ==
  /\ seen[k] = {T!At(k, i)}
  /\ Anchored(k, i) /\ NoneBefore(k, i) /\ NoFreeBefore(k, i)
  /\ LastProbed(k, i) /\ ProbedBeyond(k, i)
OneSlot == \A k \in Keys : seen[k] = {} \/ \E i \in Probes : Settled(k, i)

TableInv == TableTypes /\ Locks /\ Walks /\ OneSlot

----------------------------------------------------------------------------
(* The probes of a key.                                                          *)

\* Every probe is a slot (a sum of two numbers below the size, modulo the size).
LEMMA ProbeIsSlot == ASSUME NEW k \in Keys, NEW i \in Probes PROVE T!At(k, i) \in T!Slots
<1>1. Home[k] \in 0 .. TableSize - 1 /\ TableSize \in Nat /\ TableSize > 0
  BY TableAssumption
<1>2. CASE i = 0 BY <1>1, <1>2 DEF T!At, T!Slots
<1>3. CASE i # 0
  <2>1. i \in 1 .. Len(Rehash) BY <1>3, TableAssumption DEF Probes
  <2>2. Rehash[i] \in 1 .. TableSize - 1 BY <2>1, TableAssumption
  <2>3. Home[k] + Rehash[i] \in Nat BY <1>1, <2>2
  <2>4. \A x \in Nat : x % TableSize \in 0 .. TableSize - 1 BY <1>1
  <2> QED BY <1>3, <2>3, <2>4 DEF T!At, T!Slots
<1> QED BY <1>2, <1>3

\* Two offsets below the size lead from one home to two slots.
LEMMA OffsetsDiffer ==
  ASSUME NEW s \in Nat, NEW h \in 0 .. s - 1, NEW a \in 0 .. s - 1, NEW b \in 0 .. s - 1,
         (h + a) % s = (h + b) % s
  PROVE  a = b
<1>1. s > 0 /\ h \in Nat /\ a \in Nat /\ b \in Nat OBVIOUS
<1>2. \A x \in Nat : x < s => x % s = x BY <1>1
<1>3. \A x \in Nat : s <= x /\ x < 2 * s => x % s = x - s
  <2> SUFFICES ASSUME NEW x \in Nat, s <= x, x < 2 * s PROVE x % s = x - s
    OBVIOUS
  <2>1. x = s * (x \div s) + (x % s) /\ x \div s \in Int /\ x % s \in 0 .. s - 1 BY <1>1
  <2>2. \A q \in Int, r \in 0 .. s - 1 : x = s * q + r => r = x - s
    <3> SUFFICES ASSUME NEW q \in Int, NEW r \in 0 .. s - 1, x = s * q + r PROVE q = 1
      OBVIOUS
    <3>1. s * q > 0 - s /\ s * q < 2 * s OBVIOUS
    <3>2. CASE q <= 0
      <4>1. s * q <= 0 BY <3>2, <1>1
      <4> QED BY <4>1, <1>1
    <3>3. CASE q >= 2
      <4>1. s * q >= s * 2 BY <3>3, <1>1
      <4> QED BY <4>1, <3>1
    <3> QED BY <3>2, <3>3
  <2> QED BY <2>1, <2>2
<1>4. \A x \in 0 .. s - 1 : (h + x) % s = IF h + x < s THEN h + x ELSE h + x - s
  <2> SUFFICES ASSUME NEW x \in 0 .. s - 1
               PROVE (h + x) % s = IF h + x < s THEN h + x ELSE h + x - s
    OBVIOUS
  <2>1. h + x \in Nat /\ h + x < 2 * s OBVIOUS
  <2>2. CASE h + x < s BY <2>1, <2>2, <1>2
  <2>3. CASE ~(h + x < s) BY <2>1, <2>3, <1>3
  <2> QED BY <2>2, <2>3
<1> QED BY <1>4

\* So the probes of a key are different slots.
LEMMA ProbesDiffer ==
  ASSUME NEW k \in Keys, NEW i \in Probes, NEW j \in Probes, T!At(k, i) = T!At(k, j)
  PROVE  i = j
<1> DEFINE off(x) == IF x = 0 THEN 0 ELSE Rehash[x]
<1>1. Home[k] \in 0 .. TableSize - 1 /\ TableSize \in Nat /\ TableSize > 0
  BY TableAssumption
<1>2. \A x \in Probes : off(x) \in 0 .. TableSize - 1 /\ (x # 0 => off(x) # 0)
  <2> SUFFICES ASSUME NEW x \in Probes
               PROVE off(x) \in 0 .. TableSize - 1 /\ (x # 0 => off(x) # 0)
    OBVIOUS
  <2>1. CASE x = 0 BY <2>1, <1>1
  <2>2. CASE x # 0
    <3>1. x \in 1 .. Len(Rehash) BY <2>2, TableAssumption DEF Probes
    <3>2. Rehash[x] \in 1 .. TableSize - 1 BY <3>1, TableAssumption
    <3> QED BY <3>2, <2>2, <1>1
  <2> QED BY <2>1, <2>2
<1>3. \A x \in Probes : T!At(k, x) = (Home[k] + off(x)) % TableSize
  <2> SUFFICES ASSUME NEW x \in Probes PROVE T!At(k, x) = (Home[k] + off(x)) % TableSize
    OBVIOUS
  <2>1. \A y \in 0 .. TableSize - 1 : y % TableSize = y BY <1>1
  <2>2. CASE x = 0
    <3>1. Home[k] + off(x) = Home[k] BY <2>2, <1>1
    <3> QED BY <3>1, <2>1, <2>2, <1>1 DEF T!At
  <2>3. CASE x # 0 BY <2>3 DEF T!At
  <2> QED BY <2>2, <2>3
<1>4. off(i) = off(j)
  <2> HIDE DEF off
  <2>1. (Home[k] + off(i)) % TableSize = (Home[k] + off(j)) % TableSize BY <1>3
  <2> QED BY <2>1, <1>1, <1>2, OffsetsDiffer
<1>5. CASE i = 0 \/ j = 0 BY <1>5, <1>4, <1>2
<1>6. CASE i # 0 /\ j # 0
  <2>1. i \in 1 .. Len(Rehash) /\ j \in 1 .. Len(Rehash)
    BY <1>6, TableAssumption DEF Probes
  <2> QED BY <2>1, <1>4, <1>6, TableAssumption
<1> QED BY <1>5, <1>6

----------------------------------------------------------------------------
(* The steps of a lookup.                                                        *)

\* A lookup t becomes w without taking or leaving a slot; w knows what it must of
\* the probes it has made and of the slot its key has in this search.
NearSlot(w, i) ==
  /\ w.pc = "take" => Returns(w, w.key, i)
  /\ Beyond(w, w.key, i) =>
       /\ Returns(w, w.key, i)
       /\ \A j \in i + 1 .. Len(Rehash) : j <= TryMax => slot[T!At(w.key, j)] # w.key
LookupMoves(t, w) ==
  /\ lookup' = [lookup EXCEPT ![t] = w] /\ w \in Lookups /\ w.key \in Keys
  /\ lookup[t].pc # "hold" /\ w.pc \in {"probe", "take"}
  /\ GoodWalk(w) /\ \A i \in Probes : Settled(w.key, i) => NearSlot(w, i)
  /\ UNCHANGED <<slot, lock, seen>>

\* Such a step keeps the invariant: it reads slots and changes none.
LEMMA MoveKeeps ==
  ASSUME TableInv, NEW t \in Threads, NEW w, LookupMoves(t, w) PROVE TableInv'
<1>1. /\ lookup \in [Threads -> Lookups] /\ lookup' \in [Threads -> Lookups]
      /\ lookup'[t] = w /\ \A u \in Threads \ {t} : lookup'[u] = lookup[u]
      /\ UNCHANGED <<slot, lock, seen>> /\ w.pc \in {"probe", "take"} /\ w.key \in Keys
      /\ lookup[t].pc # "hold"
  BY DEF TableInv, TableTypes, LookupMoves
<1>2. TableTypes' BY <1>1 DEF TableInv, TableTypes, T!Slots
<1>3. Locks'
  <2>1. \A n \in T!Slots : lock[n] # None => lock[n] \in Threads \ {t}
    BY <1>1 DEF TableInv, TableTypes, Locks
  <2> QED BY <1>1, <2>1 DEF TableInv, Locks, T!Slots
<1>4. Walks'
  <2> SUFFICES ASSUME NEW u \in Threads, lookup'[u].pc \in {"probe", "take"}
               PROVE  GoodWalk(lookup[u])'
    BY DEF Walks
  <2>1. GoodWalk(lookup'[u])
    BY <1>1 DEF LookupMoves, TableInv, Walks
  <2> QED BY <2>1, <1>1 DEF GoodWalk, NoneFree, FirstIsFirst, OwnAreSeen, Stops, Passed, T!At
<1>5. OneSlot'
  <2> SUFFICES ASSUME NEW k \in Keys, NEW i \in Probes, Settled(k, i)
               PROVE  Settled(k, i)'
    BY <1>1 DEF TableInv, OneSlot, Probes
  <2>1. T!At(k, i) \in T!Slots BY ProbeIsSlot
  <2>2. Anchored(k, i)'
    <3>1. CASE slot[T!At(k, i)] = k BY <3>1, <1>1 DEF Anchored, T!At
    <3>2. CASE lock[T!At(k, i)] # None /\ lookup[lock[T!At(k, i)]].key = k
      <4>1. lock[T!At(k, i)] \in Threads \ {t}
        BY <3>2, <2>1, <1>1 DEF TableInv, TableTypes, Locks
      <4> QED BY <4>1, <3>2, <1>1 DEF Anchored, T!At
    <3> QED BY <3>1, <3>2 DEF Settled, Anchored
  <2>3. NoneBefore(k, i)' /\ NoFreeBefore(k, i)'
    BY <1>1 DEF Settled, NoneBefore, NoFreeBefore, T!At
  <2>4. w.key = k => NearSlot(w, i) BY DEF LookupMoves
  <2>5. LastProbed(k, i)'
    <3> SUFFICES ASSUME NEW u \in Threads, lookup'[u].key = k, lookup'[u].pc = "take"
                 PROVE  Returns(lookup[u], k, i)'
      BY DEF LastProbed
    <3>1. Returns(lookup'[u], k, i) BY <1>1, <2>4 DEF Settled, LastProbed, NearSlot
    <3> QED BY <3>1, <1>1 DEF Returns, T!At
  <2>6. ProbedBeyond(k, i)'
    <3> SUFFICES ASSUME NEW u \in Threads, Beyond(lookup'[u], k, i)
                 PROVE  /\ Returns(lookup[u], k, i)'
                        /\ \A j \in i + 1 .. Len(Rehash) :
                             j <= TryMax => slot[T!At(k, j)] # k
      BY <1>1 DEF ProbedBeyond, T!At, Beyond
    <3>1. /\ Returns(lookup'[u], k, i)
          /\ \A j \in i + 1 .. Len(Rehash) : j <= TryMax => slot[T!At(k, j)] # k
      <4>1. CASE u = t BY <4>1, <1>1, <2>4 DEF NearSlot, Beyond
      <4>2. CASE u # t BY <4>2, <1>1 DEF Settled, ProbedBeyond
      <4> QED BY <4>1, <4>2
    <3> QED BY <3>1, <1>1 DEF Returns, T!At
  <2> QED BY <2>2, <2>3, <2>5, <2>6, <1>1 DEF Settled, T!At
<1> QED BY <1>2, <1>3, <1>4, <1>5 DEF TableInv

\* A lookup t returns slot n, a probe of its key k: free or the key's, and the slot
\* the search uses for k already or the one it may use from now on.
Rightly(t, n) ==
  LET k == lookup[t].key
  IN \E i \in Probes :
       /\ n = T!At(k, i) /\ lock[n] = None /\ slot[n] \in {None, k}
       /\ seen[k] \in {{}, {n}}
       /\ NoneBefore(k, i) /\ NoFreeBefore(k, i) /\ LastProbed(k, i) /\ ProbedBeyond(k, i)

\* Such a return keeps the invariant.
LEMMA HoldKeeps ==
  ASSUME TableInv, NEW t \in Threads, NEW n, NEW k, k = lookup[t].key,
         lookup[t].pc \in {"probe", "take"}, Rightly(t, n), T!Hold(t, n), UNCHANGED slot
  PROVE  TableInv'
<1> DEFINE w == [lookup[t] EXCEPT !.pc = "hold", !.at = n]
<1>1. PICK i \in Probes :
        /\ n = T!At(k, i) /\ lock[n] = None /\ slot[n] \in {None, k}
        /\ seen[k] \in {{}, {n}}
        /\ NoneBefore(k, i) /\ NoFreeBefore(k, i) /\ LastProbed(k, i) /\ ProbedBeyond(k, i)
  BY DEF Rightly
<1>2. k \in Keys /\ lookup[t] \in Lookups /\ lookup \in [Threads -> Lookups]
  BY DEF TableInv, TableTypes
<1>3. n \in T!Slots BY <1>1, <1>2, ProbeIsSlot
<1>4. w \in Lookups /\ w.pc = "hold" /\ w.at = n /\ w.key = k
  BY <1>2, <1>3 DEF Lookups
<1>5. /\ lookup' = [lookup EXCEPT ![t] = w] /\ lookup' \in [Threads -> Lookups]
      /\ lookup'[t] = w /\ \A u \in Threads \ {t} : lookup'[u] = lookup[u]
  <2> HIDE DEF w
  <2>1. lookup' = [lookup EXCEPT ![t] = w] BY <1>2 DEF T!Hold, w
  <2> QED BY <2>1, <1>2, <1>4
<1> HIDE DEF w
<1>6. /\ lock' = [lock EXCEPT ![n] = t] /\ lock \in [T!Slots -> Threads \union {None}]
      /\ seen' = [seen EXCEPT ![k] = {n}] /\ seen \in [Keys -> SUBSET T!Slots]
      /\ slot \in [T!Slots -> Keys \union {None}] /\ slot' = slot
  <2>1. lock' = [lock EXCEPT ![n] = t] /\ seen' = [seen EXCEPT ![k] = @ \union {n}]
    BY DEF T!Hold
  <2> QED BY <2>1, <1>1, <1>2 DEF TableInv, TableTypes
<1>7. TableTypes'
  BY <1>2, <1>3, <1>4, <1>5, <1>6 DEF TableInv, TableTypes, T!Slots
<1>8. Locks'
  <2>1. t # None BY TableAssumption
  <2>2. \A u \in Threads \ {t} : lookup[u].pc = "hold" => lookup[u].at # n
    BY <1>1, <2>1, TableAssumption DEF TableInv, Locks
  <2>3. \A u \in Threads : lookup'[u].pc = "hold" =>
          /\ lookup'[u].at \in T!Slots /\ lock'[lookup'[u].at] = u
          /\ lookup'[u].at \in seen'[lookup'[u].key]
          /\ slot'[lookup'[u].at] \in {None, lookup'[u].key}
    <3> SUFFICES ASSUME NEW u \in Threads, lookup'[u].pc = "hold"
                 PROVE  /\ lookup'[u].at \in T!Slots /\ lock'[lookup'[u].at] = u
                        /\ lookup'[u].at \in seen'[lookup'[u].key]
                        /\ slot'[lookup'[u].at] \in {None, lookup'[u].key}
      OBVIOUS
    <3>1. CASE u = t BY <3>1, <1>1, <1>2, <1>3, <1>4, <1>5, <1>6
    <3>2. CASE u # t
      <4>1. lookup'[u] = lookup[u] /\ lookup[u].at # n /\ lookup[u].key \in Keys
        BY <3>2, <1>5, <2>2 DEF TableInv, TableTypes
      <4>2. seen[lookup[u].key] \subseteq seen'[lookup[u].key] BY <4>1, <1>6, <1>1
      <4> QED BY <4>1, <4>2, <1>6 DEF TableInv, Locks
    <3> QED BY <3>1, <3>2
  <2>4. \A m \in T!Slots : lock'[m] # None =>
          lookup'[lock'[m]].pc = "hold" /\ lookup'[lock'[m]].at = m
    <3> SUFFICES ASSUME NEW m \in T!Slots, lock'[m] # None
                 PROVE  lookup'[lock'[m]].pc = "hold" /\ lookup'[lock'[m]].at = m
      OBVIOUS
    <3>1. CASE m = n BY <3>1, <1>6, <1>5, <1>4
    <3>2. CASE m # n
      <4>1. lock'[m] = lock[m] /\ lock[m] \in Threads BY <3>2, <1>6
      <4>2. lock[m] # t BY <4>1, TableAssumption DEF TableInv, Locks
      <4> QED BY <4>1, <4>2, <1>5 DEF TableInv, Locks
    <3> QED BY <3>1, <3>2
  <2> QED BY <2>3, <2>4 DEF Locks, T!Slots
<1>9. Walks'
  <2> SUFFICES ASSUME NEW u \in Threads, lookup'[u].pc \in {"probe", "take"}
               PROVE  GoodWalk(lookup[u])'
    BY DEF Walks
  <2>1. u # t /\ lookup'[u] = lookup[u] /\ GoodWalk(lookup[u])
    BY <1>4, <1>5 DEF TableInv, Walks
  <2>2. lookup[u].key \in Keys BY <2>1 DEF TableInv, TableTypes
  <2>3. seen[lookup[u].key] \subseteq seen'[lookup[u].key] BY <2>2, <1>6, <1>1
  <2> QED BY <2>1, <2>3, <1>6
          DEF GoodWalk, NoneFree, FirstIsFirst, OwnAreSeen, Stops, Passed, T!At
<1>10. ASSUME NEW q \in Keys, NEW j \in Probes,
              NoneBefore(q, j), NoFreeBefore(q, j), LastProbed(q, j), ProbedBeyond(q, j)
       PROVE  (NoneBefore(q, j) /\ NoFreeBefore(q, j) /\ LastProbed(q, j) /\ ProbedBeyond(q, j))'
  <2>1. NoneBefore(q, j)' /\ NoFreeBefore(q, j)'
    BY <1>10, <1>6 DEF NoneBefore, NoFreeBefore, T!At
  <2>2. LastProbed(q, j)'
    BY <1>10, <1>4, <1>5, <1>6 DEF LastProbed, Returns, T!At
  <2>3. ProbedBeyond(q, j)'
    BY <1>10, <1>4, <1>5, <1>6 DEF ProbedBeyond, Returns, Beyond, T!At
  <2> QED BY <2>1, <2>2, <2>3
<1>11. OneSlot'
  <2> SUFFICES ASSUME NEW q \in Keys PROVE (seen[q] = {} \/ \E j \in Probes : Settled(q, j))'
    BY DEF OneSlot
  <2>1. CASE q = k
    <3>1. seen'[k] = {T!At(k, i)} BY <1>1, <1>2, <1>6
    <3>2. Anchored(k, i)'
      <4>1. lock'[n] = t /\ lookup'[t].key = k /\ t # None
        BY <1>3, <1>4, <1>5, <1>6, TableAssumption
      <4>2. T!At(k, i)' = n BY <1>1 DEF T!At
      <4> QED BY <4>1, <4>2 DEF Anchored
    <3>3. (NoneBefore(k, i) /\ NoFreeBefore(k, i) /\ LastProbed(k, i) /\ ProbedBeyond(k, i))'
      BY <1>1, <1>2, <1>10
    <3>4. Settled(k, i)' BY <3>1, <3>2, <3>3 DEF Settled, T!At
    <3> QED BY <3>4, <2>1 DEF Probes
  <2>2. CASE q # k
    <3>1. seen'[q] = seen[q] BY <2>2, <1>6
    <3>2. ASSUME NEW j \in Probes, Settled(q, j) PROVE Settled(q, j)'
      <4>1. T!At(q, j) \in T!Slots BY ProbeIsSlot
      <4>2. Anchored(q, j)'
        <5>1. CASE slot[T!At(q, j)] = q BY <5>1, <1>6 DEF Anchored, T!At
        <5>2. CASE lock[T!At(q, j)] # None /\ lookup[lock[T!At(q, j)]].key = q
          <6>1. /\ lock'[T!At(q, j)] = lock[T!At(q, j)]
                /\ lock[T!At(q, j)] \in Threads \ {t}
            BY <5>2, <4>1, <1>1, <1>6, <2>2
          <6> QED BY <6>1, <5>2, <1>5 DEF Anchored, T!At
        <5> QED BY <3>2, <5>1, <5>2 DEF Settled, Anchored
      <4> QED BY <3>1, <3>2, <4>2, <1>10 DEF Settled, T!At
    <3> QED BY <3>1, <3>2 DEF TableInv, OneSlot, Probes
  <2> QED BY <2>1, <2>2
<1> QED BY <1>7, <1>8, <1>9, <1>11 DEF TableInv

\* A new lookup starts with no probe made.
LEMMA CallKeeps == ASSUME TableInv, NEW t \in Threads, T!Call(t) PROVE TableInv'
<1>1. PICK k \in Keys : lookup' = [lookup EXCEPT ![t] = [T!Idle EXCEPT !.pc = "probe", !.key = k]]
  BY DEF T!Call
<1> DEFINE w == [T!Idle EXCEPT !.pc = "probe", !.key = k]
<1>2. /\ w.pc = "probe" /\ w.key = k /\ w.loop = 0 /\ w.first = None
      /\ w \in Lookups
  <2>1. 0 \in Probes BY TableAssumption DEF Probes
  <2> QED BY <2>1 DEF T!Idle, Lookups
<1>3. lookup' = [lookup EXCEPT ![t] = w] BY <1>1
<1> HIDE DEF w
<1>4. Passed(w) = {} BY <1>2 DEF Passed
<1>5. GoodWalk(w)
  BY <1>2, <1>4 DEF GoodWalk, NoneFree, FirstIsFirst, OwnAreSeen, Stops
<1>6. \A i \in Probes : NearSlot(w, i) BY <1>2 DEF NearSlot, Beyond, Probes
<1>7. LookupMoves(t, w)
  BY <1>2, <1>3, <1>5, <1>6 DEF LookupMoves, T!Call
<1> QED BY <1>7, MoveKeeps

\* The slot taken first is gone: the lookup starts anew.
LEMMA AnewKeeps ==
  ASSUME TableInv, NEW t \in Threads, T!Take(t), T!Gone(lookup[t].first) PROVE TableInv'
<1> DEFINE w == [lookup[t] EXCEPT !.pc = "probe", !.loop = 0, !.first = None]
<1>1. lookup[t] \in Lookups /\ lookup[t].key \in Keys /\ lookup[t].pc = "take"
  BY DEF T!Take, TableInv, TableTypes
<1>2. /\ w.pc = "probe" /\ w.key = lookup[t].key /\ w.loop = 0 /\ w.first = None
      /\ w \in Lookups
  <2>1. 0 \in Probes BY TableAssumption DEF Probes
  <2> QED BY <2>1, <1>1 DEF Lookups
<1>3. lookup' = [lookup EXCEPT ![t] = w] /\ UNCHANGED <<slot, lock, seen>>
  BY DEF T!Take, T!Anew
<1> HIDE DEF w
<1>4. Passed(w) = {} BY <1>2 DEF Passed
<1>5. GoodWalk(w)
  BY <1>2, <1>4 DEF GoodWalk, NoneFree, FirstIsFirst, OwnAreSeen, Stops
<1>6. \A i \in Probes : NearSlot(w, i) BY <1>2 DEF NearSlot, Beyond, Probes
<1>7. LookupMoves(t, w) BY <1>1, <1>2, <1>3, <1>5, <1>6 DEF LookupMoves
<1> QED BY <1>7, MoveKeeps

\* The probe finds the key: it is in the slot the search uses, or this is the first
\* time the search meets it, and then no lookup of the key has passed it.
LEMMA FoundIsRight ==
  ASSUME TableInv, NEW t \in Threads, T!Probe(t),
         slot[T!At(lookup[t].key, lookup[t].loop)] = lookup[t].key
  PROVE  Rightly(t, T!At(lookup[t].key, lookup[t].loop))
<1>1. PICK k, i : k = lookup[t].key /\ i = lookup[t].loop OBVIOUS
<1>2. /\ k \in Keys /\ i \in Probes /\ lookup[t].pc = "probe" /\ slot[T!At(k, i)] = k
      /\ lock[T!At(k, i)] = None /\ Passed(lookup[t]) = 0 .. i - 1
  BY <1>1 DEF TableInv, TableTypes, Lookups, T!Probe, Passed
<1>3. GoodWalk(lookup[t]) BY <1>2 DEF TableInv, Walks
<1>4. i \in Nat /\ i <= Len(Rehash) /\ Len(Rehash) \in Nat /\ k # None /\ TryMax \in Nat
  BY <1>2, TableAssumption DEF Probes
<1>5. CASE seen[k] = {}
  <2>1. \A u \in Threads : lookup[u].key = k /\ lookup[u].pc \in {"probe", "take"} =>
          i \notin Passed(lookup[u])
    BY <1>2, <1>5 DEF TableInv, Walks, GoodWalk, OwnAreSeen
  <2>2. NoneBefore(k, i) BY <1>1, <1>2, <1>3, <1>5 DEF NoneBefore, GoodWalk, OwnAreSeen
  <2>3. NoFreeBefore(k, i)
    <3> SUFFICES ASSUME NEW l \in 0 .. i - 1, l >= TryMax, NEW j \in 0 .. l
                 PROVE  slot[T!At(k, j)] # None
      BY DEF NoFreeBefore
    <3>1. j \in Passed(lookup[t]) BY <1>2, <1>4
    <3>2. lookup[t].first = None BY <1>1, <1>2, <1>3, <1>4 DEF GoodWalk, Stops
    <3> QED BY <3>1, <3>2, <1>1, <1>3 DEF GoodWalk, NoneFree
  <2>4. LastProbed(k, i)
    <3> SUFFICES ASSUME NEW u \in Threads, lookup[u].key = k, lookup[u].pc = "take"
                 PROVE  Returns(lookup[u], k, i)
      BY DEF LastProbed
    <3>1. /\ GoodWalk(lookup[u]) /\ Passed(lookup[u]) = 0 .. lookup[u].loop
          /\ lookup[u].loop \in Probes /\ i \notin Passed(lookup[u])
      BY <2>1 DEF TableInv, TableTypes, Lookups, Walks, Passed
    <3>2. lookup[u].loop \in 0 .. i - 1 BY <3>1, <1>4 DEF Probes
    <3>3. lookup[u].loop >= TryMax /\ lookup[u].first # None
      BY <3>1, <3>2, <1>4 DEF GoodWalk, Stops
    <3>4. PICK j \in Passed(lookup[u]) : lookup[u].first = T!At(k, j)
      BY <3>1, <3>3 DEF GoodWalk, FirstIsFirst
    <3>5. slot[T!At(k, j)] # None BY <3>1, <3>2, <3>3, <3>4, <2>3 DEF NoFreeBefore
    <3> QED BY <3>3, <3>4, <3>5 DEF Returns
  <2>5. ProbedBeyond(k, i)
    <3>1. \A u \in Threads : ~Beyond(lookup[u], k, i)
      <4> SUFFICES ASSUME NEW u \in Threads, Beyond(lookup[u], k, i) PROVE FALSE
        OBVIOUS
      <4>1. lookup[u].loop \in Probes /\ i \notin 0 .. lookup[u].loop - 1
        BY <2>1 DEF Beyond, Passed, TableInv, TableTypes, Lookups
      <4> QED BY <4>1, <1>4 DEF Beyond, Probes
    <3> QED BY <3>1 DEF ProbedBeyond
  <2> QED BY <1>1, <1>2, <1>5, <2>2, <2>3, <2>4, <2>5 DEF Rightly
<1>6. CASE seen[k] # {}
  <2>1. PICK m \in Probes : Settled(k, m) BY <1>2, <1>6 DEF TableInv, OneSlot
  <2>2. m \in Nat BY <2>1 DEF Probes
  <2>3. ~(i < m)
    BY <1>2, <1>4, <2>1, <2>2 DEF Settled, NoneBefore
  <2>4. ~(i > m)
    <3> SUFFICES ASSUME i > m PROVE FALSE
      OBVIOUS
    <3>1. Beyond(lookup[t], k, m) BY <1>1, <1>2 DEF Beyond
    <3>2. lookup[t].first # None /\ (\A j \in m + 1 .. Len(Rehash) : j <= TryMax => slot[T!At(k, j)] # k)
      BY <2>1, <3>1 DEF Settled, ProbedBeyond, Returns
    <3>3. i <= TryMax BY <1>1, <1>2, <1>3, <3>2 DEF GoodWalk, Stops
    <3>4. i \in m + 1 .. Len(Rehash) BY <1>4, <2>2
    <3> QED BY <3>2, <3>3, <3>4, <1>2
  <2>5. i = m BY <2>2, <2>3, <2>4, <1>4
  <2> QED BY <1>1, <1>2, <2>1, <2>5 DEF Rightly, Settled
<1> QED BY <1>5, <1>6

\* The slot is still free at the second lock: it is the one the search uses, or the
\* first one that can be, and no lookup of the key remembers another.
LEMMA TakenIsRight ==
  ASSUME TableInv, NEW t \in Threads, T!Take(t), ~T!Gone(lookup[t].first)
  PROVE  Rightly(t, lookup[t].first)
<1>1. PICK k, n : k = lookup[t].key /\ n = lookup[t].first OBVIOUS
<1>2. /\ k \in Keys /\ lookup[t].loop \in Probes /\ lookup[t].pc = "take" /\ slot[n] = None
      /\ lock[n] = None /\ n # None /\ Passed(lookup[t]) = 0 .. lookup[t].loop
  BY <1>1 DEF TableInv, TableTypes, Lookups, T!Take, T!Gone, Passed
<1>3. GoodWalk(lookup[t]) BY <1>2 DEF TableInv, Walks
<1>4. PICK i \in 0 .. lookup[t].loop :
        n = T!At(k, i) /\ \A l \in 0 .. i - 1 : slot[T!At(k, l)] # None
  BY <1>1, <1>2, <1>3 DEF GoodWalk, FirstIsFirst
<1>5. /\ i \in Probes /\ i \in Nat /\ Len(Rehash) \in Nat /\ TryMax \in Nat /\ k # None
      /\ lookup[t].loop \in Nat /\ lookup[t].loop <= Len(Rehash)
  BY <1>2, <1>4, TableAssumption DEF Probes
<1>6. CASE seen[k] = {}
  <2>1. \A j \in 0 .. lookup[t].loop : slot[T!At(k, j)] # k
    BY <1>1, <1>2, <1>3, <1>6 DEF GoodWalk, OwnAreSeen
  <2>2. NoneBefore(k, i) BY <2>1, <1>4, <1>5 DEF NoneBefore
  <2>3. NoFreeBefore(k, i) BY <1>4, <1>5 DEF NoFreeBefore
  \* A lookup of the key that remembers a free slot remembers this one.
  <2>4. ASSUME NEW u \in Threads, lookup[u].key = k, lookup[u].pc \in {"probe", "take"},
               lookup[u].first # None
        PROVE  Returns(lookup[u], k, i)
    <3>1. lookup[u].loop \in Nat /\ GoodWalk(lookup[u])
      BY <2>4 DEF TableInv, TableTypes, Lookups, Walks, Probes
    <3>2. PICK j \in Passed(lookup[u]) :
            lookup[u].first = T!At(k, j) /\ \A l \in 0 .. j - 1 : slot[T!At(k, l)] # None
      BY <2>4, <3>1 DEF GoodWalk, FirstIsFirst
    <3>3. j \in Nat BY <3>1, <3>2 DEF Passed
    <3>4. CASE slot[T!At(k, j)] # None BY <2>4, <3>2, <3>4 DEF Returns
    <3>5. CASE slot[T!At(k, j)] = None
      <4>1. ~(j < i) BY <3>5, <3>3, <1>4, <1>5
      <4>2. ~(i < j) BY <3>2, <3>3, <1>2, <1>4, <1>5
      <4>3. i = j BY <4>1, <4>2, <3>3, <1>5
      <4> QED BY <4>3, <3>2, <2>4 DEF Returns
    <3> QED BY <3>4, <3>5
  <2>5. LastProbed(k, i)
    <3> SUFFICES ASSUME NEW u \in Threads, lookup[u].key = k, lookup[u].pc = "take"
                 PROVE  lookup[u].first # None
      BY <2>4 DEF LastProbed
    <3>1. GoodWalk(lookup[u]) /\ lookup[u].loop \in Probes
      BY DEF TableInv, TableTypes, Lookups, Walks
    <3>2. CASE lookup[u].loop = Len(Rehash)
      <4>1. i \in Passed(lookup[u]) BY <3>2, <1>5 DEF Passed
      <4> QED BY <4>1, <3>1, <1>2, <1>4 DEF GoodWalk, NoneFree
    <3> QED BY <3>1, <3>2 DEF GoodWalk, Stops
  <2>6. ProbedBeyond(k, i)
    <3> SUFFICES ASSUME NEW u \in Threads, Beyond(lookup[u], k, i)
                 PROVE  /\ Returns(lookup[u], k, i)
                        /\ \A j \in i + 1 .. Len(Rehash) : j <= TryMax => slot[T!At(k, j)] # k
      BY DEF ProbedBeyond
    <3>1. GoodWalk(lookup[u]) /\ lookup[u].loop \in Probes
      BY DEF TableInv, TableTypes, Lookups, Walks, Beyond
    <3>2. i \in Passed(lookup[u]) BY <3>1, <1>5 DEF Passed, Beyond, Probes
    <3>3. lookup[u].first # None BY <3>1, <3>2, <1>2, <1>4 DEF GoodWalk, NoneFree, Beyond
    <3>4. Returns(lookup[u], k, i) BY <3>3, <2>4 DEF Beyond
    <3>5. \A j \in i + 1 .. Len(Rehash) : j <= TryMax => j \in 0 .. lookup[t].loop
      BY <1>2, <1>3, <1>5 DEF GoodWalk, Stops
    <3> QED BY <3>4, <3>5, <2>1
  <2> QED BY <1>1, <1>2, <1>4, <1>5, <1>6, <2>2, <2>3, <2>5, <2>6 DEF Rightly
<1>7. CASE seen[k] # {}
  <2>1. PICK m \in Probes : Settled(k, m) BY <1>2, <1>7 DEF TableInv, OneSlot
  <2>2. n = T!At(k, m) BY <1>1, <1>2, <2>1 DEF Settled, LastProbed, Returns
  <2> QED BY <1>1, <1>2, <2>1, <2>2 DEF Rightly, Settled
<1> QED BY <1>6, <1>7

\* The probe passes a slot that is not the key's: never the one the search uses,
\* which holds the key or is locked; and it goes on, or stops, where the code says.
LEMMA PassKeeps ==
  ASSUME TableInv, NEW t \in Threads, T!Probe(t),
         slot[T!At(lookup[t].key, lookup[t].loop)] # lookup[t].key
  PROVE  TableInv'
<1>1. PICK u, k, i, n : u = lookup[t] /\ k = u.key /\ i = u.loop /\ n = T!At(k, i)
  OBVIOUS
<1>2. /\ u \in Lookups /\ k \in Keys /\ i \in Probes /\ u.pc = "probe" /\ slot[n] # k
      /\ lock[n] = None /\ Passed(u) = 0 .. i - 1 /\ GoodWalk(u) /\ n \in T!Slots
  <2>1. u \in Lookups /\ k \in Keys /\ u.pc = "probe" /\ slot[n] # k /\ lock[n] = None
    BY <1>1 DEF TableInv, TableTypes, T!Probe
  <2>2. i \in Probes BY <2>1, <1>1 DEF Lookups
  <2> QED BY <2>1, <2>2, <1>1, ProbeIsSlot DEF TableInv, Walks, Passed
<1>3. i \in Nat /\ i <= Len(Rehash) /\ Len(Rehash) \in Nat /\ k # None /\ TryMax \in Nat
  BY <1>2, TableAssumption DEF Probes
<1>4. PICK first : first = T!FirstFree(u.first, n) OBVIOUS
<1> DEFINE last == i = Len(Rehash) \/ (i >= TryMax /\ first # None)
           w == IF last THEN [u EXCEPT !.pc = "take", !.first = first]
                ELSE [u EXCEPT !.loop = i + 1, !.first = first]
<1>5. /\ lookup' = [lookup EXCEPT ![t] = w] /\ UNCHANGED <<slot, lock, seen>>
  <2>1. slot[T!At(lookup[t].key, lookup[t].loop)] # lookup[t].key OBVIOUS
  <2>2. lookup' = [lookup EXCEPT ![t] =
          IF lookup[t].loop = Len(Rehash) \/ (lookup[t].loop >= TryMax
               /\ T!FirstFree(lookup[t].first, T!At(lookup[t].key, lookup[t].loop)) # None)
            THEN [lookup[t] EXCEPT !.pc = "take",
                   !.first = T!FirstFree(lookup[t].first, T!At(lookup[t].key, lookup[t].loop))]
            ELSE [lookup[t] EXCEPT !.loop = lookup[t].loop + 1,
                   !.first = T!FirstFree(lookup[t].first, T!At(lookup[t].key, lookup[t].loop))]]
        /\ UNCHANGED <<slot, lock, seen>>
    BY <2>1 DEF T!Probe
  <2> QED BY <2>2, <1>1, <1>4
<1>6. /\ first \in T!Slots \union {None}
      /\ u.first # None => first = u.first
      /\ u.first = None /\ slot[n] = None => first = n
      /\ u.first = None /\ slot[n] # None => first = None
  BY <1>2, <1>4 DEF T!FirstFree, Lookups
<1>7. /\ w \in Lookups /\ w.key = k /\ w.first = first /\ w.pc \in {"probe", "take"}
      /\ w.pc = "take" => last /\ w.loop = i
      /\ w.pc = "probe" => ~last /\ w.loop = i + 1 /\ i + 1 \in Probes
  <2> HIDE DEF last
  <2>1. u \in [pc : {"probe"}, key : {k}, loop : {i}, first : T!Slots \union {None},
               at : T!Slots \union {None}]
    BY <1>1, <1>2 DEF Lookups
  <2>2. CASE last
    <3>1. w \in [pc : {"take"}, key : {k}, loop : {i}, first : {first},
                 at : T!Slots \union {None}]
      BY <2>1, <2>2
    <3> QED BY <3>1, <2>2, <1>2, <1>6 DEF Lookups
  <2>3. CASE ~last
    <3>1. i + 1 \in Probes BY <2>3, <1>2, <1>3 DEF last, Probes
    <3>2. w \in [pc : {"probe"}, key : {k}, loop : {i + 1}, first : {first},
                 at : T!Slots \union {None}]
      BY <2>1, <2>3
    <3> QED BY <3>1, <3>2, <2>3, <1>2, <1>6 DEF Lookups
  <2> QED BY <2>2, <2>3
<1> HIDE DEF w
<1>8. Passed(w) = 0 .. i
  BY <1>3, <1>7 DEF Passed
<1>9. 0 .. i = (0 .. i - 1) \union {i} BY <1>3
<1>10. n # None BY <1>2, TableAssumption DEF T!Slots
<1>11. NoneFree(w)
  BY <1>1, <1>2, <1>6, <1>7, <1>8, <1>9, <1>10 DEF GoodWalk, NoneFree
<1>12. FirstIsFirst(w)
  <2> SUFFICES ASSUME first # None
               PROVE  \E j \in Passed(w) : first = T!At(k, j) /\ \A l \in 0 .. j - 1 : slot[T!At(k, l)] # None
    BY <1>7 DEF FirstIsFirst
  <2>1. CASE u.first # None BY <2>1, <1>1, <1>2, <1>6, <1>8, <1>9 DEF GoodWalk, FirstIsFirst
  <2>2. CASE u.first = None
    <3>1. first = T!At(k, i) /\ i \in Passed(w) BY <2>2, <1>1, <1>6, <1>8, <1>9
    <3>2. \A l \in 0 .. i - 1 : slot[T!At(k, l)] # None
      BY <2>2, <1>1, <1>2 DEF GoodWalk, NoneFree
    <3> QED BY <3>1, <3>2
  <2> QED BY <2>1, <2>2
<1>13. OwnAreSeen(w)
  BY <1>1, <1>2, <1>7, <1>8, <1>9 DEF GoodWalk, OwnAreSeen
<1>14. Stops(w)
  BY <1>3, <1>7 DEF Stops
<1>15. ASSUME NEW m \in Probes, Settled(k, m) PROVE NearSlot(w, m)
  <2>1. i # m
    <3> SUFFICES ASSUME i = m PROVE FALSE
      OBVIOUS
    <3>1. Anchored(k, i) BY <1>15 DEF Settled
    <3> QED BY <3>1, <1>1, <1>2 DEF Anchored
  <2>2. m \in Nat /\ m <= Len(Rehash) BY <1>15, <1>3 DEF Probes
  <2>3. CASE i > m
    <3>1. Beyond(u, k, m) BY <2>3, <1>1, <1>2 DEF Beyond
    <3>2. /\ Returns(u, k, m)
          /\ \A j \in m + 1 .. Len(Rehash) : j <= TryMax => slot[T!At(k, j)] # k
      BY <3>1, <1>15, <1>1 DEF Settled, ProbedBeyond
    <3>3. Returns(w, k, m) BY <3>2, <1>6, <1>7 DEF Returns
    <3> QED BY <3>2, <3>3, <1>7 DEF NearSlot
  <2>4. CASE i < m
    <3>1. ~Beyond(w, k, m) BY <2>4, <2>2, <1>3, <1>7 DEF Beyond
    <3>2. ASSUME w.pc = "take" PROVE Returns(w, k, m)
      <4>1. i >= TryMax /\ first # None /\ i \in 0 .. m - 1
        BY <3>2, <2>2, <2>4, <1>3, <1>7
      <4>2. PICK j \in 0 .. i : first = T!At(k, j)
        BY <4>1, <1>7, <1>8, <1>12 DEF FirstIsFirst
      <4>3. slot[first] # None BY <4>1, <4>2, <1>15 DEF Settled, NoFreeBefore
      <4> QED BY <4>1, <4>3, <1>7 DEF Returns
    <3> QED BY <3>1, <3>2, <1>7 DEF NearSlot
  <2> QED BY <2>1, <2>2, <2>3, <2>4, <1>3
<1>16. LookupMoves(t, w)
  BY <1>1, <1>2, <1>5, <1>7, <1>11, <1>12, <1>13, <1>14, <1>15 DEF LookupMoves, GoodWalk
<1> QED BY <1>16, MoveKeeps

\* create_node() fills the free slot its lookup holds with the key it looked up: a
\* slot some lookup of that key has returned, so the one the search uses for it.
LEMMA CreateKeeps == ASSUME TableInv, NEW t \in Threads, T!Create(t) PROVE TableInv'
<1>1. PICK k, n : k = lookup[t].key /\ n = lookup[t].at OBVIOUS
<1>2. /\ k \in Keys /\ n \in T!Slots /\ lock[n] = t /\ n \in seen[k] /\ slot[n] = None
      /\ slot' = [slot EXCEPT ![n] = k] /\ UNCHANGED <<lock, seen, lookup>>
      /\ slot \in [T!Slots -> Keys \union {None}] /\ None \notin Keys
      /\ lookup \in [Threads -> Lookups] /\ t # None
  BY <1>1, TableAssumption DEF TableInv, TableTypes, Locks, T!Create
<1>3. \A m \in T!Slots : slot'[m] = IF m = n THEN k ELSE slot[m] BY <1>2
<1>4. TableTypes' BY <1>2 DEF TableInv, TableTypes, T!Slots
<1>5. Locks'
  <2>1. \A u \in Threads : lookup[u].pc = "hold" /\ lookup[u].at = n => u = t
    BY <1>2 DEF TableInv, Locks
  <2>2. \A u \in Threads : lookup[u].pc = "hold" => slot'[lookup[u].at] \in {None, lookup[u].key}
    <3> SUFFICES ASSUME NEW u \in Threads, lookup[u].pc = "hold"
                 PROVE  slot'[lookup[u].at] \in {None, lookup[u].key}
      OBVIOUS
    <3>1. CASE u = t BY <3>1, <1>1, <1>2, <1>3
    <3>2. CASE u # t BY <3>2, <2>1, <1>3 DEF TableInv, Locks
    <3> QED BY <3>1, <3>2
  <2> QED BY <2>2, <1>2 DEF TableInv, Locks, T!Slots
\* What is not free stays so, and no other slot comes to hold the key.
<1>6. \A q \in Keys, j \in Probes :
        /\ slot[T!At(q, j)] # None => slot'[T!At(q, j)] = slot[T!At(q, j)]
        /\ slot'[T!At(q, j)] = q => slot[T!At(q, j)] = q \/ (q = k /\ T!At(q, j) = n)
  BY <1>2, <1>3, ProbeIsSlot
<1>7. Walks'
  <2> SUFFICES ASSUME NEW u \in Threads, lookup[u].pc \in {"probe", "take"}
               PROVE  GoodWalk(lookup[u])'
    BY <1>2 DEF Walks
  <2>1. GoodWalk(lookup[u]) /\ lookup[u].key \in Keys /\ lookup[u].loop \in Probes
    BY <1>2 DEF TableInv, TableTypes, Walks, Lookups
  <2>2. Passed(lookup[u]) \subseteq Probes BY <2>1, TableAssumption DEF Passed, Probes
  <2>3. \A j \in Passed(lookup[u]) : 0 .. j - 1 \subseteq Probes
    BY <2>2, TableAssumption DEF Probes
  <2>4. NoneFree(lookup[u])'
    BY <2>1, <2>2, <1>2, <1>6 DEF GoodWalk, NoneFree, Passed, T!At
  <2>5. FirstIsFirst(lookup[u])'
    <3> SUFFICES ASSUME lookup[u].first # None
                 PROVE  \E j \in Passed(lookup[u]) : /\ lookup[u].first = T!At(lookup[u].key, j)
                          /\ \A l \in 0 .. j - 1 : slot'[T!At(lookup[u].key, l)] # None
      BY <1>2 DEF FirstIsFirst, Passed, T!At
    <3>1. PICK j \in Passed(lookup[u]) :
            /\ lookup[u].first = T!At(lookup[u].key, j)
            /\ \A l \in 0 .. j - 1 : slot[T!At(lookup[u].key, l)] # None
      BY <2>1 DEF GoodWalk, FirstIsFirst
    <3> QED BY <3>1, <2>1, <2>3, <1>6
  <2>6. OwnAreSeen(lookup[u])'
    BY <2>1, <2>2, <1>2, <1>6 DEF GoodWalk, OwnAreSeen, Passed, T!At
  <2>7. Stops(lookup[u])' BY <2>1, <1>2 DEF GoodWalk, Stops
  <2> QED BY <2>4, <2>5, <2>6, <2>7 DEF GoodWalk
<1>8. OneSlot'
  <2> SUFFICES ASSUME NEW q \in Keys, NEW i \in Probes, Settled(q, i) PROVE Settled(q, i)'
    BY <1>2 DEF TableInv, OneSlot, Probes
  <2>1. T!At(q, i) \in T!Slots /\ i \in Nat /\ i <= Len(Rehash) /\ Len(Rehash) \in Nat
    BY ProbeIsSlot, TableAssumption DEF Probes
  <2>2. q = k => n = T!At(q, i) BY <1>2 DEF Settled
  <2>3. Anchored(q, i)'
    <3>1. CASE slot[T!At(q, i)] = q BY <3>1, <1>2, <1>6 DEF Anchored, T!At
    <3>2. CASE lock[T!At(q, i)] # None /\ lookup[lock[T!At(q, i)]].key = q
      BY <3>2, <1>2 DEF Anchored, T!At
    <3> QED BY <3>1, <3>2 DEF Settled, Anchored
  \* No other probe of a settled key comes to hold it.
  <2>4. \A j \in Probes : j # i /\ slot[T!At(q, j)] # q => slot'[T!At(q, j)] # q
    BY <2>2, <1>6, ProbesDiffer
  <2>5. NoneBefore(q, i)'
    <3>1. \A j \in 0 .. i - 1 : j \in Probes /\ j # i BY <2>1 DEF Probes
    <3> QED BY <3>1, <2>4 DEF Settled, NoneBefore, T!At
  <2>6. NoFreeBefore(q, i)'
    <3>1. \A l \in 0 .. i - 1 : 0 .. l \subseteq Probes BY <2>1 DEF Probes
    <3> QED BY <3>1, <1>6 DEF Settled, NoFreeBefore, T!At
  <2>7. ASSUME NEW u \in Threads, Returns(lookup[u], q, i) PROVE Returns(lookup[u], q, i)'
    <3>1. lookup[u].first \in T!Slots BY <2>7, <1>2 DEF Returns, Lookups
    <3> QED BY <2>7, <3>1, <1>2, <1>3 DEF Returns, T!At
  <2>8. LastProbed(q, i)' BY <2>7, <1>2 DEF Settled, LastProbed
  <2>9. ProbedBeyond(q, i)'
    <3> SUFFICES ASSUME NEW u \in Threads, Beyond(lookup[u], q, i)
                 PROVE  /\ Returns(lookup[u], q, i)'
                        /\ \A j \in i + 1 .. Len(Rehash) : j <= TryMax => slot'[T!At(q, j)] # q
      BY <1>2 DEF ProbedBeyond, Beyond, T!At
    <3>1. \A j \in i + 1 .. Len(Rehash) : j \in Probes /\ j # i BY <2>1 DEF Probes
    <3> QED BY <3>1, <2>4, <2>7 DEF Settled, ProbedBeyond
  <2> QED BY <2>3, <2>5, <2>6, <2>8, <2>9, <1>2 DEF Settled, T!At
<1> QED BY <1>4, <1>5, <1>7, <1>8 DEF TableInv

\* The visit ends: the slot that is unlocked holds the key by now.
LEMMA LeaveKeeps == ASSUME TableInv, NEW t \in Threads, T!Leave(t) PROVE TableInv'
<1>1. PICK k, n : k = lookup[t].key /\ n = lookup[t].at OBVIOUS
<1>2. /\ k \in Keys /\ n \in T!Slots /\ lock[n] = t /\ slot[n] = k /\ t # None
      /\ lock' = [lock EXCEPT ![n] = None] /\ lookup' = [lookup EXCEPT ![t] = T!Idle]
      /\ UNCHANGED <<slot, seen>>
      /\ lookup \in [Threads -> Lookups] /\ lock \in [T!Slots -> Threads \union {None}]
  BY <1>1, TableAssumption DEF TableInv, TableTypes, Locks, T!Leave
<1>3. T!Idle \in Lookups /\ T!Idle.pc = "idle" /\ T!Idle.key = None
  <2>1. 0 \in Probes BY TableAssumption DEF Probes
  <2> QED BY <2>1 DEF T!Idle, Lookups
<1>4. /\ lookup' \in [Threads -> Lookups] /\ lookup'[t] = T!Idle
      /\ \A u \in Threads \ {t} : lookup'[u] = lookup[u]
      /\ \A u \in Threads : lookup'[u].pc # "idle" => u # t
      /\ \A u \in Threads : lookup'[u].key \in Keys => u # t
  <2> HIDE DEF T!Idle
  <2> QED BY <1>2, <1>3, TableAssumption
<1>5. /\ lock' \in [T!Slots -> Threads \union {None}] /\ lock'[n] = None
      /\ \A m \in T!Slots \ {n} : lock'[m] = lock[m]
  BY <1>2
<1>6. TableTypes' BY <1>2, <1>4, <1>5 DEF TableInv, TableTypes, T!Slots
<1>7. Locks'
  <2>1. \A u \in Threads \ {t} : lookup[u].pc = "hold" => lookup[u].at # n
    BY <1>2 DEF TableInv, Locks
  <2>2. \A m \in T!Slots : lock'[m] # None => m # n /\ lock'[m] \in Threads \ {t}
    BY <1>1, <1>2, <1>5 DEF TableInv, Locks
  <2> QED BY <2>1, <2>2, <1>2, <1>4, <1>5 DEF TableInv, Locks, T!Slots
<1>8. Walks'
  <2> SUFFICES ASSUME NEW u \in Threads, lookup'[u].pc \in {"probe", "take"}
               PROVE  GoodWalk(lookup[u])'
    BY DEF Walks
  <2>1. lookup'[u] = lookup[u] /\ GoodWalk(lookup[u]) BY <1>4 DEF TableInv, Walks
  <2> QED BY <2>1, <1>2 DEF GoodWalk, NoneFree, FirstIsFirst, OwnAreSeen, Stops, Passed, T!At
<1>9. OneSlot'
  <2> SUFFICES ASSUME NEW q \in Keys, NEW i \in Probes, Settled(q, i) PROVE Settled(q, i)'
    BY <1>2 DEF TableInv, OneSlot, Probes
  <2>1. T!At(q, i) \in T!Slots BY ProbeIsSlot
  <2>2. Anchored(q, i)'
    <3>1. CASE slot[T!At(q, i)] = q BY <3>1, <1>2 DEF Anchored, T!At
    <3>2. CASE slot[T!At(q, i)] # q
      <4>1. lock[T!At(q, i)] # None /\ lookup[lock[T!At(q, i)]].key = q
        BY <3>2 DEF Settled, Anchored
      <4>2. T!At(q, i) # n BY <4>1, <3>2, <1>1, <1>2
      <4>3. lock[T!At(q, i)] \in Threads \ {t}
        BY <4>1, <4>2, <2>1, <1>1, <1>2 DEF TableInv, Locks
      <4> QED BY <4>1, <4>2, <4>3, <2>1, <1>4, <1>5 DEF Anchored, T!At
    <3> QED BY <3>1, <3>2
  <2>3. NoneBefore(q, i)' /\ NoFreeBefore(q, i)'
    BY <1>2 DEF Settled, NoneBefore, NoFreeBefore, T!At
  <2>4. LastProbed(q, i)'
    BY <1>2, <1>4 DEF Settled, LastProbed, Returns, T!At
  <2>5. ProbedBeyond(q, i)'
    BY <1>2, <1>4 DEF Settled, ProbedBeyond, Beyond, Returns, T!At
  <2> QED BY <2>2, <2>3, <2>4, <2>5, <1>2 DEF Settled, T!At
<1> QED BY <1>6, <1>7, <1>8, <1>9 DEF TableInv

\* A new search: no lookup is on its way, and none has returned a slot yet.
LEMMA HalfDelKeeps == ASSUME TableInv, T!HalfDel PROVE TableInv'
<1>1. /\ \A t \in Threads : lookup[t].pc = "idle"
      /\ seen' = [k \in Keys |-> {}] /\ UNCHANGED <<lock, lookup>>
      /\ \E gone : slot' = [n \in T!Slots |-> IF n \in gone THEN None ELSE slot[n]]
  BY DEF T!HalfDel
<1>2. TableTypes' BY <1>1 DEF TableInv, TableTypes, T!Slots
<1>3. Locks'
  <2>1. \A n \in T!Slots : lock[n] = None BY <1>1 DEF TableInv, TableTypes, Locks
  <2> QED BY <2>1, <1>1 DEF Locks, T!Slots
<1>4. Walks' BY <1>1 DEF Walks
<1>5. OneSlot' BY <1>1 DEF OneSlot
<1> QED BY <1>2, <1>3, <1>4, <1>5 DEF TableInv

----------------------------------------------------------------------------
(* The theorems.                                                                 *)

\* Every reachable state of the table has the inductive invariant.
THEOREM TableInvariance == T!Spec => []TableInv
<1>1. T!Init => TableInv
  <2> SUFFICES ASSUME T!Init PROVE TableInv
    OBVIOUS
  <2>1. 0 \in Probes BY TableAssumption DEF Probes
  <2>2. /\ slot = [n \in T!Slots |-> None] /\ lock = [n \in T!Slots |-> None]
        /\ lookup = [t \in Threads |-> T!Idle] /\ seen = [k \in Keys |-> {}]
    BY DEF T!Init
  <2>3. T!Idle \in Lookups /\ T!Idle.pc = "idle" BY <2>1 DEF T!Idle, Lookups
  <2>4. TableTypes BY <2>2, <2>3 DEF TableTypes
  <2> QED BY <2>2, <2>3, <2>4 DEF TableInv, Locks, Walks, OneSlot
<1>2. TableInv /\ [T!Next]_(T!vars) => TableInv'
  <2> SUFFICES ASSUME TableInv, [T!Next]_(T!vars) PROVE TableInv'
    OBVIOUS
  <2>1. ASSUME NEW t \in Threads, T!Call(t) PROVE TableInv' BY <2>1, CallKeeps
  <2>2. ASSUME NEW t \in Threads, T!Probe(t) PROVE TableInv'
    <3>1. CASE slot[T!At(lookup[t].key, lookup[t].loop)] = lookup[t].key
      <4>1. /\ T!Hold(t, T!At(lookup[t].key, lookup[t].loop)) /\ UNCHANGED slot
            /\ lookup[t].pc \in {"probe", "take"}
        BY <2>2, <3>1 DEF T!Probe
      <4> QED BY <2>2, <3>1, <4>1, FoundIsRight, HoldKeeps
    <3>2. CASE slot[T!At(lookup[t].key, lookup[t].loop)] # lookup[t].key
      BY <2>2, <3>2, PassKeeps
    <3> QED BY <3>1, <3>2
  <2>3. ASSUME NEW t \in Threads, T!Take(t) PROVE TableInv'
    <3>1. CASE T!Gone(lookup[t].first) BY <2>3, <3>1, AnewKeeps
    <3>2. CASE ~T!Gone(lookup[t].first)
      <4>1. T!Hold(t, lookup[t].first) /\ UNCHANGED slot /\ lookup[t].pc \in {"probe", "take"}
        BY <2>3, <3>2 DEF T!Take
      <4> QED BY <2>3, <3>2, <4>1, TakenIsRight, HoldKeeps
    <3> QED BY <3>1, <3>2
  <2>4. ASSUME NEW t \in Threads, T!Create(t) PROVE TableInv' BY <2>4, CreateKeeps
  <2>5. ASSUME NEW t \in Threads, T!Leave(t) PROVE TableInv' BY <2>5, LeaveKeeps
  <2>6. CASE T!HalfDel BY <2>6, HalfDelKeeps
  <2>7. CASE UNCHANGED T!vars
    <3>1. UNCHANGED <<slot, lock, seen, lookup>> BY <2>7 DEF T!vars
    <3>2. TableTypes' BY <3>1 DEF TableInv, TableTypes, T!Slots
    <3>3. Locks' BY <3>1 DEF TableInv, Locks, T!Slots
    <3>4. Walks'
      BY <3>1 DEF TableInv, Walks, GoodWalk, NoneFree, FirstIsFirst, OwnAreSeen, Stops, Passed, T!At
    <3>5. ASSUME NEW k \in Keys, NEW i \in Probes, Settled(k, i) PROVE Settled(k, i)'
      BY <3>1, <3>5 DEF Settled, Anchored, NoneBefore, NoFreeBefore, LastProbed, ProbedBeyond,
                       Returns, Beyond, T!At
    <3>6. OneSlot' BY <3>1, <3>5 DEF TableInv, OneSlot, Probes
    <3> QED BY <3>2, <3>3, <3>4, <3>6 DEF TableInv
  <2> QED BY <2>1, <2>2, <2>3, <2>4, <2>5, <2>6, <2>7 DEF T!Next
<1> QED BY <1>1, <1>2, PTL DEF T!Spec

\* One search has one node per position, and a lookup never returns the node of
\* another one (HashShogiReadLock() and create_node(), ysszero.cpp): for any number
\* of threads, any table, any number of probes and any limit TRY_MAX.
THEOREM NodesAreUnique == T!Spec => []OneNodePerSearch
<1>1. TableInv => OneNodePerSearch
  <2> SUFFICES ASSUME TableInv PROVE OneNodePerSearch
    OBVIOUS
  <2>1. \A t \in Threads : lookup[t].pc = "hold" => slot[lookup[t].at] \in {None, lookup[t].key}
    BY DEF TableInv, Locks
  <2>2. \A k \in Keys : \A m, n \in seen[k] : m = n BY DEF TableInv, OneSlot, Settled
  <2> QED BY <2>1, <2>2 DEF OneNodePerSearch, T!OneNodePerSearch
<1> QED BY <1>1, TableInvariance, PTL

-----------------------------------------------------------------------------
(* The tree search: types.                                                       *)

Results == {-1, 0, 1}
Marks   == {"none", "win", "loss"}
Places  == {"enter", "dfpn", "leaf", "relock", "back", "count", "decide", "done"}

Nodes(p) == [n : [Moves[p] -> Int], w : [Moves[p] -> Int], vl : [Moves[p] -> Int],
             exact : [Moves[p] -> Marks], m3 : SUBSET Moves[p], sum : Int, dfpn : Nat]
Frames   == [pc : Places, path : Seq(Pos), q : Pos, win : Results, ex : Marks,
             down : BOOLEAN, cnt : Nat]

TreeTypes ==
  /\ made \subseteq Pos /\ root \in made /\ hist \in Seq(Pos)
  /\ count \in Nat /\ stop \in BOOLEAN
  /\ node = [p \in Pos |-> node[p]] /\ \A p \in Pos : node[p] \in Nodes(p)
  /\ th \in [Threads -> Frames]

\* The moves that selection looks at are moves.
LEMMA MovesAreLegal ==
  /\ Moves \in [Pos -> SUBSET Pos]
  /\ \A p \in Pos : Moves[p] \subseteq Succ[p] /\ Moves[p] \subseteq Pos
BY PositionsAssumption DEF Moves

-----------------------------------------------------------------------------
(* What is true of a node's counts, whoever visits it.                     *)

\* Without the threads below it a move has won or lost no more games than it has.
InRange(nd, q) == /\ nd.w[q] + nd.vl[q] <= nd.n[q] - nd.vl[q]
                  /\ -(nd.w[q] + nd.vl[q]) <= nd.n[q] - nd.vl[q]

GoodNode(p, nd) ==
  /\ nd \in Nodes(p)
  /\ \A q \in Moves[p] : 0 <= nd.vl[q] /\ nd.vl[q] <= nd.n[q]
  /\ \A q \in Moves[p] : nd.dfpn = 0 \/ q \notin DfpnMates => InRange(nd, q)
  /\ IsFiniteSet(Games(nd)) /\ nd.sum = Cardinality(Games(nd))

\* One more game of q, worth g.
Counted(nd, q, g) == [nd EXCEPT !.w[q] = @ + g, !.n[q] = @ + 1, !.sum = @ + 1]

\* Two states of a node that differ in marks only.
SameGames(nd, od) == /\ nd.n = od.n /\ nd.w = od.w /\ nd.vl = od.vl
                     /\ nd.sum = od.sum /\ nd.dfpn = od.dfpn

\* One more game of q is one more element of the numbered games.
LEMMA OneMoreGame ==
  ASSUME NEW Set, NEW q \in Set, NEW nd, NEW md, nd.n \in [Set -> Int], 0 <= nd.n[q],
         md.n = [nd.n EXCEPT ![q] = @ + 1], IsFiniteSet(Games(nd))
  PROVE  IsFiniteSet(Games(md)) /\ Cardinality(Games(md)) = Cardinality(Games(nd)) + 1
<1> DEFINE g == <<q, nd.n[q] + 1>>
<1>1. \A x : x \in Games(nd) <=> \E a \in Set, i \in Int : x = <<a, i>> /\ 1 <= i /\ i <= nd.n[a]
  BY DEF Games
<1>2. \A x : x \in Games(md) <=> \E a \in Set, i \in Int : x = <<a, i>> /\ 1 <= i /\ i <= md.n[a]
  BY DEF Games
<1>3. g \notin Games(nd)
  BY <1>1
<1>4. Games(md) = Games(nd) \cup {g}
  <2>1. ASSUME NEW x \in Games(md) PROVE x \in Games(nd) \cup {g}
    <3>1. PICK a \in Set, i \in Int : x = <<a, i>> /\ 1 <= i /\ i <= md.n[a]
      BY <1>2
    <3>2. CASE a = q /\ i = nd.n[q] + 1
      BY <3>1, <3>2
    <3>3. CASE ~(a = q /\ i = nd.n[q] + 1)
      <4>1. i <= nd.n[a]
        BY <3>1, <3>3
      <4>. QED  BY <3>1, <4>1, <1>1
    <3>. QED  BY <3>2, <3>3
  <2>2. ASSUME NEW x \in Games(nd) PROVE x \in Games(md)
    <3>1. PICK a \in Set, i \in Int : x = <<a, i>> /\ 1 <= i /\ i <= nd.n[a]
      BY <1>1
    <3>2. i <= md.n[a]
      BY <3>1
    <3>. QED  BY <3>1, <3>2, <1>2
  <2>3. g \in Games(md)
    <3>1. 1 <= nd.n[q] + 1 /\ nd.n[q] + 1 <= md.n[q] /\ nd.n[q] + 1 \in Int
      OBVIOUS
    <3>. QED  BY <3>1, <1>2
  <2>. QED  BY <2>1, <2>2, <2>3
<1> HIDE DEF g
<1>5. Games(nd) \cup {g} = Games(md)
  BY <1>4
<1>. QED  BY <1>3, <1>5, FS_AddElement

\* One game less of q, which has one.
LEMMA OneGameLess ==
  ASSUME NEW Set, NEW q \in Set, NEW nd, NEW md, nd.n \in [Set -> Int], 1 <= nd.n[q],
         md.n = [nd.n EXCEPT ![q] = @ - 1], IsFiniteSet(Games(nd))
  PROVE  IsFiniteSet(Games(md)) /\ Cardinality(Games(md)) = Cardinality(Games(nd)) - 1
<1>1. md.n \in [Set -> Int] /\ 0 <= md.n[q] /\ nd.n = [md.n EXCEPT ![q] = @ + 1]
  OBVIOUS
<1>2. \A x : x \in Games(nd) <=> \E a \in Set, i \in Int : x = <<a, i>> /\ 1 <= i /\ i <= nd.n[a]
  BY DEF Games
<1>3. \A x : x \in Games(md) <=> \E a \in Set, i \in Int : x = <<a, i>> /\ 1 <= i /\ i <= md.n[a]
  BY <1>1 DEF Games
<1>4. \A a \in Set : md.n[a] <= nd.n[a] /\ md.n[a] \in Int /\ nd.n[a] \in Int
  OBVIOUS
<1>5. Games(md) \subseteq Games(nd)
  <2>1. ASSUME NEW x \in Games(md) PROVE x \in Games(nd)
    <3>1. PICK a \in Set, i \in Int : x = <<a, i>> /\ 1 <= i /\ i <= md.n[a]
      BY <1>3
    <3>2. i <= nd.n[a]
      BY <3>1, <1>4
    <3>. QED  BY <3>1, <3>2, <1>2
  <2>. QED  BY <2>1
<1>6. IsFiniteSet(Games(md))
  BY <1>5, FS_Subset
<1>7. Cardinality(Games(nd)) = Cardinality(Games(md)) + 1
  BY <1>1, <1>6, OneMoreGame
<1>8. Cardinality(Games(md)) \in Nat
  BY <1>6, FS_CardinalityType
<1>. QED  BY <1>6, <1>7, <1>8

\* The node of these fields, as a set of records.
Fields(n, w, vl, exact, m3, sum, dfpn) ==
  [n : {n}, w : {w}, vl : {vl}, exact : {exact}, m3 : {m3}, sum : {sum}, dfpn : {dfpn}]

\* A node is the only member of the set of its fields.
LEMMA NodeIsItsFields ==
  ASSUME NEW p \in Pos, NEW nd \in Nodes(p)
  PROVE  nd \in Fields(nd.n, nd.w, nd.vl, nd.exact, nd.m3, nd.sum, nd.dfpn)
BY DEF Nodes, Fields

-----------------------------------------------------------------------------
(* The parts of a visit keep a node's counts good.                         *)

\* create_node() (1507-1533): no game, no thread below.
LEMMA NewNodeGood ==
  ASSUME NEW p \in Pos
  PROVE  GoodNode(p, NewNode(p)) /\ \A q \in Moves[p] : NewNode(p).vl[q] = 0
<1>1. NewNode(p) \in Nodes(p)
  BY DEF NewNode, Nodes, Marks
<1>2. Games(NewNode(p)) = {}
  <2>1. \A q \in DOMAIN NewNode(p).n : {q} \X (1 .. NewNode(p).n[q]) = {}
    BY DEF NewNode
  <2>. QED  BY <2>1 DEF Games
<1>3. NewNode(p).sum = Cardinality(Games(NewNode(p))) /\ IsFiniteSet(Games(NewNode(p)))
  BY <1>2, FS_EmptySet DEF NewNode
<1>4. \A q \in Moves[p] : /\ NewNode(p).vl[q] = 0 /\ NewNode(p).n[q] = 0
                         /\ InRange(NewNode(p), q)
  BY DEF NewNode, InRange
<1>. QED  BY <1>1, <1>3, <1>4 DEF GoodNode

\* Marks and mate flags leave the counts alone.
LEMMA SameGamesGood ==
  ASSUME NEW p \in Pos, NEW nd, NEW od, GoodNode(p, od), nd \in Nodes(p), SameGames(nd, od)
  PROVE  GoodNode(p, nd)
<1>1. Games(nd) = Games(od)
  BY DEF SameGames, Games
<1>2. \A q \in Moves[p] : InRange(nd, q) <=> InRange(od, q)
  BY DEF SameGames, InRange
<1>. QED  BY <1>1, <1>2 DEF GoodNode, SameGames

\* A game more (2256-2262).
LEMMA CountedGood ==
  ASSUME NEW p \in Pos, NEW nd, GoodNode(p, nd), NEW q \in Moves[p], NEW g \in Results
  PROVE  /\ GoodNode(p, Counted(nd, q, g)) /\ Counted(nd, q, g).vl = nd.vl
         /\ Counted(nd, q, g).dfpn = nd.dfpn
<1> DEFINE md == Counted(nd, q, g)
<1>2. /\ nd.n \in [Moves[p] -> Int] /\ nd.w \in [Moves[p] -> Int] /\ nd.vl \in [Moves[p] -> Int]
      /\ nd.exact \in [Moves[p] -> Marks] /\ nd.m3 \in SUBSET Moves[p]
      /\ nd.sum \in Int /\ nd.dfpn \in Nat
  BY DEF GoodNode, Nodes
<1>a. md \in Fields([nd.n EXCEPT ![q] = @ + 1], [nd.w EXCEPT ![q] = @ + g],
                    nd.vl, nd.exact, nd.m3, nd.sum + 1, nd.dfpn)
  <2>1. nd \in Fields(nd.n, nd.w, nd.vl, nd.exact, nd.m3, nd.sum, nd.dfpn)
    BY NodeIsItsFields DEF GoodNode
  <2>. QED  BY <2>1 DEF Counted, Fields
<1>1. md \in Nodes(p) /\ md.vl = nd.vl /\ md.dfpn = nd.dfpn /\ md.sum = nd.sum + 1
      /\ md.n = [nd.n EXCEPT ![q] = @ + 1] /\ md.w = [nd.w EXCEPT ![q] = @ + g]
  BY <1>a, <1>2 DEF Fields, Nodes, Results, Marks
<1> HIDE DEF md
<1>3. 0 <= nd.n[q]
  BY <1>2 DEF GoodNode
<1>4. IsFiniteSet(Games(md)) /\ md.sum = Cardinality(Games(md))
  BY <1>1, <1>2, <1>3, OneMoreGame DEF GoodNode
<1>5. \A a \in Moves[p] : 0 <= md.vl[a] /\ md.vl[a] <= md.n[a]
  BY <1>1, <1>2 DEF GoodNode
<1>6. ASSUME NEW a \in Moves[p], InRange(nd, a) PROVE InRange(md, a)
  BY <1>1, <1>2, <1>6 DEF InRange, Results
<1>. QED  BY <1>1, <1>4, <1>5, <1>6 DEF GoodNode, md

\* A thread goes below (2194-2204).
LEMMA VirtualLossGood ==
  ASSUME NEW p \in Pos, NEW nd, GoodNode(p, nd), NEW q \in Moves[p]
  PROVE  /\ GoodNode(p, VirtualLoss(nd, q))
         /\ VirtualLoss(nd, q).vl = [nd.vl EXCEPT ![q] = @ + 1]
         /\ VirtualLoss(nd, q).dfpn = nd.dfpn
<1> DEFINE md == VirtualLoss(nd, q)
<1>2. /\ nd.n \in [Moves[p] -> Int] /\ nd.w \in [Moves[p] -> Int] /\ nd.vl \in [Moves[p] -> Int]
      /\ nd.exact \in [Moves[p] -> Marks] /\ nd.m3 \in SUBSET Moves[p]
      /\ nd.sum \in Int /\ nd.dfpn \in Nat
  BY DEF GoodNode, Nodes
<1>a. md \in Fields([nd.n EXCEPT ![q] = @ + 1], [nd.w EXCEPT ![q] = @ - 1],
                    [nd.vl EXCEPT ![q] = @ + 1], nd.exact, nd.m3, nd.sum + 1, nd.dfpn)
  <2>1. nd \in Fields(nd.n, nd.w, nd.vl, nd.exact, nd.m3, nd.sum, nd.dfpn)
    BY NodeIsItsFields DEF GoodNode
  <2>. QED  BY <2>1 DEF VirtualLoss, Fields
<1>1. md \in Nodes(p) /\ md.vl = [nd.vl EXCEPT ![q] = @ + 1] /\ md.dfpn = nd.dfpn
      /\ md.sum = nd.sum + 1
      /\ md.n = [nd.n EXCEPT ![q] = @ + 1] /\ md.w = [nd.w EXCEPT ![q] = @ - 1]
  BY <1>a, <1>2 DEF Fields, Nodes, Results, Marks
<1> HIDE DEF md
<1>3. 0 <= nd.n[q]
  BY <1>2 DEF GoodNode
<1>4. IsFiniteSet(Games(md)) /\ md.sum = Cardinality(Games(md))
  BY <1>1, <1>2, <1>3, OneMoreGame DEF GoodNode
<1>5. \A a \in Moves[p] : 0 <= md.vl[a] /\ md.vl[a] <= md.n[a]
  BY <1>1, <1>2 DEF GoodNode
<1>6. ASSUME NEW a \in Moves[p], InRange(nd, a) PROVE InRange(md, a)
  BY <1>1, <1>2, <1>6 DEF InRange
<1>. QED  BY <1>1, <1>4, <1>5, <1>6 DEF GoodNode, md

\* It comes back (2209-2221): a move without a game has no value left.
LEMMA TakeBackGood ==
  ASSUME NEW p \in Pos, NEW nd, GoodNode(p, nd), NEW q \in Moves[p], 1 <= nd.vl[q]
  PROVE  /\ GoodNode(p, TakeBack(nd, q))
         /\ TakeBack(nd, q).vl = [nd.vl EXCEPT ![q] = @ - 1]
         /\ TakeBack(nd, q).dfpn = nd.dfpn
<1> DEFINE md == TakeBack(nd, q)
<1>2. /\ nd.n \in [Moves[p] -> Int] /\ nd.w \in [Moves[p] -> Int] /\ nd.vl \in [Moves[p] -> Int]
      /\ nd.exact \in [Moves[p] -> Marks] /\ nd.m3 \in SUBSET Moves[p]
      /\ nd.sum \in Int /\ nd.dfpn \in Nat
  BY DEF GoodNode, Nodes
<1>a. md \in Fields([nd.n EXCEPT ![q] = @ - 1], [nd.w EXCEPT ![q] = IF nd.n[q] = 1 THEN 0 ELSE @ + 1],
                    [nd.vl EXCEPT ![q] = @ - 1], nd.exact, nd.m3, nd.sum - 1, nd.dfpn)
  <2>1. nd \in Fields(nd.n, nd.w, nd.vl, nd.exact, nd.m3, nd.sum, nd.dfpn)
    BY NodeIsItsFields DEF GoodNode
  <2>. QED  BY <2>1 DEF TakeBack, Fields
<1>1. md \in Nodes(p) /\ md.vl = [nd.vl EXCEPT ![q] = @ - 1] /\ md.dfpn = nd.dfpn
      /\ md.sum = nd.sum - 1 /\ md.n = [nd.n EXCEPT ![q] = @ - 1]
      /\ md.w = [nd.w EXCEPT ![q] = IF nd.n[q] = 1 THEN 0 ELSE @ + 1]
  BY <1>a, <1>2 DEF Fields, Nodes, Results, Marks
<1> HIDE DEF md
<1>3. 1 <= nd.n[q]
  BY <1>2 DEF GoodNode
<1>4. IsFiniteSet(Games(md)) /\ md.sum = Cardinality(Games(md))
  BY <1>1, <1>2, <1>3, OneGameLess DEF GoodNode
<1>5. \A a \in Moves[p] : 0 <= md.vl[a] /\ md.vl[a] <= md.n[a]
  BY <1>1, <1>2 DEF GoodNode
<1>6. ASSUME NEW a \in Moves[p], InRange(nd, a) PROVE InRange(md, a)
  <2>1. CASE a # q
    BY <1>1, <1>2, <1>6, <2>1 DEF InRange
  <2>2. CASE a = q
    BY <1>1, <1>2, <1>3, <1>6, <2>2 DEF InRange
  <2>. QED  BY <2>1, <2>2
<1>. QED  BY <1>1, <1>4, <1>5, <1>6 DEF GoodNode, md

\* A mate of dfpn (1884-1901): where its value may leave the range.
LEMMA SolveGood ==
  ASSUME NEW p \in Pos, NEW nd, GoodNode(p, nd), NEW q \in Moves[p], q \in DfpnMates,
         nd.dfpn > 0
  PROVE  GoodNode(p, Solve(nd, q)) /\ Solve(nd, q).vl = nd.vl /\ Solve(nd, q).dfpn = nd.dfpn
<1> DEFINE md == Solve(nd, q)
<1>2. /\ nd.n \in [Moves[p] -> Int] /\ nd.w \in [Moves[p] -> Int] /\ nd.vl \in [Moves[p] -> Int]
      /\ nd.exact \in [Moves[p] -> Marks] /\ nd.m3 \in SUBSET Moves[p]
      /\ nd.sum \in Int /\ nd.dfpn \in Nat
  BY DEF GoodNode, Nodes
<1>a. md \in Fields([nd.n EXCEPT ![q] = @ + 1], [nd.w EXCEPT ![q] = nd.n[q] + 1],
                    nd.vl, [nd.exact EXCEPT ![q] = "win"], nd.m3, nd.sum + 1, nd.dfpn)
  <2>1. nd \in Fields(nd.n, nd.w, nd.vl, nd.exact, nd.m3, nd.sum, nd.dfpn)
    BY NodeIsItsFields DEF GoodNode
  <2>. QED  BY <2>1 DEF Solve, Fields
<1>1. md \in Nodes(p) /\ md.vl = nd.vl /\ md.dfpn = nd.dfpn /\ md.sum = nd.sum + 1
      /\ md.n = [nd.n EXCEPT ![q] = @ + 1] /\ md.w = [nd.w EXCEPT ![q] = nd.n[q] + 1]
  BY <1>a, <1>2 DEF Fields, Nodes, Results, Marks
<1> HIDE DEF md
<1>3. 0 <= nd.n[q]
  BY <1>2 DEF GoodNode
<1>4. IsFiniteSet(Games(md)) /\ md.sum = Cardinality(Games(md))
  BY <1>1, <1>2, <1>3, OneMoreGame DEF GoodNode
<1>5. \A a \in Moves[p] : 0 <= md.vl[a] /\ md.vl[a] <= md.n[a]
  BY <1>1, <1>2 DEF GoodNode
<1>6. ASSUME NEW a \in Moves[p], a # q, InRange(nd, a) PROVE InRange(md, a)
  BY <1>1, <1>2, <1>6 DEF InRange
<1>7. \A a \in Moves[p] : md.dfpn = 0 \/ a \notin DfpnMates => a # q /\ (nd.dfpn = 0 \/ a \notin DfpnMates)
  BY <1>1
<1>. QED  BY <1>1, <1>4, <1>5, <1>6, <1>7 DEF GoodNode, md

-----------------------------------------------------------------------------
(* The threads below a move.                                               *)

\* Below(), of any threads.
BelowOf(h, p, q) ==
  {x \in Threads \X (1 .. MaxPly + 1) : Takes(h[x[1]].path, x[2], p, q)}

\* The threads below an edge are finitely many.
LEMMA BelowFinite ==
  ASSUME NEW h, NEW p, NEW q
  PROVE  IsFiniteSet(BelowOf(h, p, q)) /\ Cardinality(BelowOf(h, p, q)) \in Nat
<1>1. IsFiniteSet(1 .. MaxPly + 1)
  <2>1. MaxPly + 1 \in Int
    BY BoundsAssumption
  <2>. QED  BY <2>1, FS_Interval
<1>2. IsFiniteSet(Threads \X (1 .. MaxPly + 1))
  BY <1>1, ThreadsAssumption, FS_Product
<1>3. IsFiniteSet(BelowOf(h, p, q))
  BY <1>2, FS_Subset DEF BelowOf
<1>. QED  BY <1>3, FS_CardinalityType

\* A thread that stays on its line.
LEMMA BelowStays ==
  ASSUME NEW h, NEW g, NEW t \in Threads, \A u \in Threads \ {t} : g[u] = h[u],
         g[t].path = h[t].path, NEW p, NEW q
  PROVE  BelowOf(g, p, q) = BelowOf(h, p, q)
<1>1. \A u \in Threads : g[u].path = h[u].path
  OBVIOUS
<1>. QED  BY <1>1 DEF BelowOf

\* A line that goes on by the move a -> c takes that move once more.
LEMMA TakesAppended ==
  ASSUME NEW path \in Seq(Pos), path # <<>>, NEW c \in Pos, NEW p, NEW q, NEW i \in Nat, 1 <= i
  PROVE  LET a == path[Len(path)]
         IN Takes(Append(path, c), i, p, q)
              <=> (Takes(path, i, p, q) \/ (i = Len(path) /\ p = a /\ q = c))
<1> DEFINE s == Append(path, c)
<1>1. /\ Len(path) \in Nat /\ Len(path) >= 1 /\ Len(s) = Len(path) + 1
      /\ s[Len(path) + 1] = c /\ \A j \in 1 .. Len(path) : s[j] = path[j]
  OBVIOUS
<1> HIDE DEF s
<1>2. CASE i < Len(path)
  <2>1. s[i] = path[i] /\ s[i+1] = path[i+1]
    BY <1>1, <1>2
  <2>. QED  BY <1>1, <1>2, <2>1 DEF Takes, s
<1>3. CASE i = Len(path)
  <2>1. s[i] = path[i] /\ s[i+1] = c
    BY <1>1, <1>3
  <2>. QED  BY <1>1, <1>3, <2>1 DEF Takes, s
<1>4. CASE i > Len(path)
  BY <1>1, <1>4 DEF Takes, s
<1>. QED  BY <1>1, <1>2, <1>3, <1>4

\* Between h and g thread t has gone down to c.
Goes(h, g, t, c) ==
  /\ \A u \in Threads \ {t} : g[u] = h[u]
  /\ h[t].path \in Seq(Pos) /\ h[t].path # <<>> /\ Len(h[t].path) <= MaxPly + 1
  /\ g[t].path = Append(h[t].path, c)

\* A thread that goes down from a to c is one more below that move, and below
\* no other.
LEMMA BelowGrows ==
  ASSUME NEW h, NEW g, NEW t \in Threads, NEW c \in Pos, Goes(h, g, t, c), NEW p, NEW q
  PROVE  Cardinality(BelowOf(g, p, q)) =
           IF p = h[t].path[Len(h[t].path)] /\ q = c
             THEN Cardinality(BelowOf(h, p, q)) + 1 ELSE Cardinality(BelowOf(h, p, q))
<1> DEFINE path == h[t].path
           a == path[Len(path)]
           e == <<t, Len(path)>>
<1>a. /\ \A u \in Threads \ {t} : g[u] = h[u]
      /\ path \in Seq(Pos) /\ path # <<>> /\ Len(path) <= MaxPly + 1
      /\ g[t].path = Append(path, c)
  BY DEF Goes
<1>1. path \in Seq(Pos) /\ Len(path) \in Nat /\ Len(path) >= 1
  BY <1>a
<1>2. \A u \in Threads : u # t => g[u] = h[u]
  BY <1>a
<1>3. g[t].path = Append(path, c)
  BY <1>a
<1>4. e \in Threads \X (1 .. MaxPly + 1)
  BY <1>a, <1>1, BoundsAssumption
<1> HIDE DEF path, a
<1>5. ASSUME NEW u \in Threads, NEW i \in 1 .. MaxPly + 1
      PROVE  Takes(g[u].path, i, p, q) <=> (Takes(h[u].path, i, p, q)
                                             \/ (u = t /\ i = Len(path) /\ p = a /\ q = c))
  <2>0. i \in Nat /\ 1 <= i
    BY BoundsAssumption
  <2>1. CASE u = t
    <3>1. Takes(Append(path, c), i, p, q)
            <=> (Takes(path, i, p, q) \/ (i = Len(path) /\ p = a /\ q = c))
      BY <1>a, <1>1, <2>0, TakesAppended DEF a, path
    <3>. QED  BY <2>1, <3>1, <1>3 DEF path
  <2>2. CASE u # t
    BY <1>2, <2>2
  <2>. QED  BY <2>1, <2>2
<1>6. ~Takes(h[t].path, Len(path), p, q)
  BY <1>1 DEF Takes, path
<1>7. CASE p = a /\ q = c
  <2>1. BelowOf(g, p, q) = BelowOf(h, p, q) \cup {e}
    <3>1. \A x \in Threads \X (1 .. MaxPly + 1) :
            Takes(g[x[1]].path, x[2], p, q) <=> (Takes(h[x[1]].path, x[2], p, q) \/ x = e)
      BY <1>5, <1>7
    <3>. QED  BY <3>1, <1>4 DEF BelowOf
  <2>2. e \notin BelowOf(h, p, q)
    BY <1>6 DEF BelowOf
  <2> HIDE DEF e
  <2>3. Cardinality(BelowOf(h, p, q) \cup {e}) = Cardinality(BelowOf(h, p, q)) + 1
    BY <2>2, BelowFinite, FS_AddElement
  <2>. QED  BY <1>7, <2>1, <2>3 DEF a, path
<1>8. CASE ~(p = a /\ q = c)
  <2>1. BelowOf(g, p, q) = BelowOf(h, p, q)
    BY <1>5, <1>8 DEF BelowOf
  <2>. QED  BY <1>8, <2>1 DEF a, path
<1>. QED  BY <1>7, <1>8

\* A sequence without its last element.
LEMMA FrontAndLast ==
  ASSUME NEW Set, NEW s \in Seq(Set), Len(s) >= 2
  PROVE  LET f == SubSeq(s, 1, Len(s) - 1)
         IN /\ f \in Seq(Set) /\ Len(f) = Len(s) - 1 /\ f # <<>>
            /\ Len(s) \in Nat /\ s[Len(s)] \in Set /\ s = Append(f, s[Len(s)])
            /\ f[Len(f)] = s[Len(s) - 1]
            /\ \A i \in 1 .. Len(s) - 1 : f[i] = s[i]
<1> DEFINE f == SubSeq(s, 1, Len(s) - 1)
<1>1. /\ Len(s) \in Nat /\ s[Len(s)] \in Set /\ f \in Seq(Set) /\ Len(f) = Len(s) - 1
      /\ \A i \in 1 .. Len(s) - 1 : f[i] = s[i]
  OBVIOUS
<1> HIDE DEF f
<1>2. s = Append(f, s[Len(s)])
  <2> DEFINE r == Append(f, s[Len(s)])
  <2>1. r \in Seq(Set) /\ Len(r) = Len(s) /\ r[Len(s)] = s[Len(s)]
        /\ \A i \in 1 .. Len(s) - 1 : r[i] = f[i]
    BY <1>1
  <2> HIDE DEF r
  <2>2. \A i \in 1 .. Len(s) : r[i] = s[i]
    BY <1>1, <2>1
  <2>3. r = s
    BY <1>1, <2>1, <2>2
  <2>. QED  BY <2>3 DEF r
<1>3. f # <<>> /\ f[Len(f)] = s[Len(s) - 1]
  <2>1. Len(f) >= 1 /\ Len(s) - 1 \in 1 .. Len(s) - 1 /\ Len(f) = Len(s) - 1
    BY <1>1
  <2>. QED  BY <1>1, <2>1
<1>4. /\ f \in Seq(Set) /\ Len(f) = Len(s) - 1 /\ f # <<>>
      /\ Len(s) \in Nat /\ s[Len(s)] \in Set /\ s = Append(f, s[Len(s)])
      /\ f[Len(f)] = s[Len(s) - 1]
      /\ \A i \in 1 .. Len(s) - 1 : f[i] = s[i]
  BY <1>1, <1>2, <1>3
<1>. QED  BY <1>4, Zenon DEF f

\* A thread that comes back up from c is one less below that move.
LEMMA BelowShrinks ==
  ASSUME NEW h, NEW g, NEW t \in Threads, NEW c \in Pos, Goes(g, h, t, c), NEW p, NEW q
  PROVE  Cardinality(BelowOf(g, p, q)) =
           IF p = g[t].path[Len(g[t].path)] /\ q = c
             THEN Cardinality(BelowOf(h, p, q)) - 1 ELSE Cardinality(BelowOf(h, p, q))
<1>1. Cardinality(BelowOf(h, p, q)) =
        IF p = g[t].path[Len(g[t].path)] /\ q = c
          THEN Cardinality(BelowOf(g, p, q)) + 1 ELSE Cardinality(BelowOf(g, p, q))
  BY BelowGrows
<1>2. Cardinality(BelowOf(g, p, q)) \in Nat
  BY BelowFinite
<1>. QED  BY <1>1, <1>2

-----------------------------------------------------------------------------
(* The inductive invariant.                                                *)

\* A thread's frame: its line leads through nodes that are there, by legal moves,
\* and no further than a game; where it is in the code agrees with the line.
FrameOK(f) ==
  LET last == f.path[Len(f.path)]
  IN /\ f.path # <<>> /\ Len(f.path) <= MaxPly + 1
     /\ \A i \in 1 .. Len(f.path) - 1 : f.path[i] \in made /\ f.path[i+1] \in Moves[f.path[i]]
     /\ f.pc \in {"dfpn", "leaf", "relock"} => last \in made
     /\ f.pc \in {"leaf", "relock"} => Len(f.path) <= MaxPly /\ f.q \in Moves[last]
     /\ f.pc = "dfpn" => node[last].dfpn > 0
     /\ f.pc = "back" => Len(f.path) >= 2
     /\ f.pc \in {"count", "decide", "done"} => Len(f.path) = 1

Frame == \A t \in Threads : FrameOK(th[t])

\* A node that is not there is as create_node() would make it.
Fresh == \A p \in Pos \ made : node[p] = NewNode(p)

GoodNodes == \A p \in Pos : GoodNode(p, node[p])

Losses == \A p \in Pos : \A q \in Moves[p] : node[p].vl[q] = Cardinality(BelowOf(th, p, q))

\* The threads that have seen the threshold are at least the playouts counted
\* since, and they are at the end of their loop.
Over == {t \in Threads : th[t].cnt >= Threshold}
Playouts == /\ count - Threshold + 1 <= Cardinality(Over)
            /\ \A t \in Over : th[t].pc \in {"decide", "done"}

TreeInv == TreeTypes /\ Frame /\ Fresh /\ GoodNodes /\ Losses /\ Playouts

-----------------------------------------------------------------------------
(* One thread's step, the one node it changes.                             *)

\* Thread t moves and the node of p becomes nd.
Visits(t, p, nd) ==
  /\ th' \in [Threads -> Frames] /\ \A u \in Threads \ {t} : th'[u] = th[u]
  /\ p \in Pos /\ p \in made' /\ GoodNode(p, nd) /\ nd.dfpn >= node[p].dfpn
  /\ node' = [node EXCEPT ![p] = nd]
  /\ made \subseteq made' /\ made' \subseteq Pos
  /\ root' = root /\ hist' = hist

\* A step at one node keeps the types.
LEMMA VisitTypes ==
  ASSUME TreeTypes, Fresh, GoodNodes, NEW t \in Threads, NEW p, NEW nd, Visits(t, p, nd),
         count' \in Nat, stop' \in BOOLEAN
  PROVE  TreeTypes' /\ Fresh' /\ GoodNodes'
<1>1. node = [x \in Pos |-> node[x]] /\ p \in Pos
  BY DEF TreeTypes, Visits
<1>2. /\ node' = [x \in Pos |-> node'[x]] /\ node'[p] = nd
      /\ \A x \in Pos : x # p => node'[x] = node[x]
  BY <1>1 DEF Visits
<1>3. nd \in Nodes(p) /\ \A x \in Pos : node[x] \in Nodes(x)
  BY DEF Visits, GoodNode, TreeTypes
<1>4. TreeTypes'
  <2>1. \A x \in Pos : node'[x] \in Nodes(x)
    BY <1>2, <1>3
  <2>. QED  BY <2>1, <1>2 DEF TreeTypes, Visits, Nodes
<1>5. Fresh'
  BY <1>2 DEF Fresh, Visits, NewNode
<1>6. GoodNodes'
  <2>1. \A x \in Pos : GoodNode(x, node'[x])
    BY <1>2 DEF GoodNodes, Visits
  <2>. QED  BY <2>1 DEF GoodNodes, GoodNode, Nodes, InRange
<1>. QED  BY <1>4, <1>5, <1>6

\* The other threads' frames stay as good as they were.
LEMMA VisitFrames ==
  ASSUME TreeTypes, Frame, GoodNodes, NEW t \in Threads, NEW p, NEW nd, Visits(t, p, nd),
         FrameOK(th[t])'
  PROVE  Frame'
<1>1. \A x \in Pos : node'[x].dfpn >= node[x].dfpn /\ node'[x].dfpn \in Int
                     /\ node[x].dfpn \in Int
  <2>1. nd.dfpn \in Int /\ \A x \in Pos : node[x].dfpn \in Int
    BY DEF Visits, GoodNode, TreeTypes, Nodes
  <2>2. node = [x \in Pos |-> node[x]]
    BY DEF TreeTypes
  <2>3. \A x \in Pos : node'[x] = IF x = p THEN nd ELSE node[x]
    BY <2>2 DEF Visits
  <2>. QED  BY <2>1, <2>3 DEF Visits
<1>2. ASSUME NEW u \in Threads, u # t PROVE FrameOK(th[u])'
  <2>1. th'[u] = th[u] /\ FrameOK(th[u]) /\ made \subseteq made'
    BY <1>2 DEF Visits, Frame
  <2>2. th[u].path \in Seq(Pos)
    BY DEF TreeTypes, Frames
  <2>3. th[u].path # <<>> => th[u].path[Len(th[u].path)] \in Pos
    BY <2>2
  <2>4. th[u].pc = "dfpn" => node'[th[u].path[Len(th[u].path)]].dfpn > 0
    BY <1>1, <2>1, <2>3 DEF FrameOK
  <2>. QED  BY <2>1, <2>4 DEF FrameOK
<1>. QED  BY <1>2 DEF Frame

\* The losses, for a thread that stays, goes down or comes back up.
LEMMA LossesStay ==
  ASSUME TreeTypes, Losses, NEW t \in Threads, NEW p, NEW nd, Visits(t, p, nd),
         th'[t].path = th[t].path, nd.vl = node[p].vl
  PROVE  Losses'
<1>1. \A x, y : BelowOf(th', x, y) = BelowOf(th, x, y)
  BY BelowStays DEF Visits
<1>2. node = [x \in Pos |-> node[x]]
  BY DEF TreeTypes
<1>3. \A x \in Pos : node'[x].vl = node[x].vl
  BY <1>2 DEF Visits
<1>. QED  BY <1>1, <1>3 DEF Losses

\* A thread that goes down an edge has put its virtual loss there.
LEMMA LossesGrow ==
  ASSUME TreeTypes, Losses, NEW t \in Threads, NEW p, NEW nd, Visits(t, p, nd), NEW q \in Moves[p],
         Goes(th, th', t, q), p = Top(t), nd.vl = [node[p].vl EXCEPT ![q] = @ + 1]
  PROVE  Losses'
<1>1. q \in Pos /\ p \in Pos
  BY MovesAreLegal DEF Visits
<1>2. \A x, y : Cardinality(BelowOf(th', x, y)) =
                  IF x = p /\ y = q THEN Cardinality(BelowOf(th, x, y)) + 1
                                    ELSE Cardinality(BelowOf(th, x, y))
  BY <1>1, BelowGrows DEF Top
<1>3. node = [x \in Pos |-> node[x]]
  BY DEF TreeTypes
<1>4. \A x \in Pos : node'[x] = IF x = p THEN nd ELSE node[x]
  BY <1>3 DEF Visits
<1>5. node[p].vl \in [Moves[p] -> Int]
  BY <1>1 DEF TreeTypes, Nodes
<1>6. ASSUME NEW x \in Pos, NEW y \in Moves[x]
      PROVE  node'[x].vl[y] = Cardinality(BelowOf(th', x, y))
  <2>1. node[x].vl[y] = Cardinality(BelowOf(th, x, y))
    BY DEF Losses
  <2>2. CASE x = p /\ y = q
    <3>1. node'[x].vl[y] = node[p].vl[q] + 1
      BY <1>4, <1>5, <2>2
    <3>. QED  BY <3>1, <2>1, <2>2, <1>2
  <2>3. CASE ~(x = p /\ y = q)
    <3>1. node'[x].vl[y] = node[x].vl[y]
      BY <1>4, <1>5, <2>3
    <3>. QED  BY <3>1, <2>1, <2>3, <1>2
  <2>. QED  BY <2>2, <2>3
<1>. QED  BY <1>6 DEF Losses

\* A thread that comes back has taken its virtual loss away.
LEMMA LossesShrink ==
  ASSUME TreeTypes, Losses, NEW t \in Threads, NEW p, NEW nd, Visits(t, p, nd), NEW q \in Moves[p],
         Goes(th', th, t, q), p = th'[t].path[Len(th'[t].path)],
         nd.vl = [node[p].vl EXCEPT ![q] = @ - 1]
  PROVE  Losses'
<1>1. q \in Pos /\ p \in Pos
  BY MovesAreLegal DEF Visits
<1>2. \A x, y : Cardinality(BelowOf(th', x, y)) =
                  IF x = p /\ y = q THEN Cardinality(BelowOf(th, x, y)) - 1
                                    ELSE Cardinality(BelowOf(th, x, y))
  BY <1>1, BelowShrinks
<1>3. node = [x \in Pos |-> node[x]]
  BY DEF TreeTypes
<1>4. \A x \in Pos : node'[x] = IF x = p THEN nd ELSE node[x]
  BY <1>3 DEF Visits
<1>5. node[p].vl \in [Moves[p] -> Int]
  BY <1>1 DEF TreeTypes, Nodes
<1>6. ASSUME NEW x \in Pos, NEW y \in Moves[x]
      PROVE  node'[x].vl[y] = Cardinality(BelowOf(th', x, y))
  <2>1. node[x].vl[y] = Cardinality(BelowOf(th, x, y))
    BY DEF Losses
  <2>2. CASE x = p /\ y = q
    <3>1. node'[x].vl[y] = node[p].vl[q] - 1
      BY <1>4, <1>5, <2>2
    <3>. QED  BY <3>1, <2>1, <2>2, <1>2
  <2>3. CASE ~(x = p /\ y = q)
    <3>1. node'[x].vl[y] = node[x].vl[y]
      BY <1>4, <1>5, <2>3
    <3>. QED  BY <3>1, <2>1, <2>3, <1>2
  <2>. QED  BY <2>2, <2>3
<1>. QED  BY <1>6 DEF Losses

\* A step that counts no playout.
LEMMA PlayoutsStay ==
  ASSUME TreeTypes, Playouts, NEW t \in Threads, \A u \in Threads \ {t} : th'[u] = th[u],
         th'[t].cnt = th[t].cnt, count' = count,
         t \in Over => th'[t].pc \in {"decide", "done"}
  PROVE  Playouts'
<1>1. Over' = Over
  BY DEF Over, Threshold
<1>2. \A u \in Over : th'[u].pc \in {"decide", "done"}
  BY DEF Playouts, Over
<1>. QED  BY <1>1, <1>2 DEF Playouts, Threshold

-----------------------------------------------------------------------------
(* What a visit can come to after the node's lock is taken: Play() and      *)
(* Select().                                                               *)

Ends(t, p, nd) == \E q \in Moves[p], g \in Results, v \in Results, ex \in Marks :
  node' = [node EXCEPT ![p] = Counted(nd, q, g)] /\ Return(t, v, ex)
Quits(t, p, nd) == node' = [node EXCEPT ![p] = nd] /\ Return(t, -1, "win")
ToLeaf(t, p, nd) == \E q \in Moves[p] :
  /\ Len(th[t].path) <= MaxPly
  /\ node' = [node EXCEPT ![p] = nd]
  /\ th' = [th EXCEPT ![t].pc = "leaf", ![t].q = q]
Descends(t, p, nd) == \E q \in Moves[p] : Len(th[t].path) <= MaxPly /\ GoDown(t, p, nd, q)
Outcome(t, p, nd) == Ends(t, p, nd) \/ Quits(t, p, nd) \/ ToLeaf(t, p, nd) \/ Descends(t, p, nd)

\* The end of a visit counts a game of -1, 0 or 1 (2226-2266).
LEMMA EndVisitOutcome ==
  ASSUME NEW t \in Threads, NEW p \in Pos, NEW nd, NEW q \in Moves[p], NEW win \in Results,
         EndVisit(t, p, nd, q, win)
  PROVE  Ends(t, p, nd)
<1>1. CASE q \in Won(nd)
  <2>1. node' = [node EXCEPT ![p] = Counted(nd, q, 1)] /\ Return(t, 1, "loss")
    BY <1>1 DEF EndVisit, Update, Counted
  <2>. QED  BY <2>1 DEF Ends, Results, Marks
<1>2. CASE q \notin Won(nd)
  <2>1. node' = [node EXCEPT ![p] = Counted(nd, q, win)] /\ Return(t, win, "none")
    BY <1>2 DEF EndVisit, Update, Counted
  <2>. QED  BY <2>1 DEF Ends, Marks
<1>. QED  BY <1>1, <1>2

\* A move that is made on the board (2095-2161).
LEMMA PlayOutcome ==
  ASSUME TreeTypes, NEW t \in Threads, NEW p \in Pos, NEW od \in Nodes(p), NEW q \in Moves[p],
         Play(t, p, od, q)
  PROVE  \E nd \in Nodes(p) : SameGames(nd, od) /\ Outcome(t, p, nd)
<1> DEFINE rep   == Repetition(Line(t), q)
           quiet == q \notin InCheck
           said  == quiet /\ q \in Declares
           try3  == rep = "none" /\ ~said /\ quiet /\ q \notin od.m3
           mated == try3 /\ q \in Mate3
           nd    == [od EXCEPT !.m3 = IF try3 THEN @ \union {q} ELSE @,
                               !.exact[q] = IF mated THEN "loss" ELSE @]
           over  == Len(Line(t)) >= MaxPly
<1>1. nd \in Nodes(p) /\ SameGames(nd, od)
  <2> DEFINE M == IF try3 THEN od.m3 \union {q} ELSE od.m3
             L == IF mated THEN "loss" ELSE od.exact[q]
  <2>1. od.m3 \in SUBSET Moves[p] /\ od.exact \in [Moves[p] -> Marks]
    BY DEF Nodes
  <2>2. M \in SUBSET Moves[p] /\ L \in Marks
    BY <2>1 DEF Marks
  <2>3. nd = [od EXCEPT !.m3 = M, !.exact[q] = L]
    OBVIOUS
  <2> HIDE DEF M, L, nd
  <2>4. od \in Fields(od.n, od.w, od.vl, od.exact, od.m3, od.sum, od.dfpn)
    BY NodeIsItsFields
  <2>5. nd \in Fields(od.n, od.w, od.vl, [od.exact EXCEPT ![q] = L], M, od.sum, od.dfpn)
    BY <2>3, <2>4 DEF Fields
  <2>6. [od.exact EXCEPT ![q] = L] \in [Moves[p] -> Marks]
    BY <2>1, <2>2
  <2>. QED  BY <2>2, <2>5, <2>6 DEF Fields, Nodes, SameGames
<1>2. ~over => Len(th[t].path) <= MaxPly
  <2>1. hist \in Seq(Pos) /\ th[t].path \in Seq(Pos)
    BY DEF TreeTypes, Frames
  <2>2. Len(Line(t)) = Len(hist) + Len(th[t].path) /\ Len(hist) \in Nat
        /\ Len(th[t].path) \in Nat
    BY <2>1 DEF Line
  <2>. QED  BY <2>2, BoundsAssumption
<1>3. \/ EndVisit(t, p, nd, q, 0) \/ EndVisit(t, p, nd, q, -1) \/ EndVisit(t, p, nd, q, 1)
      \/ ~over /\ nd.n[q] = 0 /\ node' = [node EXCEPT ![p] = nd]
           /\ th' = [th EXCEPT ![t].pc = "leaf", ![t].q = q]
      \/ ~over /\ GoDown(t, p, nd, q)
  <2> HIDE DEF nd, rep, over
  <2>1. CASE over
    BY <2>1 DEF Play, nd, rep, over
  <2>2. CASE ~over /\ (said \/ mated)
    BY <2>2 DEF Play, nd, rep, over
  <2>3. CASE ~over /\ ~(said \/ mated) /\ rep = "win"
    BY <2>3 DEF Play, nd, rep, over
  <2>4. CASE ~over /\ ~(said \/ mated) /\ rep = "draw"
    BY <2>4 DEF Play, nd, rep, over
  <2>5. CASE ~over /\ ~(said \/ mated) /\ rep \notin {"win", "draw"}
    BY <2>5 DEF Play, nd, rep, over
  <2>. QED  BY <2>1, <2>2, <2>3, <2>4, <2>5
<1> HIDE DEF nd, over
<1>4. CASE EndVisit(t, p, nd, q, 0) \/ EndVisit(t, p, nd, q, -1) \/ EndVisit(t, p, nd, q, 1)
  <2>1. Ends(t, p, nd)
    BY <1>4, EndVisitOutcome DEF Results
  <2>. QED  BY <1>1, <2>1 DEF Outcome
<1>5. CASE ~over /\ node' = [node EXCEPT ![p] = nd]
           /\ th' = [th EXCEPT ![t].pc = "leaf", ![t].q = q]
  <2>1. ToLeaf(t, p, nd)
    BY <1>2, <1>5 DEF ToLeaf
  <2>. QED  BY <1>1, <2>1 DEF Outcome
<1>6. CASE ~over /\ GoDown(t, p, nd, q)
  <2>1. Descends(t, p, nd)
    BY <1>2, <1>6 DEF Descends
  <2>. QED  BY <1>1, <2>1 DEF Outcome
<1>. QED  BY <1>3, <1>4, <1>5, <1>6

\* The loop select_again (1962-2093).
LEMMA SelectOutcome ==
  ASSUME TreeTypes, NEW t \in Threads, NEW p \in Pos, NEW od \in Nodes(p), Select(t, p, od)
  PROVE  \E nd \in Nodes(p) : SameGames(nd, od) /\ Outcome(t, p, nd)
<1> DEFINE Unmark(tried) == [od EXCEPT !.exact =
                               [q \in Moves[p] |-> IF q \in tried THEN "none" ELSE @[q]]]
           barred == {q \in Moves[p] : Repetition(Line(t), q) = "illegal"}
           legal  == Playable(od) \ barred
           wins   == Won(od) \ barred
<1>1. \A tried : Unmark(tried) \in Nodes(p) /\ SameGames(Unmark(tried), od)
  BY DEF Nodes, SameGames, Marks
<1>2. \/ node' = [node EXCEPT ![p] = Unmark(Playable(od))] /\ Return(t, -1, "win")
      \/ \E tried : \E q \in IF wins # {} THEN wins ELSE legal : Play(t, p, Unmark(tried), q)
  <2>1. CASE legal = {}
    BY <2>1 DEF Select
  <2>2. CASE legal # {}
    <3>1. PICK tried \in SUBSET (Playable(od) \intersect barred),
               q \in IF wins # {} THEN wins ELSE legal : Play(t, p, Unmark(tried), q)
      BY <2>2, Zenon DEF Select
    <3>. QED  BY <3>1
  <2>. QED  BY <2>1, <2>2
<1>3. DOMAIN od.exact = Moves[p]
  BY DEF Nodes
<1>4. wins \subseteq Moves[p] /\ legal \subseteq Moves[p]
  BY <1>3 DEF Won, Playable
<1> HIDE DEF Unmark, barred, legal, wins
<1>5. CASE node' = [node EXCEPT ![p] = Unmark(Playable(od))] /\ Return(t, -1, "win")
  <2>1. Quits(t, p, Unmark(Playable(od)))
    BY <1>5 DEF Quits
  <2>. QED  BY <1>1, <2>1 DEF Outcome
<1>6. CASE \E tried : \E q \in IF wins # {} THEN wins ELSE legal : Play(t, p, Unmark(tried), q)
  <2>a. PICK tried : \E q \in Moves[p] : Play(t, p, Unmark(tried), q)
    BY <1>4, <1>6
  <2>1. PICK q \in Moves[p] : Play(t, p, Unmark(tried), q)
    BY <2>a
  <2>2. Unmark(tried) \in Nodes(p) /\ SameGames(Unmark(tried), od)
    BY <1>1
  <2>3. PICK nd \in Nodes(p) : SameGames(nd, Unmark(tried)) /\ Outcome(t, p, nd)
    BY <2>1, <2>2, PlayOutcome
  <2>4. SameGames(nd, od)
    BY <2>2, <2>3 DEF SameGames
  <2>. QED  BY <2>3, <2>4
<1>. QED  BY <1>2, <1>5, <1>6

-----------------------------------------------------------------------------
(* The frame a thread moves to.                                            *)

\* The place a thread is in and the path it has taken.
LEMMA FrameType ==
  ASSUME TreeTypes, Frame, NEW t \in Threads
  PROVE  /\ th[t] \in Frames /\ th[t].path \in Seq(Pos) /\ th[t].path # <<>>
         /\ Len(th[t].path) \in Nat /\ Len(th[t].path) >= 1
         /\ Top(t) = th[t].path[Len(th[t].path)] /\ Top(t) \in Pos
         /\ th[t].cnt \in Nat /\ (t \in Over <=> th[t].cnt >= Threshold)
<1>1. th[t] \in Frames /\ th[t].path # <<>>
  BY DEF TreeTypes, Frame, FrameOK
<1>2. th[t].path \in Seq(Pos) /\ th[t].cnt \in Nat
  BY <1>1 DEF Frames
<1>. QED  BY <1>1, <1>2 DEF Top, Over

\* The return to the caller's frame (2228-2265).
LEMMA ReturnFrame ==
  ASSUME TreeTypes, NEW t \in Threads, NEW v \in Results, NEW ex \in Marks, Return(t, v, ex)
  PROVE  /\ th' \in [Threads -> Frames] /\ \A u \in Threads \ {t} : th'[u] = th[u]
         /\ th'[t].path = th[t].path /\ th'[t].cnt = th[t].cnt
         /\ th'[t].pc = IF Len(th[t].path) = 1 THEN "count" ELSE "back"
<1> DEFINE c == IF Len(th[t].path) = 1 THEN "count" ELSE "back"
<1>1. c \in Places
  BY DEF Places
<1>2. th' = [th EXCEPT ![t].pc = c, ![t].win = v, ![t].ex = ex]
  BY DEF Return
<1> HIDE DEF c
<1>3. th \in [Threads -> Frames]
  BY DEF TreeTypes
<1>4. th' = [[[th EXCEPT ![t].pc = c] EXCEPT ![t].win = v] EXCEPT ![t].ex = ex]
  BY <1>2
<1>5. [th EXCEPT ![t].pc = c] \in [Threads -> Frames]
  BY <1>1, <1>3 DEF Frames
<1>6. [[th EXCEPT ![t].pc = c] EXCEPT ![t].win = v] \in [Threads -> Frames]
  BY <1>5 DEF Frames
<1>7. th' \in [Threads -> Frames]
  BY <1>4, <1>6 DEF Frames
<1>8. /\ \A u \in Threads \ {t} : th'[u] = th[u]
      /\ th'[t].path = th[t].path /\ th'[t].cnt = th[t].cnt /\ th'[t].pc = c
  BY <1>2, <1>3 DEF Frames
<1>. QED  BY <1>7, <1>8 DEF c

\* It is a good one: a caller's frame is one level up.
LEMMA ReturnFrameOK ==
  ASSUME TreeTypes, Frame, NEW t \in Threads, th'[t].path = th[t].path, made \subseteq made',
         th'[t].pc = IF Len(th[t].path) = 1 THEN "count" ELSE "back"
  PROVE  FrameOK(th[t])'
<1>1. FrameOK(th[t]) /\ Len(th[t].path) \in Nat /\ Len(th[t].path) >= 1
  BY FrameType DEF Frame
<1>2. \A j \in 1 .. Len(th[t].path) - 1 :
        th[t].path[j] \in made' /\ th[t].path[j+1] \in Moves[th[t].path[j]]
  BY <1>1 DEF FrameOK
<1>3. th[t].path # <<>> /\ Len(th[t].path) <= MaxPly + 1
  BY <1>1 DEF FrameOK
<1>4. CASE Len(th[t].path) = 1
  BY <1>2, <1>3, <1>4 DEF FrameOK
<1>5. CASE Len(th[t].path) # 1
  <2>1. \A n \in Nat : n >= 1 /\ n # 1 => n >= 2
    OBVIOUS
  <2>2. Len(th[t].path) >= 2
    BY <1>1, <1>5, <2>1
  <2>3. th'[t].pc = "back"
    BY <1>5
  <2>. QED  BY <1>2, <1>3, <2>2, <2>3 DEF FrameOK
<1>. QED  BY <1>4, <1>5

\* The leaf that is to be evaluated (2160-2163).
LEMMA LeafFrame ==
  ASSUME TreeTypes, NEW t \in Threads, NEW q \in Pos,
         th' = [th EXCEPT ![t].pc = "leaf", ![t].q = q]
  PROVE  /\ th' \in [Threads -> Frames] /\ \A u \in Threads \ {t} : th'[u] = th[u]
         /\ th'[t].path = th[t].path /\ th'[t].cnt = th[t].cnt
         /\ th'[t].pc = "leaf" /\ th'[t].q = q
BY DEF TreeTypes, Frames, Places

\* The recursion (2206).
LEMMA DownFrame ==
  ASSUME TreeTypes, NEW t \in Threads, NEW q \in Pos,
         th' = [th EXCEPT ![t].pc = "enter", ![t].path = Append(@, q)]
  PROVE  /\ th' \in [Threads -> Frames] /\ \A u \in Threads \ {t} : th'[u] = th[u]
         /\ th'[t].path = Append(th[t].path, q) /\ th'[t].cnt = th[t].cnt
         /\ th'[t].pc = "enter"
<1> DEFINE s == Append(th[t].path, q)
<1>1. th[t].path \in Seq(Pos)
  BY DEF TreeTypes, Frames
<1>2. s \in Seq(Pos)
  BY <1>1
<1>3. th' = [th EXCEPT ![t].pc = "enter", ![t].path = s]
  OBVIOUS
<1> HIDE DEF s
<1>. QED  BY <1>2, <1>3 DEF TreeTypes, Frames, Places, s

\* A line that goes on by a legal move from a node that is there.
LEMMA LongerLine ==
  ASSUME TreeTypes, Frame, NEW t \in Threads, Top(t) \in made', made \subseteq made',
         NEW q \in Moves[Top(t)], Len(th[t].path) <= MaxPly,
         th'[t].path = Append(th[t].path, q), th'[t].pc = "enter",
         \A u \in Threads \ {t} : th'[u] = th[u]
  PROVE  Goes(th, th', t, q) /\ FrameOK(th[t])'
<1> DEFINE path == th[t].path
           s == Append(path, q)
<1>1. /\ path \in Seq(Pos) /\ path # <<>> /\ Len(path) \in Nat /\ Len(path) >= 1
      /\ Top(t) = path[Len(path)] /\ Top(t) \in Pos
  BY FrameType
<1>2. q \in Pos
  BY <1>1, MovesAreLegal
<1>3. /\ s \in Seq(Pos) /\ s # <<>> /\ Len(s) = Len(path) + 1 /\ s[Len(path) + 1] = q
      /\ \A i \in 1 .. Len(path) : s[i] = path[i]
  BY <1>1, <1>2
<1>4. Goes(th, th', t, q)
  BY <1>1, BoundsAssumption DEF Goes
<1>5. ASSUME NEW i \in 1 .. Len(path) PROVE s[i] \in made' /\ s[i+1] \in Moves[s[i]]
  <2>1. CASE i = Len(path)
    BY <1>1, <1>3, <2>1
  <2>2. CASE i < Len(path)
    BY <1>1, <1>3, <2>2 DEF Frame, FrameOK
  <2>. QED  BY <1>1, <2>1, <2>2
<1> HIDE DEF s, path
<1>6. Len(s) <= MaxPly + 1
  BY <1>1, <1>3, BoundsAssumption DEF path
<1>7. th'[t].path = s /\ th'[t].pc = "enter"
  BY DEF s, path
<1>8. FrameOK(th[t])'
  BY <1>1, <1>3, <1>5, <1>6, <1>7 DEF FrameOK
<1>. QED  BY <1>4, <1>8

-----------------------------------------------------------------------------
(* Each step keeps the invariant.                                          *)

\* A thread that is to end its visit, to leave a leaf to the network or to go
\* down, from a node whose counts are good.
LEMMA OutcomeKeeps ==
  ASSUME TreeInv, NEW t \in Threads, NEW nd, GoodNode(Top(t), nd), nd.vl = node[Top(t)].vl,
         nd.dfpn >= node[Top(t)].dfpn, th[t].pc \in {"enter", "dfpn", "relock"},
         made' = made \cup {Top(t)}, UNCHANGED <<count, stop, root, hist>>,
         Outcome(t, Top(t), nd)
  PROVE  TreeInv'
<1> DEFINE p == Top(t)
<1>1. /\ TreeTypes /\ Frame /\ Fresh /\ GoodNodes /\ Losses /\ Playouts /\ FrameOK(th[t])
  BY DEF TreeInv, Frame
<1>2. /\ th[t].path \in Seq(Pos) /\ Len(th[t].path) \in Nat /\ Len(th[t].path) >= 1
      /\ p = th[t].path[Len(th[t].path)] /\ p \in Pos /\ th[t].path # <<>>
  BY <1>1, FrameType
<1>3. t \notin Over
  BY <1>1 DEF Playouts
<1>4. made \subseteq made' /\ made' \subseteq Pos /\ p \in made' /\ count' \in Nat
      /\ stop' \in BOOLEAN /\ root' = root /\ hist' = hist /\ count' = count
  BY <1>1, <1>2 DEF TreeTypes
<1>5. \A q \in Moves[p] : q \in Pos
  BY <1>2, MovesAreLegal
<1> HIDE DEF p
<1>6. ASSUME NEW md, Visits(t, p, md), FrameOK(th[t])', Losses', th'[t].cnt = th[t].cnt
      PROVE  TreeInv'
  <2>1. TreeTypes' /\ Fresh' /\ GoodNodes'
    BY <1>1, <1>4, <1>6, VisitTypes
  <2>2. Frame'
    BY <1>1, <1>6, VisitFrames
  <2>3. Playouts'
    BY <1>1, <1>3, <1>4, <1>6, PlayoutsStay DEF Visits
  <2>. QED  BY <2>1, <2>2, <2>3, <1>6 DEF TreeInv
<1>7. ASSUME NEW md, GoodNode(p, md), md.vl = nd.vl, md.dfpn = nd.dfpn,
             node' = [node EXCEPT ![p] = md], NEW v \in Results, NEW ex \in Marks,
             Return(t, v, ex)
      PROVE  TreeInv'
  <2>1. /\ th' \in [Threads -> Frames] /\ \A u \in Threads \ {t} : th'[u] = th[u]
        /\ th'[t].path = th[t].path /\ th'[t].cnt = th[t].cnt
        /\ th'[t].pc = IF Len(th[t].path) = 1 THEN "count" ELSE "back"
    BY <1>1, <1>7, ReturnFrame
  <2>2. Visits(t, p, md)
    BY <1>2, <1>4, <1>7, <2>1 DEF Visits, p
  <2>3. FrameOK(th[t])'
    BY <1>1, <1>4, <2>1, ReturnFrameOK
  <2>4. Losses'
    BY <1>1, <1>7, <2>1, <2>2, LossesStay DEF p
  <2>. QED  BY <1>6, <2>1, <2>2, <2>3, <2>4
<1>8. CASE Ends(t, p, nd)
  <2>1. PICK q \in Moves[p], g \in Results, v \in Results, ex \in Marks :
          node' = [node EXCEPT ![p] = Counted(nd, q, g)] /\ Return(t, v, ex)
    BY <1>8 DEF Ends
  <2>2. GoodNode(p, Counted(nd, q, g)) /\ Counted(nd, q, g).vl = nd.vl
        /\ Counted(nd, q, g).dfpn = nd.dfpn
    BY <1>2, CountedGood DEF p
  <2>. QED  BY <2>1, <2>2, <1>7
<1>9. CASE Quits(t, p, nd)
  BY <1>7, <1>9 DEF Quits, Results, Marks, p
<1>10. CASE ToLeaf(t, p, nd)
  <2>1. PICK q \in Moves[p] : /\ Len(th[t].path) <= MaxPly /\ node' = [node EXCEPT ![p] = nd]
                             /\ th' = [th EXCEPT ![t].pc = "leaf", ![t].q = q]
    BY <1>10 DEF ToLeaf
  <2>2. /\ th' \in [Threads -> Frames] /\ \A u \in Threads \ {t} : th'[u] = th[u]
        /\ th'[t].path = th[t].path /\ th'[t].cnt = th[t].cnt
        /\ th'[t].pc = "leaf" /\ th'[t].q = q
    BY <1>1, <1>5, <2>1, LeafFrame
  <2>3. Visits(t, p, nd)
    BY <1>2, <1>4, <2>1, <2>2 DEF Visits, p
  <2>4. FrameOK(th[t])'
    BY <1>1, <1>2, <1>4, <2>1, <2>2 DEF FrameOK
  <2>5. Losses'
    BY <1>1, <2>2, <2>3, LossesStay DEF p
  <2>. QED  BY <1>6, <2>2, <2>3, <2>4, <2>5
<1>11. CASE Descends(t, p, nd)
  <2>1. PICK q \in Moves[p] : Len(th[t].path) <= MaxPly /\ GoDown(t, p, nd, q)
    BY <1>11 DEF Descends
  <2>2. /\ node' = [node EXCEPT ![p] = VirtualLoss(nd, q)]
        /\ th' = [th EXCEPT ![t].pc = "enter", ![t].path = Append(@, q)]
    BY <2>1 DEF GoDown
  <2>3. /\ th' \in [Threads -> Frames] /\ \A u \in Threads \ {t} : th'[u] = th[u]
        /\ th'[t].path = Append(th[t].path, q) /\ th'[t].cnt = th[t].cnt
        /\ th'[t].pc = "enter"
    BY <1>1, <1>5, <2>2, DownFrame
  <2>4. /\ GoodNode(p, VirtualLoss(nd, q)) /\ VirtualLoss(nd, q).dfpn = nd.dfpn
        /\ VirtualLoss(nd, q).vl = [node[p].vl EXCEPT ![q] = @ + 1]
    <3>1. GoodNode(p, nd) /\ nd.vl = node[p].vl
      BY DEF p
    <3>2. /\ GoodNode(p, VirtualLoss(nd, q)) /\ VirtualLoss(nd, q).dfpn = nd.dfpn
          /\ VirtualLoss(nd, q).vl = [nd.vl EXCEPT ![q] = @ + 1]
      BY <1>2, <3>1, VirtualLossGood
    <3>. QED  BY <3>1, <3>2
  <2>5. Visits(t, p, VirtualLoss(nd, q))
    BY <1>2, <1>4, <2>2, <2>3, <2>4 DEF Visits, p
  <2>6. Goes(th, th', t, q) /\ FrameOK(th[t])'
    BY <1>1, <1>4, <2>1, <2>3, LongerLine DEF p
  <2>7. Losses'
    BY <1>1, <2>4, <2>5, <2>6, LossesGrow DEF p
  <2>. QED  BY <1>6, <2>3, <2>5, <2>6, <2>7
<1>. QED  BY <1>8, <1>9, <1>10, <1>11 DEF Outcome, p

\* A move selected and played from a node whose counts are good.
LEMMA SelectKeeps ==
  ASSUME TreeInv, NEW t \in Threads, NEW od, GoodNode(Top(t), od), od.vl = node[Top(t)].vl,
         od.dfpn >= node[Top(t)].dfpn, th[t].pc \in {"enter", "dfpn"},
         made' = made \cup {Top(t)}, UNCHANGED <<count, stop, root, hist>>,
         Select(t, Top(t), od)
  PROVE  TreeInv'
<1>1. Top(t) \in Pos /\ TreeTypes
  BY FrameType DEF TreeInv
<1>2. od \in Nodes(Top(t))
  BY DEF GoodNode
<1>3. PICK nd \in Nodes(Top(t)) : SameGames(nd, od) /\ Outcome(t, Top(t), nd)
  BY <1>1, <1>2, SelectOutcome
<1>4. GoodNode(Top(t), nd)
  BY <1>1, <1>3, SameGamesGood
<1>5. nd.vl = node[Top(t)].vl /\ nd.dfpn >= node[Top(t)].dfpn
  BY <1>3 DEF SameGames
<1>. QED  BY <1>3, <1>4, <1>5, OutcomeKeeps

\* The node that a visit finds is there, or what it creates.
LEMMA EnteredNode ==
  ASSUME TreeInv, NEW p \in Pos
  PROVE  (IF p \in made THEN node[p] ELSE NewNode(p)) = node[p]
BY DEF TreeInv, Fresh

\* The tries of dfpn are a number.
LEMMA DfpnTriedType ==
  ASSUME NEW nd
  PROVE  DfpnTried(nd) \in Nat
<1>1. IsFiniteSet(DOMAIN DfpnAt)
  <2>1. DOMAIN DfpnAt = 1 .. Len(DfpnAt) /\ Len(DfpnAt) \in Nat
    BY BoundsAssumption
  <2>. QED  BY <2>1, FS_Interval
<1>2. IsFiniteSet({i \in DOMAIN DfpnAt : DfpnAt[i] <= nd.sum})
  BY <1>1, FS_Subset
<1>. QED  BY <1>2, FS_CardinalityType DEF DfpnTried

\* uct_tree() takes the lock (1801-1862): a due dfpn, or a move.
LEMMA EnterKeeps ==
  ASSUME TreeInv, NEW t \in Threads, Enter(t)
  PROVE  TreeInv'
<1> DEFINE p == Top(t)
<1>1. TreeTypes /\ Frame /\ GoodNodes /\ FrameOK(th[t])
  BY DEF TreeInv, Frame
<1>2. /\ th[t].path \in Seq(Pos) /\ Len(th[t].path) \in Nat /\ Len(th[t].path) >= 1
      /\ p = th[t].path[Len(th[t].path)] /\ p \in Pos /\ th[t].path # <<>>
  BY <1>1, FrameType
<1>3. GoodNode(p, node[p]) /\ node[p].dfpn \in Nat
  BY <1>1, <1>2 DEF GoodNodes, TreeTypes, Nodes
<1>4. /\ th[t].pc = "enter" /\ made' = made \cup {p}
      /\ UNCHANGED <<count, stop, root, hist>>
      /\ \/ /\ DfpnTried(node[p]) > node[p].dfpn
            /\ node' = [node EXCEPT ![p] = [node[p] EXCEPT !.dfpn = DfpnTried(node[p])]]
            /\ th' = [th EXCEPT ![t].pc = "dfpn"]
         \/ Select(t, p, node[p])
  BY <1>2, EnteredNode DEF Enter
<1> HIDE DEF p
<1>5. CASE Select(t, p, node[p])
  BY <1>2, <1>3, <1>4, <1>5, SelectKeeps DEF p
<1>6. CASE /\ DfpnTried(node[p]) > node[p].dfpn
           /\ node' = [node EXCEPT ![p] = [node[p] EXCEPT !.dfpn = DfpnTried(node[p])]]
           /\ th' = [th EXCEPT ![t].pc = "dfpn"]
  <2> DEFINE d == DfpnTried(node[p])
             nd == [node[p] EXCEPT !.dfpn = d]
  <2>1. d \in Nat /\ d > node[p].dfpn
    BY <1>6, DfpnTriedType
  <2> HIDE DEF d
  <2>2. nd \in Nodes(p) /\ nd.dfpn = d /\ nd.n = node[p].n /\ nd.w = node[p].w
        /\ nd.vl = node[p].vl /\ nd.sum = node[p].sum
    BY <2>1, <1>2, <1>1 DEF TreeTypes, Nodes
  <2>3. node' = [node EXCEPT ![p] = nd]
    BY <1>6 DEF d
  <2> HIDE DEF nd
  <2>4. GoodNode(p, nd)
    <3>1. Games(nd) = Games(node[p])
      BY <2>2 DEF Games
    <3>2. \A q \in Moves[p] : InRange(nd, q) <=> InRange(node[p], q)
      BY <2>2 DEF InRange
    <3>. QED  BY <1>3, <2>1, <2>2, <3>1, <3>2 DEF GoodNode
  <2>5. /\ th' \in [Threads -> Frames] /\ \A u \in Threads \ {t} : th'[u] = th[u]
        /\ th'[t].path = th[t].path /\ th'[t].cnt = th[t].cnt /\ th'[t].pc = "dfpn"
    BY <1>1, <1>6 DEF TreeTypes, Frames, Places
  <2>6. Visits(t, p, nd) /\ count' \in Nat /\ stop' \in BOOLEAN /\ count' = count
    <3>1. made \subseteq made' /\ made' \subseteq Pos /\ p \in made' /\ root' = root
          /\ hist' = hist /\ count' \in Nat /\ stop' \in BOOLEAN /\ count' = count
      BY <1>1, <1>2, <1>4 DEF TreeTypes
    <3>2. nd.dfpn >= node[p].dfpn
      BY <1>3, <2>1, <2>2
    <3>. QED  BY <1>2, <2>3, <2>4, <2>5, <3>1, <3>2 DEF Visits
  <2>7. FrameOK(th[t])'
    <3>1. node'[p].dfpn > 0
      BY <1>1, <1>2, <1>3, <2>1, <2>2, <2>3 DEF TreeTypes
    <3>. QED  BY <1>1, <1>2, <1>4, <2>5, <3>1 DEF FrameOK
  <2>8. TreeTypes' /\ Fresh' /\ GoodNodes' /\ Frame' /\ Losses'
    BY <1>1, <2>2, <2>5, <2>6, <2>7, VisitTypes, VisitFrames, LossesStay DEF TreeInv
  <2>9. t \notin Over
    BY <1>4 DEF TreeInv, Playouts
  <2>10. Playouts'
    BY <1>1, <2>5, <2>6, <2>9, PlayoutsStay DEF TreeInv
  <2>. QED  BY <2>8, <2>10 DEF TreeInv
<1>. QED  BY <1>4, <1>5, <1>6

\* dfpn's answer (1861-1901).
LEMMA DfpnKeeps ==
  ASSUME TreeInv, NEW t \in Threads, Dfpn(t)
  PROVE  TreeInv'
<1> DEFINE p == Top(t)
<1>1. TreeTypes /\ Frame /\ GoodNodes /\ FrameOK(th[t])
  BY DEF TreeInv, Frame
<1>2. p = th[t].path[Len(th[t].path)] /\ p \in Pos
  BY <1>1, FrameType
<1>3. GoodNode(p, node[p]) /\ node[p].dfpn \in Nat
  BY <1>1, <1>2 DEF GoodNodes, TreeTypes, Nodes
<1>4. th[t].pc = "dfpn" /\ p \in made /\ node[p].dfpn > 0
  BY <1>1, <1>2 DEF FrameOK, Dfpn
<1>5. made' = made \cup {p} /\ UNCHANGED <<count, stop, root, hist>>
  BY <1>4 DEF Dfpn
<1>6. \/ \E q \in Moves[p] \intersect DfpnMates : /\ node' = [node EXCEPT ![p] = Solve(@, q)]
                                               /\ Return(t, 1, "loss")
      \/ Select(t, p, node[p])
  BY DEF Dfpn
<1> HIDE DEF p
<1>7. CASE Select(t, p, node[p])
  BY <1>2, <1>3, <1>4, <1>5, <1>7, SelectKeeps DEF p
<1>8. ASSUME NEW q \in Moves[p], q \in DfpnMates, node' = [node EXCEPT ![p] = Solve(@, q)],
             Return(t, 1, "loss")
      PROVE  TreeInv'
  <2> DEFINE nd == Solve(node[p], q)
  <2>1. GoodNode(p, nd) /\ nd.vl = node[p].vl /\ nd.dfpn = node[p].dfpn
    BY <1>2, <1>3, <1>4, <1>8, SolveGood
  <2>2. node' = [node EXCEPT ![p] = nd]
    BY <1>8
  <2> HIDE DEF nd
  <2>3. /\ th' \in [Threads -> Frames] /\ \A u \in Threads \ {t} : th'[u] = th[u]
        /\ th'[t].path = th[t].path /\ th'[t].cnt = th[t].cnt
        /\ th'[t].pc = IF Len(th[t].path) = 1 THEN "count" ELSE "back"
    BY <1>1, <1>8, ReturnFrame DEF Results, Marks
  <2>4. Visits(t, p, nd) /\ count' \in Nat /\ stop' \in BOOLEAN /\ count' = count
    BY <1>1, <1>2, <1>3, <1>5, <2>1, <2>2, <2>3 DEF Visits, TreeTypes
  <2>5. FrameOK(th[t])'
    BY <1>1, <1>5, <2>3, ReturnFrameOK
  <2>6. TreeTypes' /\ Fresh' /\ GoodNodes' /\ Frame' /\ Losses'
    BY <1>1, <2>1, <2>3, <2>4, <2>5, VisitTypes, VisitFrames, LossesStay DEF TreeInv
  <2>7. t \notin Over
    BY <1>4 DEF TreeInv, Playouts
  <2>8. Playouts'
    BY <1>1, <2>3, <2>4, <2>7, PlayoutsStay DEF TreeInv
  <2>. QED  BY <2>6, <2>8 DEF TreeInv
<1>. QED  BY <1>6, <1>7, <1>8

\* The leaf's own lock (2160-2189): what it finds or creates changes no counts.
LEMMA LeafKeeps ==
  ASSUME TreeInv, NEW t \in Threads, Leaf(t)
  PROVE  TreeInv'
<1> DEFINE q == th[t].q
<1>1. TreeTypes /\ Frame /\ Fresh /\ GoodNodes /\ Losses /\ Playouts /\ FrameOK(th[t])
  BY DEF TreeInv, Frame
<1>2. /\ th[t].path \in Seq(Pos) /\ Len(th[t].path) \in Nat /\ Len(th[t].path) >= 1
      /\ q \in Pos
  BY <1>1, FrameType DEF TreeTypes, Frames
<1>3. th[t].pc = "leaf" /\ UNCHANGED <<count, stop, root, hist>> /\ made' = made \cup {q}
  BY DEF Leaf
<1>4. node' = [node EXCEPT ![q] = node[q]]
  <2>1. node = [x \in Pos |-> node[x]]
    BY <1>1 DEF TreeTypes
  <2>2. q \notin made => node[q] = NewNode(q)
    BY <1>1, <1>2 DEF Fresh
  <2>. QED  BY <1>2, <2>1, <2>2 DEF Leaf
<1>5. /\ th' \in [Threads -> Frames] /\ \A u \in Threads \ {t} : th'[u] = th[u]
      /\ th'[t].path = th[t].path /\ th'[t].cnt = th[t].cnt /\ th'[t].pc = "relock"
      /\ th'[t].q = q
  <2> DEFINE v == -NetValue(q)
             d == q \in made \/ Cardinality(Succ[q]) = 1
  <2>1. v \in Results
    <3>1. NetValue(q) \in {-1, 0, 1}
      BY <1>2, PositionsAssumption DEF NetValue
    <3>. QED  BY <3>1 DEF Results
  <2>2. th' = [th EXCEPT ![t].pc = "relock", ![t].win = v, ![t].down = d]
    BY DEF Leaf
  <2>3. d \in BOOLEAN
    OBVIOUS
  <2> HIDE DEF v, d
  <2>4. th \in [Threads -> Frames]
    BY <1>1 DEF TreeTypes
  <2>5. th' = [[[th EXCEPT ![t].pc = "relock"] EXCEPT ![t].win = v] EXCEPT ![t].down = d]
    BY <2>2
  <2>6. [th EXCEPT ![t].pc = "relock"] \in [Threads -> Frames]
    BY <2>4 DEF Frames, Places
  <2>7. [[th EXCEPT ![t].pc = "relock"] EXCEPT ![t].win = v] \in [Threads -> Frames]
    BY <2>1, <2>6 DEF Frames
  <2>8. th' \in [Threads -> Frames]
    <3> DEFINE h == [[th EXCEPT ![t].pc = "relock"] EXCEPT ![t].win = v]
    <3>1. h \in [Threads -> Frames] /\ th' = [h EXCEPT ![t].down = d]
      BY <2>5, <2>7
    <3> HIDE DEF h
    <3>2. CASE d = TRUE
      <4>1. th' = [h EXCEPT ![t].down = TRUE]
        BY <3>1, <3>2
      <4>. QED  BY <3>1, <4>1 DEF Frames
    <3>3. CASE d = FALSE
      <4>1. th' = [h EXCEPT ![t].down = FALSE]
        BY <3>1, <3>3
      <4>. QED  BY <3>1, <4>1 DEF Frames
    <3>. QED  BY <2>3, <3>2, <3>3
  <2>9. /\ \A u \in Threads \ {t} : th'[u] = th[u]
        /\ th'[t].path = th[t].path /\ th'[t].cnt = th[t].cnt /\ th'[t].pc = "relock"
        /\ th'[t].q = th[t].q
    BY <2>2, <2>4 DEF Frames
  <2>. QED  BY <2>8, <2>9
<1> HIDE DEF q
<1>6. GoodNode(q, node[q]) /\ node[q].dfpn \in Nat
  BY <1>1, <1>2 DEF GoodNodes, GoodNode, Nodes
<1>7. Visits(t, q, node[q]) /\ count' \in Nat /\ stop' \in BOOLEAN /\ count' = count
  <2>1. made \subseteq made' /\ made' \subseteq Pos /\ q \in made' /\ root' = root
        /\ hist' = hist /\ count' \in Nat /\ stop' \in BOOLEAN /\ count' = count
    BY <1>1, <1>2, <1>3 DEF TreeTypes
  <2>. QED  BY <1>2, <1>4, <1>5, <1>6, <2>1 DEF Visits
<1>8. FrameOK(th[t])'
  BY <1>1, <1>3, <1>5 DEF FrameOK, q
<1>9. TreeTypes' /\ Fresh' /\ GoodNodes' /\ Frame' /\ Losses'
  BY <1>1, <1>5, <1>7, <1>8, VisitTypes, VisitFrames, LossesStay
<1>10. t \notin Over
  BY <1>1, <1>3 DEF Playouts
<1>11. Playouts'
  BY <1>1, <1>5, <1>7, <1>10, PlayoutsStay
<1>. QED  BY <1>9, <1>11 DEF TreeInv

\* The parent's lock again (2189-2206).
LEMMA RelockKeeps ==
  ASSUME TreeInv, NEW t \in Threads, Relock(t)
  PROVE  TreeInv'
<1> DEFINE p == Top(t)
           q == th[t].q
<1>1. TreeTypes /\ Frame /\ GoodNodes /\ FrameOK(th[t])
  BY DEF TreeInv, Frame
<1>2. p = th[t].path[Len(th[t].path)] /\ p \in Pos /\ th[t].win \in Results
  BY <1>1, FrameType DEF Frames
<1>3. GoodNode(p, node[p]) /\ node[p].dfpn >= node[p].dfpn
  BY <1>1, <1>2 DEF GoodNodes, TreeTypes, Nodes
<1>4. th[t].pc = "relock" /\ p \in made /\ q \in Moves[p] /\ Len(th[t].path) <= MaxPly
  BY <1>1, <1>2 DEF FrameOK, Relock
<1>5. made' = made \cup {p} /\ UNCHANGED <<count, stop, root, hist>>
  BY <1>4 DEF Relock
<1>6. GoDown(t, p, node[p], q) \/ EndVisit(t, p, node[p], q, th[t].win)
  BY DEF Relock
<1>7. Outcome(t, p, node[p])
  <2>1. CASE GoDown(t, p, node[p], q)
    BY <1>4, <2>1 DEF Outcome, Descends
  <2>2. CASE EndVisit(t, p, node[p], q, th[t].win)
    <3>1. Ends(t, p, node[p])
      BY <1>2, <1>4, <2>2, EndVisitOutcome
    <3>. QED  BY <3>1 DEF Outcome
  <2>. QED  BY <1>6, <2>1, <2>2
<1>. QED  BY <1>3, <1>4, <1>5, <1>7, OutcomeKeeps

\* The recursion has returned (2208-2266).
LEMMA BackKeeps ==
  ASSUME TreeInv, NEW t \in Threads, Back(t)
  PROVE  TreeInv'
<1> DEFINE path == th[t].path
           p  == path[Len(path) - 1]
           q  == path[Len(path)]
           bd == TakeBack(node[p], q)
           kd == Keep(bd, q, th[t].ex)
           win == -th[t].win
           g  == IF q \in Won(kd) THEN 1 ELSE win
           ex == IF q \in Won(kd) THEN "loss" ELSE "none"
           up == SubSeq(path, 1, Len(path) - 1)
           pc == IF Len(path) = 2 THEN "count" ELSE "back"
           nd == Counted(kd, q, g)
<1>1. TreeTypes /\ Frame /\ Fresh /\ GoodNodes /\ Losses /\ Playouts /\ FrameOK(th[t])
  BY DEF TreeInv, Frame
<1>2. /\ path \in Seq(Pos) /\ Len(path) \in Nat /\ Len(path) >= 2 /\ Len(path) <= MaxPly + 1
      /\ th[t].pc = "back" /\ th[t].win \in Results /\ th[t].ex \in Marks
  BY <1>1, FrameType DEF FrameOK, Back, Frames
<1>3. /\ up \in Seq(Pos) /\ Len(up) = Len(path) - 1 /\ up # <<>> /\ q \in Pos
      /\ path = Append(up, q) /\ up[Len(up)] = p
      /\ \A i \in 1 .. Len(path) - 1 : up[i] = path[i]
  BY <1>2, FrontAndLast
<1>4. p \in made /\ q \in Moves[p] /\ p \in Pos
  <2>1. Len(path) - 1 \in 1 .. Len(path) - 1
    BY <1>2
  <2>2. path[Len(path) - 1] \in made /\ path[(Len(path) - 1) + 1] \in Moves[path[Len(path) - 1]]
    BY <1>1, <2>1 DEF FrameOK
  <2>. QED  BY <1>1, <1>2, <2>2 DEF TreeTypes
<1>5. UNCHANGED <<made, count, stop, root, hist>>
  BY DEF Back
<1>6. /\ th' = [th EXCEPT ![t].path = up, ![t].pc = pc, ![t].win = g, ![t].ex = ex]
      /\ node' = [node EXCEPT ![p] = Update(kd, q, win)]
  BY Zenon DEF Back
<1>7. Update(kd, q, win) = nd
  BY DEF Update, Counted
<1> HIDE DEF up, pc, g, ex, nd, kd, bd, win, p, q
<1>8. win \in Results /\ g \in Results /\ ex \in Marks /\ pc \in Places
  BY <1>2 DEF win, g, ex, pc, Results, Marks, Places
<1>9. /\ th' \in [Threads -> Frames] /\ \A u \in Threads \ {t} : th'[u] = th[u]
      /\ th'[t].path = up /\ th'[t].cnt = th[t].cnt /\ th'[t].pc = pc
  <2>1. th \in [Threads -> Frames]
    BY <1>1 DEF TreeTypes
  <2> DEFINE h1 == [th EXCEPT ![t].path = up]
             h2 == [h1 EXCEPT ![t].pc = pc]
             h3 == [h2 EXCEPT ![t].win = g]
  <2>5. th' = [h3 EXCEPT ![t].ex = ex]
    BY <1>6
  <2>2. h1 \in [Threads -> Frames]
    BY <1>3, <2>1 DEF Frames
  <2> HIDE DEF h1
  <2>3. h2 \in [Threads -> Frames]
    BY <1>8, <2>2 DEF Frames
  <2> HIDE DEF h2
  <2>4. h3 \in [Threads -> Frames]
    BY <1>8, <2>3 DEF Frames
  <2> HIDE DEF h3
  <2>6. th' \in [Threads -> Frames]
    BY <1>8, <2>4, <2>5 DEF Frames
  <2>7. /\ \A u \in Threads \ {t} : th'[u] = th[u]
        /\ th'[t].path = up /\ th'[t].cnt = th[t].cnt /\ th'[t].pc = pc
    BY <1>6, <2>1 DEF Frames
  <2>. QED  BY <2>6, <2>7
<1>10. Goes(th', th, t, q)
  BY <1>2, <1>3, <1>9, BoundsAssumption DEF Goes
<1>11. 1 <= node[p].vl[q]
  <2>1. Cardinality(BelowOf(th', p, q)) = Cardinality(BelowOf(th, p, q)) - 1
    BY <1>3, <1>9, <1>10, BelowShrinks
  <2>2. Cardinality(BelowOf(th', p, q)) \in Nat /\ Cardinality(BelowOf(th, p, q)) \in Nat
    BY BelowFinite
  <2>3. node[p].vl[q] = Cardinality(BelowOf(th, p, q))
    BY <1>1, <1>4 DEF Losses
  <2>. QED  BY <2>1, <2>2, <2>3
<1>12. GoodNode(p, nd) /\ nd.vl = [node[p].vl EXCEPT ![q] = @ - 1] /\ nd.dfpn = node[p].dfpn
  <2>1. GoodNode(p, node[p])
    BY <1>1, <1>4 DEF GoodNodes
  <2>2. /\ GoodNode(p, bd) /\ bd.vl = [node[p].vl EXCEPT ![q] = @ - 1]
        /\ bd.dfpn = node[p].dfpn
    BY <1>4, <1>11, <2>1, TakeBackGood DEF bd
  <2>3. kd \in Nodes(p) /\ SameGames(kd, bd)
    BY <1>2, <1>4, <2>2 DEF kd, Keep, GoodNode, Nodes, SameGames, Marks
  <2>4. GoodNode(p, kd) /\ kd.vl = bd.vl /\ kd.dfpn = bd.dfpn
    BY <1>4, <2>2, <2>3, SameGamesGood DEF SameGames
  <2>5. GoodNode(p, nd) /\ nd.vl = kd.vl /\ nd.dfpn = kd.dfpn
    BY <1>4, <1>8, <2>4, CountedGood DEF nd
  <2>. QED  BY <2>2, <2>4, <2>5
<1>13. Visits(t, p, nd) /\ count' \in Nat /\ stop' \in BOOLEAN /\ count' = count
  <2>1. made \subseteq made' /\ made' \subseteq Pos /\ p \in made' /\ root' = root
        /\ hist' = hist /\ count' \in Nat /\ stop' \in BOOLEAN /\ count' = count
    BY <1>1, <1>4, <1>5 DEF TreeTypes
  <2>2. node[p].dfpn \in Nat
    BY <1>1, <1>4 DEF TreeTypes, Nodes
  <2>. QED  BY <1>4, <1>6, <1>7, <1>9, <1>12, <2>1, <2>2 DEF Visits
<1>14. FrameOK(th[t])'
  <2>1. \A i \in 1 .. Len(path) - 1 : path[i] \in made' /\ path[i+1] \in Moves[path[i]]
    BY <1>1, <1>5 DEF FrameOK
  <2>2. \A i \in 1 .. Len(up) - 1 : up[i] = path[i] /\ up[i+1] = path[i+1] /\ i \in 1 .. Len(path) - 1
    BY <1>2, <1>3
  <2>3. \A i \in 1 .. Len(up) - 1 : up[i] \in made' /\ up[i+1] \in Moves[up[i]]
    BY <2>1, <2>2
  <2>4. up # <<>> /\ Len(up) <= MaxPly + 1 /\ Len(up) \in Nat /\ Len(up) >= 1
        /\ pc = IF Len(up) = 1 THEN "count" ELSE "back"
    BY <1>2, <1>3, BoundsAssumption DEF pc
  <2> HIDE DEF path
  <2>5. CASE Len(up) = 1
    BY <1>9, <2>3, <2>4, <2>5 DEF FrameOK
  <2>6. CASE Len(up) # 1
    <3>2. \A n \in Nat : n >= 1 /\ n # 1 => n >= 2
      OBVIOUS
    <3>1. Len(up) >= 2
      BY <2>4, <2>6, <3>2
    <3>. QED  BY <1>9, <2>3, <2>4, <2>6, <3>1 DEF FrameOK
  <2>. QED  BY <2>5, <2>6
<1>15. TreeTypes' /\ Fresh' /\ GoodNodes' /\ Frame'
  BY <1>1, <1>13, <1>14, VisitTypes, VisitFrames
<1>16. Losses'
  BY <1>1, <1>3, <1>4, <1>9, <1>10, <1>12, <1>13, LossesShrink
<1>17. t \notin Over
  BY <1>1, <1>2 DEF Playouts
<1>18. Playouts'
  BY <1>1, <1>9, <1>13, <1>17, PlayoutsStay
<1>. QED  BY <1>15, <1>16, <1>18 DEF TreeInv

\* inc_uct_count() (889-894): one playout more, and if it is at the threshold one
\* thread more that has seen it.
LEMMA CountKeeps ==
  ASSUME TreeInv, NEW t \in Threads, Count(t)
  PROVE  TreeInv'
<1>1. TreeTypes /\ Frame /\ Fresh /\ GoodNodes /\ Losses /\ Playouts /\ FrameOK(th[t])
  BY DEF TreeInv, Frame
<1>2. th[t].pc = "count" /\ count' = count + 1 /\ UNCHANGED <<node, made, stop, root, hist>>
  BY DEF Count
<1>3. /\ th' \in [Threads -> Frames] /\ \A u \in Threads \ {t} : th'[u] = th[u]
      /\ th'[t].path = th[t].path /\ th'[t].cnt = count + 1 /\ th'[t].pc = "decide"
  <2>1. th' = [th EXCEPT ![t].pc = "decide", ![t].cnt = count + 1] /\ count + 1 \in Nat
    BY <1>1 DEF Count, TreeTypes
  <2>. QED  BY <1>1, <2>1 DEF TreeTypes, Frames, Places
<1>4. Visits(t, root, node[root]) /\ count' \in Nat /\ stop' \in BOOLEAN
  <2>1. root \in Pos /\ node' = [node EXCEPT ![root] = node[root]]
    BY <1>1, <1>2 DEF TreeTypes
  <2>2. GoodNode(root, node[root]) /\ node[root].dfpn \in Nat
    BY <1>1, <2>1 DEF GoodNodes, TreeTypes, Nodes
  <2>3. made \subseteq made' /\ made' \subseteq Pos /\ root \in made'
    BY <1>1, <1>2 DEF TreeTypes
  <2>. QED  BY <1>1, <1>2, <1>3, <2>1, <2>2, <2>3 DEF Visits, TreeTypes
<1>5. FrameOK(th[t])'
  BY <1>1, <1>2, <1>3 DEF FrameOK
<1>6. TreeTypes' /\ Fresh' /\ GoodNodes' /\ Frame' /\ Losses'
  BY <1>1, <1>3, <1>4, <1>5, VisitTypes, VisitFrames, LossesStay
<1>7. Playouts'
  <2>1. t \notin Over /\ \A u \in Over : th[u].pc \in {"decide", "done"}
    BY <1>1, <1>2 DEF Playouts
  <2>2. Threshold' = Threshold /\ Threshold \in Int /\ count \in Nat
    <3>1. Cardinality(Threads) \in Nat
      BY ThreadsAssumption, FS_CardinalityType
    <3>. QED  BY <1>1, <3>1, LimitAssumption DEF Threshold, TreeTypes
  <2>3. IsFiniteSet(Over)
    BY ThreadsAssumption, FS_Subset DEF Over
  <2>4. CASE count + 1 >= Threshold
    <3>1. Over' = Over \cup {t}
      BY <1>3, <2>2, <2>4 DEF Over
    <3>2. Cardinality(Over \cup {t}) = Cardinality(Over) + 1 /\ Cardinality(Over) \in Nat
      BY <2>1, <2>3, FS_AddElement, FS_CardinalityType
    <3>3. \A u \in Over' : th'[u].pc \in {"decide", "done"}
      BY <1>3, <2>1, <3>1 DEF Over
    <3>4. count - Threshold + 1 <= Cardinality(Over)
      BY <1>1 DEF Playouts
    <3>5. count' - Threshold' + 1 <= Cardinality(Over')
      BY <1>2, <2>2, <3>1, <3>2, <3>4
    <3>. QED  BY <3>3, <3>5 DEF Playouts
  <2>5. CASE ~(count + 1 >= Threshold)
    <3>1. Over' = Over
      BY <1>3, <2>1, <2>2, <2>5 DEF Over
    <3>2. \A u \in Over' : th'[u].pc \in {"decide", "done"}
      BY <1>3, <2>1, <3>1 DEF Over
    <3>3. Cardinality(Over) \in Nat
      BY <2>3, FS_CardinalityType
    <3>4. count' - Threshold' + 1 <= Cardinality(Over')
      BY <1>2, <2>2, <2>5, <3>1, <3>3
    <3>. QED  BY <3>2, <3>4 DEF Playouts
  <2>. QED  BY <2>4, <2>5
<1>. QED  BY <1>6, <1>7 DEF TreeInv

\* The end of the loop (937-950): a thread that has seen the threshold is done.
LEMMA DecideKeeps ==
  ASSUME TreeInv, NEW t \in Threads, Decide(t)
  PROVE  TreeInv'
<1> DEFINE pc == IF stop' THEN "done" ELSE "enter"
           f  == [Idle(root) EXCEPT !.pc = pc, !.cnt = th[t].cnt]
<1>1. TreeTypes /\ Frame /\ Fresh /\ GoodNodes /\ Losses /\ Playouts /\ FrameOK(th[t])
  BY DEF TreeInv, Frame
<1>2. th[t].pc = "decide" /\ UNCHANGED <<node, made, count, root, hist>>
      /\ th' = [th EXCEPT ![t] = f]
  BY DEF Decide
<1>3. stop' \in BOOLEAN /\ (th[t].cnt >= Threshold => stop')
  BY DEF Decide, Enough
<1>4. root \in Pos /\ root \in made /\ th[t].cnt \in Nat /\ Len(th[t].path) = 1
  BY <1>1, <1>2, FrameType DEF TreeTypes, FrameOK
<1>5. pc \in Places /\ (pc = "done" \/ pc = "enter")
  BY <1>3 DEF Places
<1>6. th[t].cnt >= Threshold => pc = "done"
  BY <1>3
<1> HIDE DEF pc
<1>7. f \in Frames /\ f.path = <<root>> /\ f.cnt = th[t].cnt /\ f.pc = pc
  <2>1. <<root>> \in Seq(Pos)
    BY <1>4
  <2>2. Idle(root) \in [pc : {"enter"}, path : {<<root>>}, q : {root}, win : {0},
                        ex : {"none"}, down : {FALSE}, cnt : {0}]
    BY DEF Idle
  <2>3. f \in [pc : {pc}, path : {<<root>>}, q : {root}, win : {0}, ex : {"none"},
               down : {FALSE}, cnt : {th[t].cnt}]
    BY <2>2
  <2>. QED  BY <1>4, <1>5, <2>1, <2>3 DEF Frames, Results, Marks
<1> HIDE DEF f
<1>8. /\ th' \in [Threads -> Frames] /\ \A u \in Threads \ {t} : th'[u] = th[u]
      /\ th'[t] = f
  BY <1>1, <1>2, <1>7 DEF TreeTypes
<1>9. Visits(t, root, node[root]) /\ count' \in Nat
  <2>1. root \in Pos /\ node' = [node EXCEPT ![root] = node[root]]
    BY <1>1, <1>2 DEF TreeTypes
  <2>2. GoodNode(root, node[root]) /\ node[root].dfpn \in Nat
    BY <1>1, <2>1 DEF GoodNodes, TreeTypes, Nodes
  <2>3. made \subseteq made' /\ made' \subseteq Pos /\ root \in made'
    BY <1>1, <1>2 DEF TreeTypes
  <2>. QED  BY <1>1, <1>2, <1>8, <2>1, <2>2, <2>3 DEF Visits, TreeTypes
<1>10. FrameOK(th[t])'
  <2>1. <<root>> # <<>> /\ Len(<<root>>) = 1
    OBVIOUS
  <2>2. th'[t].path # <<>> /\ Len(th'[t].path) = 1
    BY <1>7, <1>8, <2>1
  <2>3. th'[t].pc \in {"done", "enter"} /\ 1 <= MaxPly + 1
    BY <1>5, <1>7, <1>8, BoundsAssumption
  <2>. QED  BY <2>2, <2>3 DEF FrameOK
<1>11. TreeTypes' /\ Fresh' /\ GoodNodes' /\ Frame'
  BY <1>1, <1>3, <1>9, <1>10, VisitTypes, VisitFrames
<1>12. Losses'
  <2>1. Len(f.path) = 1
    BY <1>7
  <2>2. \A x, y : \A i \in 1 .. MaxPly + 1 : ~Takes(th[t].path, i, x, y)
                                            /\ ~Takes(f.path, i, x, y)
    BY <1>4, <2>1, BoundsAssumption DEF Takes
  <2>3. \A u \in Threads : \A x, y : \A i \in 1 .. MaxPly + 1 :
          Takes(th'[u].path, i, x, y) <=> Takes(th[u].path, i, x, y)
    BY <1>8, <2>2
  <2>4. \A x, y : BelowOf(th', x, y) = BelowOf(th, x, y)
    BY <2>3 DEF BelowOf
  <2>. QED  BY <1>1, <1>2, <2>4 DEF Losses
<1>13. Playouts'
  BY <1>1, <1>2, <1>5, <1>6, <1>7, <1>8, PlayoutsStay DEF Over
<1>. QED  BY <1>11, <1>12, <1>13 DEF TreeInv

\* The frame in which uct_tree_loop() starts (928-936).
LEMMA IdleFrame ==
  ASSUME NEW r \in Pos
  PROVE  /\ Idle(r) \in Frames /\ Idle(r).path # <<>> /\ Len(Idle(r).path) = 1
         /\ Idle(r).pc = "enter" /\ Idle(r).cnt = 0
<1>1. <<r>> \in Seq(Pos) /\ <<r>> # <<>> /\ Len(<<r>>) = 1
  OBVIOUS
<1>2. Idle(r) \in [pc : {"enter"}, path : {<<r>>}, q : {r}, win : {0},
                   ex : {"none"}, down : {FALSE}, cnt : {0}]
  BY DEF Idle
<1>3. Idle(r).path = <<r>> /\ Idle(r).pc = "enter" /\ Idle(r).cnt = 0
  BY <1>2
<1>4. Idle(r) \in Frames
  <2>1. "enter" \in Places /\ 0 \in Results /\ "none" \in Marks
    BY DEF Places, Results, Marks
  <2>2. <<r>> \in Seq(Pos) /\ r \in Pos /\ FALSE \in BOOLEAN /\ 0 \in Nat
    BY <1>1
  <2> DEFINE s == <<r>>  f == Idle(r)
  <2>3. f \in [pc : {"enter"}, path : {s}, q : {r}, win : {0}, ex : {"none"},
               down : {FALSE}, cnt : {0}]
    BY <1>2
  <2>4. s \in Seq(Pos)
    BY <2>2
  <2> HIDE DEF s, f
  <2>5. f \in Frames
    BY <2>1, <2>2, <2>3, <2>4 DEF Frames
  <2>. QED  BY <2>5 DEF f
<1>. QED  BY <1>1, <1>3, <1>4

\* Threads that all start at r: none is below a move or has seen the threshold.
LEMMA AllIdle ==
  ASSUME NEW r \in Pos, NEW h, h = [t \in Threads |-> Idle(r)]
  PROVE  /\ h \in [Threads -> Frames]
         /\ \A t \in Threads : h[t].path # <<>> /\ Len(h[t].path) = 1 /\ h[t].pc = "enter"
         /\ \A x, y : Cardinality(BelowOf(h, x, y)) = 0
         /\ \A t \in Threads : ~(h[t].cnt >= Threshold)
         /\ 1 - Threshold <= 0
<1>1. /\ h \in [Threads -> Frames]
      /\ \A t \in Threads : /\ h[t].path # <<>> /\ Len(h[t].path) = 1
                            /\ h[t].pc = "enter" /\ h[t].cnt = 0
  BY IdleFrame
<1>2. \A x, y : BelowOf(h, x, y) = {}
  <2>1. \A t \in Threads : \A x, y : \A i \in 1 .. MaxPly + 1 : ~Takes(h[t].path, i, x, y)
    BY <1>1, BoundsAssumption DEF Takes
  <2>. QED  BY <2>1 DEF BelowOf
<1>3. Threshold \in Int /\ Threshold >= 1
  <2>1. Cardinality(Threads) \in Nat
    BY ThreadsAssumption, FS_CardinalityType
  <2>. QED  BY <2>1, LimitAssumption DEF Threshold
<1>4. \A x, y : Cardinality(BelowOf(h, x, y)) = 0
  BY <1>2, FS_EmptySet
<1>5. ~(0 >= Threshold) /\ 1 - Threshold <= 0
  BY <1>3
<1>6. \A t \in Threads : ~(h[t].cnt >= Threshold)
  BY <1>1, <1>5
<1>. QED  BY <1>1, <1>4, <1>5, <1>6

\* The first search (953-1008).
LEMMA TreeStart == Init => TreeInv
<1> SUFFICES ASSUME Init PROVE TreeInv
  OBVIOUS
<1>1. root \in Pos /\ hist \in Seq(Pos)
  <2>1. PICK s \in Starts : root = s[Len(s)] /\ hist = SubSeq(s, 1, Len(s) - 1)
    BY DEF Init
  <2>2. s \in Seq(Pos) /\ s # <<>>
    BY PositionsAssumption
  <2>. QED  BY <2>1, <2>2
<1>2. /\ node = [p \in Pos |-> NewNode(p)] /\ made = {root} /\ count = 0 /\ stop = FALSE
      /\ th = [t \in Threads |-> Idle(root)]
  BY DEF Init
<1>3. /\ th \in [Threads -> Frames]
      /\ \A t \in Threads : th[t].path # <<>> /\ Len(th[t].path) = 1 /\ th[t].pc = "enter"
      /\ \A x, y : Cardinality(BelowOf(th, x, y)) = 0
      /\ \A t \in Threads : ~(th[t].cnt >= Threshold)
      /\ 1 - Threshold <= 0
  BY <1>1, <1>2, AllIdle
<1>4. GoodNodes /\ \A p \in Pos : \A q \in Moves[p] : node[p].vl[q] = 0
  BY <1>2, NewNodeGood DEF GoodNodes
<1>5. TreeTypes
  BY <1>1, <1>2, <1>3, <1>4 DEF TreeTypes, GoodNodes, GoodNode
<1>6. Frame
  <2>1. ASSUME NEW t \in Threads PROVE FrameOK(th[t])
    <3>1. th[t].path # <<>> /\ Len(th[t].path) = 1 /\ th[t].pc = "enter" /\ 1 <= MaxPly + 1
      BY <1>3, BoundsAssumption
    <3>. QED  BY <3>1 DEF FrameOK
  <2>. QED  BY <2>1 DEF Frame
<1>7. Fresh /\ Losses
  BY <1>2, <1>3, <1>4 DEF Fresh, Losses
<1>8. Playouts
  <2>1. Over = {}
    BY <1>3 DEF Over
  <2>2. Cardinality(Over) = 0
    BY <2>1, FS_EmptySet
  <2>3. Threshold \in Int
    BY ThreadsAssumption, FS_CardinalityType, LimitAssumption DEF Threshold
  <2>. QED  BY <1>2, <1>3, <2>1, <2>2, <2>3 DEF Playouts
<1>. QED  BY <1>4, <1>5, <1>6, <1>7, <1>8 DEF TreeInv

\* The next search (953-1014): with nobody below a move no virtual loss is left.
LEMMA NewSearchKeeps ==
  ASSUME TreeInv, NewSearch
  PROVE  TreeInv'
<1>1. TreeTypes /\ Frame /\ Fresh /\ GoodNodes /\ Losses
  BY DEF TreeInv
<1>2. PICK q \in Best(node[root]), deleted \in {{}, made} :
        /\ root' = q /\ hist' = Append(hist, root)
        /\ made' = (made \ deleted) \union {q}
        /\ node' = [p \in Pos |-> IF p \in made \ deleted THEN node[p] ELSE NewNode(p)]
        /\ th' = [t \in Threads |-> Idle(q)]
  BY DEF NewSearch
<1>3. count' = 0 /\ stop' = FALSE /\ \A t \in Threads : th[t].pc = "done"
  BY DEF NewSearch
<1>4. root \in Pos /\ q \in Pos
  <2>1. root \in Pos /\ node[root] \in Nodes(root)
    BY <1>1 DEF TreeTypes
  <2>2. DOMAIN node[root].exact = Moves[root] /\ DOMAIN node[root].n = Moves[root]
    BY <2>1 DEF Nodes
  <2>3. q \in Moves[root]
    BY <2>2 DEF Best, Won
  <2>. QED  BY <2>1, <2>3, MovesAreLegal
<1>5. /\ th' \in [Threads -> Frames]
      /\ \A t \in Threads : th'[t].path # <<>> /\ Len(th'[t].path) = 1 /\ th'[t].pc = "enter"
      /\ \A x, y : Cardinality(BelowOf(th', x, y)) = 0
      /\ \A t \in Threads : ~(th'[t].cnt >= Threshold)
      /\ 1 - Threshold <= 0
  BY <1>2, <1>4, AllIdle
<1>6. \A x, y : Cardinality(BelowOf(th, x, y)) = 0
  <2>1. \A t \in Threads : Len(th[t].path) = 1
    BY <1>1, <1>3 DEF Frame, FrameOK
  <2>2. \A t \in Threads : \A x, y : \A i \in 1 .. MaxPly + 1 : ~Takes(th[t].path, i, x, y)
    BY <2>1, BoundsAssumption DEF Takes
  <2>3. \A x, y : BelowOf(th, x, y) = {}
    BY <2>2 DEF BelowOf
  <2>. QED  BY <2>3, FS_EmptySet
<1>7. \A p \in Pos : \A y \in Moves[p] : GoodNode(p, node[p]) /\ node[p].vl[y] = 0
  BY <1>1, <1>6 DEF GoodNodes, Losses
<1>8. \A p \in Pos : GoodNode(p, node'[p])
  <2>1. \A p \in Pos : node'[p] = node[p] \/ node'[p] = NewNode(p)
    BY <1>2
  <2>. QED  BY <1>1, <2>1, NewNodeGood DEF GoodNodes
<1>9. \A p \in Pos : \A y \in Moves[p] : node'[p].vl[y] = 0
  <2>1. \A p \in Pos : node'[p] = node[p] \/ node'[p] = NewNode(p)
    BY <1>2
  <2>. QED  BY <1>7, <2>1, NewNodeGood
<1>10. TreeTypes'
  <2>1. Append(hist, root) \in Seq(Pos) /\ made' \subseteq Pos /\ root' \in made'
    BY <1>1, <1>2, <1>4 DEF TreeTypes
  <2>2. node' = [p \in Pos |-> node'[p]]
    BY <1>2
  <2>3. \A p \in Pos : node'[p] \in Nodes(p)
    BY <1>8 DEF GoodNode
  <2>. QED  BY <1>2, <1>3, <1>5, <2>1, <2>2, <2>3 DEF TreeTypes, Nodes
<1>11. Frame'
  <2>1. ASSUME NEW t \in Threads PROVE FrameOK(th[t])'
    <3>1. /\ th'[t].path # <<>> /\ Len(th'[t].path) = 1 /\ th'[t].pc = "enter"
          /\ 1 <= MaxPly + 1
      BY <1>5, BoundsAssumption
    <3>. QED  BY <3>1 DEF FrameOK
  <2>. QED  BY <2>1 DEF Frame
<1>12. Fresh' /\ GoodNodes' /\ Losses'
  <2>1. Fresh'
    BY <1>2 DEF Fresh, NewNode
  <2>2. GoodNodes'
    BY <1>8 DEF GoodNodes, GoodNode, Nodes, InRange
  <2>3. Losses'
    BY <1>5, <1>9 DEF Losses
  <2>. QED  BY <2>1, <2>2, <2>3
<1>13. Playouts'
  <2>1. Over' = {}
    BY <1>5 DEF Over, Threshold
  <2>2. Cardinality(Over') = 0
    BY <2>1, FS_EmptySet
  <2>3. Threshold \in Int /\ Threshold' = Threshold
    BY ThreadsAssumption, FS_CardinalityType, LimitAssumption DEF Threshold
  <2>. QED  BY <1>3, <1>5, <2>1, <2>2, <2>3 DEF Playouts
<1>. QED  BY <1>10, <1>11, <1>12, <1>13 DEF TreeInv

-----------------------------------------------------------------------------
(* The theorems.                                                           *)

\* The invariant holds of every search there can be.
THEOREM TreeInvariance == Spec => []TreeInv
<1>1. TreeInv /\ [Next]_vars => TreeInv'
  <2> SUFFICES ASSUME TreeInv, [Next]_vars PROVE TreeInv'
    OBVIOUS
  <2>1. ASSUME NEW t \in Threads, Step(t) PROVE TreeInv'
    BY <2>1, EnterKeeps, DfpnKeeps, LeafKeeps, RelockKeeps, BackKeeps, CountKeeps,
       DecideKeeps DEF Step
  <2>2. CASE NewSearch
    BY <2>2, NewSearchKeeps
  <2>3. CASE UNCHANGED vars
    BY <2>3 DEF vars, TreeInv, TreeTypes, Frame, FrameOK, Fresh, GoodNodes, Losses, Playouts, Over,
                Threshold
  <2>. QED  BY <2>1, <2>2, <2>3 DEF Next
<1>. QED  BY TreeStart, <1>1, PTL DEF Spec

\* Every count is of the kind the code declares it, a number of games never below 0,
\* and every thread is somewhere in the loop.
THEOREM TreeTypeCorrect == Spec => []TypeOK
<1>1. TreeInv => TypeOK
  <2> SUFFICES ASSUME TreeInv PROVE TypeOK
    OBVIOUS
  <2>1. TreeTypes /\ GoodNodes
    BY DEF TreeInv
  <2>2. ASSUME NEW p \in made, NEW q \in Moves[p]
        PROVE  /\ node[p].n[q] \in Nat /\ node[p].w[q] \in Int
               /\ node[p].exact[q] \in {"none", "win", "loss"}
    <3>1. p \in Pos /\ GoodNode(p, node[p])
      BY <2>1 DEF TreeTypes, GoodNodes
    <3>2. /\ node[p].n[q] \in Int /\ node[p].w[q] \in Int /\ node[p].vl[q] \in Int
          /\ node[p].exact[q] \in Marks
      BY <3>1 DEF GoodNode, Nodes
    <3>3. 0 <= node[p].vl[q] /\ node[p].vl[q] <= node[p].n[q]
      BY <3>1 DEF GoodNode
    <3>. QED  BY <3>2, <3>3 DEF Marks
  <2>3. \A t \in Threads : th[t].pc \in Places
    BY <2>1 DEF TreeTypes, Frames
  <2>. QED  BY <2>1, <2>2, <2>3 DEF TypeOK, TreeTypes, Places
<1>. QED  BY TreeInvariance, <1>1, PTL

\* A node's virtual loss (2194-2221) is the threads below each move, its games include
\* them, and its sum is that of its moves, in every order of the threads' steps.
THEOREM LossesAreThreads == Spec => []VirtualLossIsThreadsBelow
<1>1. TreeInv => VirtualLossIsThreadsBelow
  <2> SUFFICES ASSUME TreeInv PROVE VirtualLossIsThreadsBelow
    OBVIOUS
  <2>1. made \subseteq Pos /\ GoodNodes /\ Losses
    BY DEF TreeInv, TreeTypes
  <2>2. \A p, q : Below(p, q) = BelowOf(th, p, q)
    BY DEF Below, BelowOf
  <2>. QED  BY <2>1, <2>2 DEF VirtualLossIsThreadsBelow, GoodNodes, GoodNode, Losses
<1>. QED  BY TreeInvariance, <1>1, PTL

\* The mean of a move's games (2256-2262) is that of a game's results while threads
\* leave and take back virtual losses, but for a mate that dfpn may have set.
THEOREM MeanOfResults == Spec => []MeanInRange
<1>1. TreeInv => MeanInRange
  <2> SUFFICES ASSUME TreeInv, NEW p \in made, NEW q \in Moves[p],
                      node[p].dfpn = 0 \/ q \notin DfpnMates
               PROVE  node[p].w[q] <= node[p].n[q] /\ -node[p].w[q] <= node[p].n[q]
    BY DEF MeanInRange
  <2>1. p \in Pos /\ GoodNode(p, node[p])
    BY DEF TreeInv, TreeTypes, GoodNodes
  <2>2. /\ node[p].n[q] \in Int /\ node[p].w[q] \in Int /\ node[p].vl[q] \in Int
        /\ 0 <= node[p].vl[q]
    BY <2>1 DEF GoodNode, Nodes
  <2>3. InRange(node[p], q)
    BY <2>1 DEF GoodNode
  <2>. QED  BY <2>2, <2>3 DEF InRange
<1>. QED  BY TreeInvariance, <1>1, PTL

\* However many threads finish a playout after the limit is seen (889-951), the
\* playouts are no more than were asked for.
THEOREM LimitIsKept == Spec => []PlayoutsBounded
<1>1. TreeInv => PlayoutsBounded
  <2> SUFFICES ASSUME TreeInv PROVE PlayoutsBounded
    OBVIOUS
  <2>1. count \in Nat /\ count - Threshold + 1 <= Cardinality(Over)
    BY DEF TreeInv, TreeTypes, Playouts
  <2>2. Cardinality(Over) <= Cardinality(Threads) /\ Cardinality(Over) \in Nat
        /\ Cardinality(Threads) \in Nat
    <3>1. Over \subseteq Threads
      BY DEF Over
    <3>. QED  BY <3>1, ThreadsAssumption, FS_Subset, FS_CardinalityType
  <2>. QED  BY <2>1, <2>2, LimitAssumption DEF PlayoutsBounded, Threshold
<1>. QED  BY TreeInvariance, <1>1, PTL
-----------------------------------------------------------------------------
(* The marks. The recursions by which Decided and Ahead are written down stop   *)
(* where they say they do, so that a position is lost exactly when its moves    *)
(* all lead to won ones, won exactly when one leads to a lost one, and what     *)
(* lies ahead of a position is closed under moves.                              *)

\* One step of the recursion.
Later(d) == [lost |-> {p \in Pos : Succ[p] \subseteq d.won},
             won  |-> {p \in Pos : Succ[p] \intersect d.lost # {}}]
Values   == [lost : SUBSET Pos, won : SUBSET Pos]
Nothing  == [lost |-> {}, won |-> {}]

\* Decided is the iteration of Later from nothing: what is lost and won within so many moves.
LEMMA DecidedIs ==
  /\ Decided[0] = Nothing
  /\ \A k \in Nat : Decided[k] \in Values /\ Decided[k + 1] = Later(Decided[k])
<1> DEFINE F == [k \in Nat |-> [d \in Values |-> Later(d)]]
           D(f) == f = [k \in Nat |-> IF k = 0 THEN Nothing ELSE Later(f[k - 1])]
<1>1. Nothing \in Values /\ F \in [Nat -> [Values -> Values]]
  BY DEF Nothing, Values, Later
<1>2. PICK g : Defined(g, Values, Nothing, F)
  <2> HIDE DEF F
  <2> QED BY <1>1, Recursion
<1>3. /\ g \in [Nat -> Values] /\ g[0] = Nothing
      /\ \A k \in Nat : g[k + 1] = Later(g[k])
  <2>1. /\ g \in [Nat -> Values] /\ g[0] = Nothing
        /\ \A k \in Nat : g[k + 1] = F[k][g[k]]
    BY <1>2 DEF Defined
  <2>2. \A k \in Nat : F[k][g[k]] = Later(g[k]) BY <2>1
  <2> HIDE DEF F
  <2> QED BY <2>1, <2>2
<1>4. D(g)
  <2>1. ASSUME NEW k \in Nat PROVE g[k] = IF k = 0 THEN Nothing ELSE Later(g[k - 1])
    <3>1. k # 0 => k - 1 \in Nat /\ (k - 1) + 1 = k OBVIOUS
    <3> QED BY <3>1, <1>3
  <2>2. g = [k \in Nat |-> g[k]] BY <1>3
  <2> QED BY <2>1, <2>2
<1>5. D(Decided)
  <2> DEFINE f == CHOOSE f : D(f)
  <2>1. D(f)
    <3> HIDE DEF D
    <3> QED BY <1>4
  <2>2. Decided = f BY Zenon DEF Decided, Later, Nothing
  <2> HIDE DEF f, D
  <2> QED BY <2>1, <2>2
<1>6. \A k \in Nat : Decided[k] = IF k = 0 THEN Nothing ELSE Later(Decided[k - 1])
  BY <1>5
<1>7. Decided[0] = Nothing BY <1>6
<1>8. \A k \in Nat : Decided[k + 1] = Later(Decided[k])
  <2>1. \A k \in Nat : k + 1 \in Nat /\ k + 1 # 0 /\ (k + 1) - 1 = k OBVIOUS
  <2> QED BY <1>6, <2>1
<1> HIDE DEF D
<1>9. \A k \in Nat : Decided[k] \in Values
  <2> DEFINE Q == {k \in Nat : Decided[k] \in Values}
  <2>0. \A d : Later(d) \in Values BY DEF Later, Values
  <2>1. 0 \in Q BY <1>1, <1>7
  <2>2. \A k \in Nat : k \in Q => k + 1 \in Q BY <1>8, <2>0
  <2>3. Nat \subseteq Q
    <3> HIDE DEF Q
    <3> QED BY <2>1, <2>2, AllNumbers
  <2> QED BY <2>3
<1> QED BY <1>7, <1>8, <1>9

\* Once decided a position stays so, and two that are the same stay the same.
Has(d) == (d.lost \X {0}) \union (d.won \X {1})

\* It stops: there are no more positions to be lost or won than that.
LEMMA DecidedStops == Decided[2 * Cardinality(Pos) + 1] = Decided[2 * Cardinality(Pos)]
<1> DEFINE f == [k \in Nat |-> Has(Decided[k])]
           Z == Pos \X {0, 1}
           n == 2 * Cardinality(Pos)
<1>1. IsFiniteSet(Z) /\ Cardinality(Z) = n /\ n \in Nat
  <2>1. IsFiniteSet({0, 1}) /\ Cardinality({0, 1}) = 2
    <3>1. {0, 1} = 0 .. 1 OBVIOUS
    <3>2. \A b \in Nat : /\ IsFiniteSet(0 .. b)
                         /\ Cardinality(0 .. b) = IF 0 > b THEN 0 ELSE b - 0 + 1
      BY FS_Interval
    <3>3. IsFiniteSet(0 .. 1) /\ Cardinality(0 .. 1) = IF 0 > 1 THEN 0 ELSE 1 - 0 + 1 BY <3>2
    <3> QED BY <3>1, <3>3
  <2>2. IsFiniteSet(Pos) /\ Cardinality(Pos) \in Nat
    BY PositionsAssumption, FS_CardinalityType
  <2>3. IsFiniteSet(Z) /\ Cardinality(Z) = Cardinality(Pos) * Cardinality({0, 1})
    BY <2>1, <2>2, FS_Product
  <2> QED BY <2>1, <2>2, <2>3
<1>2. \A d \in Values, e \in Values : d.lost \subseteq e.lost /\ d.won \subseteq e.won
        => Later(d).lost \subseteq Later(e).lost /\ Later(d).won \subseteq Later(e).won
  BY DEF Later, Values
<1> DEFINE Q == {k \in Nat : /\ Decided[k].lost \subseteq Decided[k + 1].lost
                             /\ Decided[k].won \subseteq Decided[k + 1].won}
<1>3. Nat \subseteq Q
  <2>1. 0 \in Q BY DecidedIs DEF Nothing
  <2>2. ASSUME NEW k \in Nat, k \in Q PROVE k + 1 \in Q
    <3>1. k + 1 \in Nat OBVIOUS
    <3>2. Decided[k] \in Values /\ Decided[k + 1] \in Values BY <3>1, DecidedIs
    <3>3. Decided[k + 1] = Later(Decided[k]) /\ Decided[(k + 1) + 1] = Later(Decided[k + 1])
      BY <3>1, DecidedIs
    <3> QED BY <1>2, <2>2, <3>1, <3>2, <3>3
  <2> HIDE DEF Q
  <2> QED BY <2>1, <2>2, AllNumbers
<1>4. \A d \in Values, e \in Values : Has(d) = Has(e) => d = e
  <2> SUFFICES ASSUME NEW d \in Values, NEW e \in Values, Has(d) = Has(e) PROVE d = e
    OBVIOUS
  <2>1. \A c \in Values : \A x : /\ x \in c.lost <=> <<x, 0>> \in Has(c)
                                 /\ x \in c.won <=> <<x, 1>> \in Has(c)
    BY DEF Has
  <2>2. d.lost = e.lost /\ d.won = e.won BY <2>1
  <2> QED BY <2>2 DEF Values
<1>5. Chain(f, Z)
  <2>1. ASSUME NEW k \in Nat PROVE f[k] \subseteq Z /\ f[k] \subseteq f[k + 1]
    <3>1. Decided[k] \in Values BY DecidedIs
    <3>2. k + 1 \in Nat /\ f[k] = Has(Decided[k]) /\ f[k + 1] = Has(Decided[k + 1]) OBVIOUS
    <3>3. k \in Q BY <1>3
    <3> QED BY <3>1, <3>2, <3>3 DEF Has, Values
  <2>2. ASSUME NEW k \in Nat, f[k] = f[k + 1] PROVE f[k + 1] = f[k + 2]
    <3>1. k + 1 \in Nat /\ k + 2 \in Nat /\ (k + 1) + 1 = k + 2 OBVIOUS
    <3>2. Decided[k] \in Values /\ Decided[k + 1] \in Values BY <3>1, DecidedIs
    <3>3. Has(Decided[k]) = Has(Decided[k + 1]) BY <2>2, <3>1
    <3>4. Decided[k] = Decided[k + 1] BY <1>4, <3>2, <3>3
    <3>5. Decided[k + 1] = Later(Decided[k]) /\ Decided[k + 2] = Later(Decided[k + 1])
      BY <3>1, DecidedIs
    <3> QED BY <3>1, <3>4, <3>5
  <2> HIDE DEF f, Z
  <2> QED BY <2>1, <2>2 DEF Chain
<1>6. f[n] = f[n + 1]
  <2> HIDE DEF f, Z, n
  <2>1. f[Cardinality(Z)] = f[Cardinality(Z) + 1] BY <1>1, <1>5, ChainStops
  <2> QED BY <1>1, <2>1
<1>7. n + 1 \in Nat /\ Has(Decided[n]) = Has(Decided[n + 1])
  <2> HIDE DEF n
  <2> QED BY <1>1, <1>6
<1>8. Decided[n] \in Values /\ Decided[n + 1] \in Values
  <2> HIDE DEF n
  <2> QED BY <1>1, <1>7, DecidedIs
<1>9. Decided[n] = Decided[n + 1]
  <2> HIDE DEF n
  <2> QED BY <1>4, <1>7, <1>8
<1> QED BY <1>9

\* What lost and won are.
LEMMA ValueOfPosition ==
  /\ LostPos = {p \in Pos : Succ[p] \subseteq WonPos}
  /\ WonPos = {p \in Pos : Succ[p] \intersect LostPos # {}}
<1> DEFINE n == 2 * Cardinality(Pos)
<1>1. n \in Nat BY PositionsAssumption, FS_CardinalityType
<1>2. Decided[n + 1] = Decided[n] BY DecidedStops
<1>3. LostPos = Decided[n].lost /\ WonPos = Decided[n].won BY DEF LostPos, WonPos
<1> HIDE DEF n
<1>4. Decided[n + 1] = Later(Decided[n]) BY <1>1, DecidedIs
<1>5. Decided[n] = Later(Decided[n]) BY <1>2, <1>4
<1> QED BY <1>3, <1>5 DEF Later

-----------------------------------------------------------------------------
\* With the positions one move further.
Further(s) == s \union UNION {Succ[x] : x \in s}

\* A set of positions that no move leads out of.
Closed(s) == \A x \in s : Succ[x] \subseteq s

\* What lies ahead of a position is reached in as many moves as there are positions.
LEMMA AheadIs ==
  ASSUME NEW p \in Pos
  PROVE  \E f : /\ f \in [Nat -> SUBSET Pos] /\ f[0] = Succ[p]
                /\ \A k \in Nat : f[k + 1] = Further(f[k])
                /\ Ahead(p) = f[Cardinality(Pos)]
<1> DEFINE F == [k \in Nat |-> [s \in SUBSET Pos |-> Further(s)]]
           D(f) == f = [k \in Nat |-> IF k = 0 THEN Succ[p] ELSE Further(f[k - 1])]
<1>1. Succ[p] \in SUBSET Pos /\ F \in [Nat -> [SUBSET Pos -> SUBSET Pos]]
  BY PositionsAssumption DEF Further
<1>2. PICK g : Defined(g, SUBSET Pos, Succ[p], F)
  <2> HIDE DEF F
  <2> QED BY <1>1, Recursion
<1>3. /\ g \in [Nat -> SUBSET Pos] /\ g[0] = Succ[p]
      /\ \A k \in Nat : g[k + 1] = Further(g[k])
  <2>1. /\ g \in [Nat -> SUBSET Pos] /\ g[0] = Succ[p]
        /\ \A k \in Nat : g[k + 1] = F[k][g[k]]
    BY <1>2 DEF Defined
  <2>2. \A k \in Nat : F[k][g[k]] = Further(g[k]) BY <2>1
  <2> HIDE DEF F
  <2> QED BY <2>1, <2>2
<1>4. D(g)
  <2>1. ASSUME NEW k \in Nat PROVE g[k] = IF k = 0 THEN Succ[p] ELSE Further(g[k - 1])
    <3>1. k # 0 => k - 1 \in Nat /\ (k - 1) + 1 = k OBVIOUS
    <3> QED BY <3>1, <1>3
  <2>2. g = [k \in Nat |-> g[k]] BY <1>3
  <2> QED BY <2>1, <2>2
<1> DEFINE f == CHOOSE f : D(f)
<1>5. D(f)
  <2> HIDE DEF D
  <2> QED BY <1>4
<1>6. Ahead(p) = f[Cardinality(Pos)]
  <2> DEFINE t[k \in Nat] == IF k = 0 THEN Succ[p]
                             ELSE t[k - 1] \union UNION {Succ[x] : x \in t[k - 1]}
  <2>1. Ahead(p) = t[Cardinality(Pos)] BY DEF Ahead
  <2>2. t = f BY Zenon DEF Further
  <2> HIDE DEF t
  <2> QED BY <2>1, <2>2
<1> HIDE DEF f
<1>7. \A k \in Nat : f[k] = IF k = 0 THEN Succ[p] ELSE Further(f[k - 1])
  BY <1>5
<1>8. f[0] = Succ[p] /\ \A k \in Nat : f[k + 1] = Further(f[k])
  <2>1. \A k \in Nat : k + 1 \in Nat /\ k + 1 # 0 /\ (k + 1) - 1 = k OBVIOUS
  <2> QED BY <1>7, <2>1
<1>9. f \in [Nat -> SUBSET Pos]
  <2> DEFINE Q == {k \in Nat : f[k] \in SUBSET Pos}
  <2>0. \A s \in SUBSET Pos : Further(s) \in SUBSET Pos
    BY PositionsAssumption DEF Further
  <2>1. 0 \in Q BY <1>1, <1>8
  <2>2. \A k \in Nat : k \in Q => k + 1 \in Q BY <1>8, <2>0
  <2>3. Nat \subseteq Q
    <3> HIDE DEF Q
    <3> QED BY <2>1, <2>2, AllNumbers
  <2>4. f = [k \in Nat |-> f[k]]
    <3> DEFINE h == [k \in Nat |-> IF k = 0 THEN Succ[p] ELSE Further(f[k - 1])]
    <3>1. f = h BY <1>5
    <3>2. h = [k \in Nat |-> h[k]] OBVIOUS
    <3> HIDE DEF h, D
    <3> QED BY <3>1, <3>2
  <2> HIDE DEF D
  <2> QED BY <2>3, <2>4
<1> HIDE DEF D
<1> QED BY <1>6, <1>8, <1>9

\* It is the least closed set that has the position's moves.
LEMMA AheadIsClosed ==
  ASSUME NEW p \in Pos
  PROVE  Ahead(p) \subseteq Pos /\ Succ[p] \subseteq Ahead(p) /\ Closed(Ahead(p))
<1>1. PICK f : /\ f \in [Nat -> SUBSET Pos] /\ f[0] = Succ[p]
               /\ \A k \in Nat : f[k + 1] = Further(f[k])
               /\ Ahead(p) = f[Cardinality(Pos)]
  BY AheadIs
<1>2. Chain(f, Pos)
  <2>1. ASSUME NEW k \in Nat PROVE f[k] \subseteq Pos /\ f[k] \subseteq f[k + 1]
    BY <1>1 DEF Further
  <2>2. ASSUME NEW k \in Nat, f[k] = f[k + 1] PROVE f[k + 1] = f[k + 2]
    <3>1. k + 1 \in Nat /\ (k + 1) + 1 = k + 2 OBVIOUS
    <3>2. f[k + 1] = Further(f[k]) /\ f[(k + 1) + 1] = Further(f[k + 1]) BY <1>1, <3>1
    <3> QED BY <2>2, <3>1, <3>2
  <2> QED BY <2>1, <2>2 DEF Chain
<1> DEFINE n == Cardinality(Pos)
<1>3. n \in Nat /\ IsFiniteSet(Pos) BY PositionsAssumption, FS_CardinalityType
<1>4. f[n] = f[n + 1] BY <1>2, <1>3, ChainStops
<1>5. Nat \subseteq {k \in Nat : Succ[p] \subseteq f[k]}
  <2> DEFINE Q == {k \in Nat : Succ[p] \subseteq f[k]}
  <2>1. 0 \in Q BY <1>1
  <2>2. \A k \in Nat : k \in Q => k + 1 \in Q BY <1>2 DEF Chain
  <2> HIDE DEF Q
  <2>3. Nat \subseteq Q BY <2>1, <2>2, AllNumbers
  <2> QED BY <2>3 DEF Q
<1> HIDE DEF n
<1>6. f[n] = Further(f[n]) BY <1>1, <1>3, <1>4
<1>7. Ahead(p) = f[n] BY <1>1 DEF n
<1> QED BY <1>1, <1>3, <1>5, <1>6, <1>7 DEF Closed, Further

\* What lies ahead is in every closed set that has the next positions.
LEMMA AheadIsLeast ==
  ASSUME NEW p \in Pos, NEW s, Succ[p] \subseteq s, Closed(s)
  PROVE  Ahead(p) \subseteq s
<1>1. PICK f : /\ f \in [Nat -> SUBSET Pos] /\ f[0] = Succ[p]
               /\ \A k \in Nat : f[k + 1] = Further(f[k])
               /\ Ahead(p) = f[Cardinality(Pos)]
  BY AheadIs
<1> DEFINE Q == {k \in Nat : f[k] \subseteq s}
<1>2. 0 \in Q BY <1>1
<1>3. \A k \in Nat : k \in Q => k + 1 \in Q BY <1>1 DEF Further, Closed
<1>4. Nat \subseteq Q
  <2> HIDE DEF Q
  <2> QED BY <1>2, <1>3, AllNumbers
<1>5. Cardinality(Pos) \in Nat BY PositionsAssumption, FS_CardinalityType
<1> QED BY <1>1, <1>4, <1>5

\* What is ahead of a move is ahead of the position it is made in, which is calm only
\* if the position it leads to is.
LEMMA CalmAhead ==
  ASSUME NEW p \in Pos, NEW q \in Succ[p]
  PROVE  q \in Ahead(p) /\ Ahead(q) \subseteq Ahead(p) /\ (p \in Calm => q \in Calm)
<1>1. q \in Pos BY PositionsAssumption
<1>2. q \in Ahead(p) /\ Closed(Ahead(p)) BY AheadIsClosed
<1>3. Succ[q] \subseteq Ahead(p) BY <1>2 DEF Closed
<1>4. Ahead(q) \subseteq Ahead(p) BY <1>1, <1>2, <1>3, AheadIsLeast
<1>5. Ahead(q) \union {q} \subseteq Ahead(p) \union {p} BY <1>2, <1>4
<1>6. ASSUME p \in Calm PROVE q \in Calm
  <2>1. \A x \in InCheck \intersect (Ahead(p) \union {p}) : x \notin Ahead(x) BY <1>6 DEF Calm
  <2>2. Missed \intersect (Ahead(p) \union {p}) = {} BY <1>6 DEF Calm
  <2>3. \A x \in InCheck \intersect (Ahead(q) \union {q}) : x \notin Ahead(x)
    BY <1>5, <2>1
  <2>4. Missed \intersect (Ahead(q) \union {q}) = {} BY <1>5, <2>2
  <2> QED BY <1>1, <2>3, <2>4 DEF Calm
<1> QED BY <1>2, <1>4, <1>6

-----------------------------------------------------------------------------
\* A sequence of positions each of which a move of the one before leads to.
Leads(s) == \A i \in 1 .. Len(s) - 1 : s[i + 1] \in Succ[s[i]]

\* Its later positions are ahead of its earlier ones.
LEMMA LeadsAhead ==
  ASSUME NEW s \in Seq(Pos), Leads(s), NEW i \in 1 .. Len(s), NEW j \in i + 1 .. Len(s)
  PROVE  s[j] \in Ahead(s[i])
<1> DEFINE Q == {k \in i + 1 .. Len(s) : s[k] \in Ahead(s[i])}
<1>1. \A k \in 1 .. Len(s) : s[k] \in Pos OBVIOUS
<1>2. Succ[s[i]] \subseteq Ahead(s[i]) /\ Closed(Ahead(s[i])) BY <1>1, AheadIsClosed
<1>3. i \in 1 .. Len(s) - 1 /\ i + 1 \in Int /\ Len(s) \in Int /\ i + 1 \in i + 1 .. Len(s)
  OBVIOUS
<1>4. i + 1 \in Q BY <1>2, <1>3 DEF Leads
<1>5. ASSUME NEW k \in i + 1 .. Len(s) - 1, k \in Q PROVE k + 1 \in Q
  <2>1. k \in 1 .. Len(s) - 1 /\ k + 1 \in i + 1 .. Len(s) OBVIOUS
  <2>2. s[k + 1] \in Succ[s[k]] BY <2>1 DEF Leads
  <2> QED BY <1>2, <1>5, <2>1, <2>2 DEF Closed
<1>6. i + 1 .. Len(s) \subseteq Q
  <2> HIDE DEF Q
  <2> QED BY <1>3, <1>4, <1>5, AllBetween
<1> QED BY <1>6

\* After a line to a calm position no move is illegal: it would have to lead, with
\* check, to a position of the line.
LEMMA NoneIsIllegal ==
  ASSUME NEW h \in Seq(Pos), Leads(h), h # <<>>, h[Len(h)] \in Calm,
         NEW q \in Succ[h[Len(h)]]
  PROVE  Repetition(h, q) # "illegal"
<1> DEFINE p == h[Len(h)]
<1>1. Len(h) \in 1 .. Len(h) /\ p \in Pos /\ Len(h) \in Nat OBVIOUS
<1>2. q \in Pos /\ q \in Ahead(p) BY <1>1, CalmAhead, PositionsAssumption
<1> SUFFICES ASSUME Repetition(h, q) = "illegal" PROVE FALSE OBVIOUS
<1>3. q \in InCheck /\ ~(Cardinality(Recent(h, q)) < SumMax - 1)
  BY DEF Repetition
<1>4. PICK i \in Recent(h, q) : TRUE
  <2>1. SumMax - 1 >= 1 /\ SumMax \in Int BY BoundsAssumption
  <2>2. Recent(h, q) = {} => Cardinality(Recent(h, q)) = 0 BY FS_EmptySet
  <2> QED BY <1>3, <2>1, <2>2
<1>5. i \in 1 .. Len(h) /\ h[i] = q BY <1>1, <1>4 DEF Recent, Occurrences
<1>6. p \in Ahead(q) \/ p = q
  <2>1. CASE i = Len(h) BY <1>5, <2>1
  <2>2. CASE i # Len(h)
    <3>1. Len(h) \in i + 1 .. Len(h) BY <1>1, <1>5, <2>2
    <3> QED BY <1>5, <3>1, LeadsAhead
  <2> QED BY <2>1, <2>2
<1>7. q \in Ahead(q)
  <2>1. CASE p = q BY <1>2, <2>1
  <2>2. CASE p \in Ahead(q)
    <3>1. Closed(Ahead(q)) BY <1>2, AheadIsClosed
    <3> QED BY <2>2, <3>1 DEF Closed
  <2> QED BY <1>6, <2>1, <2>2
<1> QED BY <1>2, <1>3, <1>7 DEF Calm

-----------------------------------------------------------------------------
(* The invariant of the marks.                                                  *)

\* What a mark says of the position it is on is so.
TrueMark(q, ex) == (ex = "win" => q \in LostPos) /\ (ex = "loss" => q \in WonPos)
TrueMarks(p, nd) == p \in Calm => \A q \in Moves[p] : TrueMark(q, nd.exact[q])

\* A thread that comes back says of the position it comes back from what is so.
Tells(f) == LET q == f.path[Len(f.path)]
            IN f.pc = "back" /\ q \in Calm => TrueMark(q, f.ex)

\* The game up to the root and on to where a thread is was played by legal moves.
Lines == Leads(Append(hist, root)) /\ \A t \in Threads : Leads(Line(t))

MarksInv == /\ Lines
            /\ \A p \in Pos : TrueMarks(p, node[p])
            /\ \A t \in Threads : Tells(th[t])

\* A thread's line leads to the top of its path.
LEMMA LineIs ==
  ASSUME TreeInv, NEW t \in Threads
  PROVE  /\ th[t].path \in Seq(Pos) /\ th[t].path # <<>> /\ hist \in Seq(Pos) /\ Top(t) \in Pos
         /\ Line(t) \in Seq(Pos) /\ Line(t) # <<>> /\ Line(t)[Len(Line(t))] = Top(t)
         /\ Top(t) = th[t].path[Len(th[t].path)]
<1>1. /\ th[t].path \in Seq(Pos) /\ th[t].path # <<>> /\ hist \in Seq(Pos)
      /\ Top(t) = th[t].path[Len(th[t].path)] /\ Top(t) \in Pos
      /\ Len(th[t].path) \in Nat /\ Len(th[t].path) >= 1
  BY FrameType DEF TreeInv, TreeTypes
<1> DEFINE s == th[t].path
<1> HIDE DEF s
<1>2. Line(t) = hist \o s BY DEF Line, s
<1>3. /\ s \in Seq(Pos) /\ hist \in Seq(Pos) /\ Len(s) >= 1 /\ Len(s) \in Nat
      /\ Top(t) = s[Len(s)]
  BY <1>1 DEF s
<1>4. hist \o s \in Seq(Pos) /\ hist \o s # <<>> /\ (hist \o s)[Len(hist \o s)] = s[Len(s)]
  BY <1>3
<1> QED BY <1>1, <1>2, <1>3, <1>4

\* One more move, or the last one taken back, and still it leads.
LEMMA LeadsOn ==
  ASSUME NEW s \in Seq(Pos), s # <<>>, Leads(s), NEW q \in Succ[s[Len(s)]]
  PROVE  Leads(Append(s, q))
<1>1. /\ Len(s) \in Nat /\ Len(s) >= 1 /\ s[Len(s)] \in Pos OBVIOUS
<1>2. q \in Pos BY <1>1, PositionsAssumption
<1> DEFINE r == Append(s, q)
<1>3. Len(r) = Len(s) + 1 /\ r[Len(s) + 1] = q /\ \A i \in 1 .. Len(s) : r[i] = s[i]
  BY <1>2
<1> HIDE DEF r
<1>4. ASSUME NEW i \in 1 .. Len(r) - 1 PROVE r[i + 1] \in Succ[r[i]]
  <2>1. CASE i = Len(s) BY <1>1, <1>3, <2>1
  <2>2. CASE i < Len(s) BY <1>1, <1>3, <2>2 DEF Leads
  <2> QED BY <1>1, <1>3, <2>1, <2>2
<1> QED BY <1>4 DEF Leads, r

\* A move more on the line is a move more on the game and the line.
LEMMA LineAppended ==
  ASSUME NEW h \in Seq(Pos), NEW s \in Seq(Pos), NEW q \in Pos
  PROVE  h \o Append(s, q) = Append(h \o s, q)
<1>1. <<q>> \in Seq(Pos) OBVIOUS
<1>2. h \o (s \o <<q>>) = (h \o s) \o <<q>>
  <2> DEFINE e == <<q>>
  <2> HIDE DEF e
  <2>1. (h \o s) \o e = h \o (s \o e) BY <1>1, ConcatAssociative DEF e
  <2> QED BY <2>1 DEF e
<1>3. Append(s, q) = s \o <<q>> /\ Append(h \o s, q) = (h \o s) \o <<q>>
  BY AppendIsConcat
<1> QED BY <1>2, <1>3

\* Without its last move a line still leads.
LEMMA LeadsBack ==
  ASSUME NEW s \in Seq(Pos), NEW q \in Pos, Leads(Append(s, q))
  PROVE  Leads(s)
<1> DEFINE r == Append(s, q)
<1>1. /\ Len(s) \in Nat /\ Len(r) = Len(s) + 1 /\ \A i \in 1 .. Len(s) : r[i] = s[i]
  OBVIOUS
<1>2. \A i \in 1 .. Len(r) - 1 : r[i + 1] \in Succ[r[i]] BY DEF Leads
<1> HIDE DEF r
<1>3. ASSUME NEW i \in 1 .. Len(s) - 1 PROVE s[i + 1] \in Succ[s[i]]
  <2>1. i \in 1 .. Len(r) - 1 /\ i \in 1 .. Len(s) /\ i + 1 \in 1 .. Len(s) BY <1>1
  <2> QED BY <1>1, <1>2, <2>1
<1> QED BY <1>3 DEF Leads

-----------------------------------------------------------------------------
(* One thread's step and the one node it changes.                               *)

\* Thread t moves on along its line, the node of p becomes nd with true marks, and if
\* the thread comes back it tells what is so.
Truly(t, p, nd) ==
  /\ \A u \in Threads \ {t} : th'[u] = th[u]
  /\ node' = [node EXCEPT ![p] = nd] /\ TrueMarks(p, nd)
  /\ root' = root /\ hist' = hist
  /\ Leads(hist \o th'[t].path) /\ Tells(th'[t])

\* A true step keeps the marks true.
LEMMA TrulyKeeps ==
  ASSUME TreeInv, MarksInv, NEW t \in Threads, NEW p \in Pos, NEW nd, Truly(t, p, nd)
  PROVE  MarksInv'
<1>1. node = [x \in Pos |-> node[x]] BY DEF TreeInv, TreeTypes
<1>2. \A x \in Pos : node'[x] = IF x = p THEN nd ELSE node[x] BY <1>1 DEF Truly
<1>3. \A x \in Pos : TrueMarks(x, node'[x])
  <2> SUFFICES ASSUME NEW x \in Pos PROVE TrueMarks(x, node'[x]) OBVIOUS
  <2>1. CASE x = p
    <3>1. node'[x] = nd /\ TrueMarks(p, nd) BY <1>2, <2>1 DEF Truly
    <3> QED BY <2>1, <3>1
  <2>2. CASE x # p
    <3>1. node'[x] = node[x] /\ TrueMarks(x, node[x]) BY <1>2, <2>2 DEF MarksInv
    <3> QED BY <3>1
  <2> QED BY <2>1, <2>2
<1>4. \A u \in Threads : Leads(hist \o th'[u].path) /\ Tells(th'[u])
  <2> SUFFICES ASSUME NEW u \in Threads PROVE Leads(hist \o th'[u].path) /\ Tells(th'[u])
    OBVIOUS
  <2>1. CASE u = t BY <2>1 DEF Truly
  <2>2. CASE u # t
    <3>1. th'[u] = th[u] BY <2>2 DEF Truly
    <3>2. Leads(hist \o th[u].path) /\ Tells(th[u]) BY DEF MarksInv, Lines, Line
    <3> QED BY <3>1, <3>2
  <2> QED BY <2>1, <2>2
<1>5. Lines'
  <2>1. root' = root /\ hist' = hist BY DEF Truly
  <2>2. Leads(Append(hist', root')) BY <2>1 DEF MarksInv, Lines
  <2>3. \A u \in Threads : Leads(hist' \o th'[u].path) BY <1>4, <2>1
  <2> QED BY <2>2, <2>3 DEF Lines, Line, Leads
<1>6. (\A x \in Pos : TrueMarks(x, node[x]))'
  BY <1>3 DEF TrueMarks, TrueMark
<1>7. (\A u \in Threads : Tells(th[u]))'
  BY <1>4 DEF Tells, TrueMark
<1> QED BY <1>5, <1>6, <1>7 DEF MarksInv

\* A visit of the thread's top position that ends, at once or with a mark that is so.
LEMMA ReturnsTruly ==
  ASSUME TreeInv, MarksInv, NEW t \in Threads, NEW nd, TrueMarks(Top(t), nd),
         node' = [node EXCEPT ![Top(t)] = nd], UNCHANGED <<root, hist>>,
         NEW v \in Results, NEW ex \in Marks, Return(t, v, ex),
         Top(t) \in Calm => TrueMark(Top(t), ex)
  PROVE  Truly(t, Top(t), nd)
<1>1. TreeTypes BY DEF TreeInv
<1>2. /\ \A u \in Threads \ {t} : th'[u] = th[u]
      /\ th'[t].path = th[t].path
  BY <1>1, ReturnFrame
<1>3. th'[t].ex = ex BY <1>1 DEF TreeTypes, Frames, Return
<1>4. Leads(hist \o th'[t].path) BY <1>2 DEF MarksInv, Lines, Line
<1>5. Tells(th'[t])
  <2>1. Top(t) = th'[t].path[Len(th'[t].path)] BY <1>2 DEF Top
  <2> QED BY <1>3, <2>1 DEF Tells
<1> QED BY <1>2, <1>4, <1>5 DEF Truly

\* One that waits for a leaf.
LEMMA WaitsTruly ==
  ASSUME TreeInv, MarksInv, NEW t \in Threads, NEW nd, TrueMarks(Top(t), nd),
         node' = [node EXCEPT ![Top(t)] = nd], UNCHANGED <<root, hist>>,
         \A u \in Threads \ {t} : th'[u] = th[u],
         th'[t].path = th[t].path, th'[t].pc # "back"
  PROVE  Truly(t, Top(t), nd)
<1>1. Leads(hist \o th'[t].path) BY DEF MarksInv, Lines, Line
<1>2. Tells(th'[t]) BY DEF Tells
<1> QED BY <1>1, <1>2 DEF Truly

\* One that goes on below.
LEMMA GoesTruly ==
  ASSUME TreeInv, MarksInv, NEW t \in Threads, NEW nd, TrueMarks(Top(t), nd),
         UNCHANGED <<root, hist>>, NEW q \in Moves[Top(t)], GoDown(t, Top(t), nd, q)
  PROVE  \E md : Truly(t, Top(t), md)
<1>1. TreeTypes BY DEF TreeInv
<1>2. /\ th[t].path \in Seq(Pos) /\ th[t].path # <<>> /\ hist \in Seq(Pos) /\ Top(t) \in Pos
      /\ Line(t) \in Seq(Pos) /\ Line(t) # <<>> /\ Line(t)[Len(Line(t))] = Top(t)
  BY LineIs
<1>3. q \in Pos /\ q \in Succ[Top(t)] BY <1>2, MovesAreLegal
<1>4. /\ \A u \in Threads \ {t} : th'[u] = th[u]
      /\ th'[t].path = Append(th[t].path, q) /\ th'[t].pc = "enter"
  BY <1>1, <1>3, DownFrame DEF GoDown
<1>5. Leads(hist \o th'[t].path)
  <2>1. Leads(Line(t)) BY DEF MarksInv, Lines
  <2>2. Leads(Append(Line(t), q)) BY <1>2, <1>3, <2>1, LeadsOn
  <2>3. hist \o Append(th[t].path, q) = Append(hist \o th[t].path, q)
    BY <1>2, <1>3, LineAppended
  <2> QED BY <1>4, <2>2, <2>3 DEF Line
<1>6. TrueMarks(Top(t), VirtualLoss(nd, q))
  <2>1. VirtualLoss(nd, q).exact = nd.exact BY DEF VirtualLoss
  <2> QED BY <2>1 DEF TrueMarks
<1>7. Truly(t, Top(t), VirtualLoss(nd, q))
  BY <1>4, <1>5, <1>6 DEF Truly, GoDown, Tells
<1> QED BY <1>7

\* A thread's step that keeps the marks true.
MovesTruly(t) == \E nd : Truly(t, Top(t), nd)

\* The end of a visit (2226-2266): a move marked as a mate makes its position a won one.
LEMMA EndsTruly ==
  ASSUME TreeInv, MarksInv, NEW t \in Threads, NEW nd \in Nodes(Top(t)), TrueMarks(Top(t), nd),
         UNCHANGED <<root, hist>>, NEW q \in Moves[Top(t)], NEW win \in Results,
         EndVisit(t, Top(t), nd, q, win)
  PROVE  MovesTruly(t)
<1> DEFINE p == Top(t)
           md == Update(nd, q, win)
<1>1. p \in Pos BY LineIs
<1>2. md.exact = nd.exact BY DEF Update
<1>3. TrueMarks(p, md) BY <1>2 DEF TrueMarks
<1>4. node' = [node EXCEPT ![p] = md] BY DEF EndVisit
<1>5. CASE q \in Won(nd)
  <2>1. Return(t, 1, "loss") BY <1>5 DEF EndVisit
  <2>2. p \in Calm => TrueMark(p, "loss")
    <3>1. nd.exact[q] = "win" BY <1>5 DEF Won
    <3>2. p \in Calm => q \in LostPos BY <3>1 DEF TrueMarks, TrueMark
    <3>3. q \in LostPos => p \in WonPos BY <1>1, MovesAreLegal, ValueOfPosition
    <3> QED BY <3>2, <3>3 DEF TrueMark
  <2> HIDE DEF md
  <2>3. Truly(t, p, md) BY <1>3, <1>4, <2>1, <2>2, ReturnsTruly DEF Results, Marks
  <2> QED BY <2>3 DEF MovesTruly
<1>6. CASE q \notin Won(nd)
  <2>1. Return(t, win, "none") BY <1>6 DEF EndVisit
  <2>2. p \in Calm => TrueMark(p, "none") BY DEF TrueMark
  <2> HIDE DEF md
  <2>3. Truly(t, p, md) BY <1>3, <1>4, <2>1, <2>2, ReturnsTruly DEF Marks
  <2> QED BY <2>3 DEF MovesTruly
<1> QED BY <1>5, <1>6

\* A move on the board (2095-2161): the mark is set only for a mate in three plies.
LEMMA PlaysTruly ==
  ASSUME TreeInv, MarksInv, NEW t \in Threads, NEW od \in Nodes(Top(t)), TrueMarks(Top(t), od),
         UNCHANGED <<root, hist>>, NEW q \in Moves[Top(t)], Play(t, Top(t), od, q)
  PROVE  MovesTruly(t)
<1> DEFINE p     == Top(t)
           rep   == Repetition(Line(t), q)
           quiet == q \notin InCheck
           said  == quiet /\ q \in Declares
           try3  == rep = "none" /\ ~said /\ quiet /\ q \notin od.m3
           mated == try3 /\ q \in Mate3
           M     == IF try3 THEN od.m3 \union {q} ELSE od.m3
           L     == IF mated THEN "loss" ELSE od.exact[q]
           nd    == [od EXCEPT !.m3 = M, !.exact[q] = L]
           over  == Len(Line(t)) >= MaxPly
<1>1. p \in Pos /\ q \in Pos /\ q \in Succ[p] /\ TreeTypes
  <2>1. p \in Pos BY LineIs
  <2> QED BY <2>1, MovesAreLegal DEF TreeInv
<1>2. od.m3 \in SUBSET Moves[p] /\ od.exact \in [Moves[p] -> Marks] BY DEF Nodes
<1>3. M \in SUBSET Moves[p] /\ L \in Marks BY <1>2 DEF Marks
<1>4. nd.exact = [od.exact EXCEPT ![q] = L]
  <2> HIDE DEF M, L
  <2>1. od \in Fields(od.n, od.w, od.vl, od.exact, od.m3, od.sum, od.dfpn)
    BY <1>1, NodeIsItsFields
  <2> QED BY <2>1 DEF Fields
<1>5. nd \in Nodes(p)
  <2> HIDE DEF M, L
  <2>1. od \in Fields(od.n, od.w, od.vl, od.exact, od.m3, od.sum, od.dfpn)
    BY <1>1, NodeIsItsFields
  <2>2. nd \in Fields(od.n, od.w, od.vl, [od.exact EXCEPT ![q] = L], M, od.sum, od.dfpn)
    BY <2>1 DEF Fields
  <2>3. [od.exact EXCEPT ![q] = L] \in [Moves[p] -> Marks] BY <1>2, <1>3
  <2> QED BY <1>3, <2>2, <2>3 DEF Fields, Nodes
<1>6. TrueMarks(p, nd)
  <2> SUFFICES ASSUME p \in Calm, NEW x \in Moves[p] PROVE TrueMark(x, nd.exact[x])
    BY DEF TrueMarks
  <2>1. TrueMark(x, od.exact[x]) BY DEF TrueMarks
  <2>2. CASE x = q /\ mated
    <3>1. nd.exact[x] = "loss" BY <1>2, <1>4, <2>2
    <3>2. x \in Calm BY <1>1, <2>2, CalmAhead
    <3>3. x \in WonPos BY <2>2, <3>2, MateAssumption
    <3> QED BY <3>1, <3>3 DEF TrueMark
  <2>3. CASE ~(x = q /\ mated)
    <3>1. nd.exact[x] = od.exact[x] BY <1>2, <1>4, <2>3
    <3> QED BY <2>1, <3>1
  <2> QED BY <2>2, <2>3
<1>7. \/ EndVisit(t, p, nd, q, 0) \/ EndVisit(t, p, nd, q, -1) \/ EndVisit(t, p, nd, q, 1)
      \/ node' = [node EXCEPT ![p] = nd]
         /\ th' = [th EXCEPT ![t].pc = "leaf", ![t].q = q]
      \/ GoDown(t, p, nd, q)
  <2>0. nd = [od EXCEPT !.m3 = IF try3 THEN @ \union {q} ELSE @,
                        !.exact[q] = IF mated THEN "loss" ELSE @]
    OBVIOUS
  <2> HIDE DEF nd, rep, over
  <2>1. CASE over BY <2>0, <2>1 DEF Play, rep, over
  <2>2. CASE ~over /\ (said \/ mated) BY <2>0, <2>2 DEF Play, rep, over
  <2>3. CASE ~over /\ ~(said \/ mated) /\ rep = "win" BY <2>0, <2>3 DEF Play, rep, over
  <2>4. CASE ~over /\ ~(said \/ mated) /\ rep = "draw" BY <2>0, <2>4 DEF Play, rep, over
  <2>5. CASE ~over /\ ~(said \/ mated) /\ rep \notin {"win", "draw"}
    BY <2>0, <2>5 DEF Play, rep, over
  <2> QED BY <2>1, <2>2, <2>3, <2>4, <2>5
<1> HIDE DEF nd
<1>8. CASE EndVisit(t, p, nd, q, 0) \/ EndVisit(t, p, nd, q, -1) \/ EndVisit(t, p, nd, q, 1)
  BY <1>5, <1>6, <1>8, EndsTruly DEF Results
<1>9. CASE node' = [node EXCEPT ![p] = nd] /\ th' = [th EXCEPT ![t].pc = "leaf", ![t].q = q]
  <2>1. /\ \A u \in Threads \ {t} : th'[u] = th[u]
        /\ th'[t].path = th[t].path /\ th'[t].pc = "leaf"
    BY <1>1, <1>9, LeafFrame
  <2>2. Truly(t, p, nd) BY <1>6, <1>9, <2>1, WaitsTruly
  <2> QED BY <2>2 DEF MovesTruly
<1>10. CASE GoDown(t, p, nd, q)
  <2>1. \E md : Truly(t, p, md) BY <1>6, <1>10, GoesTruly
  <2> QED BY <2>1 DEF MovesTruly
<1> QED BY <1>7, <1>8, <1>9, <1>10

\* The loop select_again (1962-2093): in a calm position no move is barred, so that in one
\* without a playable move all that are looked at lead to won positions; it is not missed,
\* so that it is lost.
LEMMA SelectsTruly ==
  ASSUME TreeInv, MarksInv, NEW t \in Threads, NEW od \in Nodes(Top(t)), TrueMarks(Top(t), od),
         UNCHANGED <<root, hist>>, Select(t, Top(t), od)
  PROVE  MovesTruly(t)
<1> DEFINE p == Top(t)
           Unmark(tried) == [od EXCEPT !.exact =
                               [q \in Moves[p] |-> IF q \in tried THEN "none" ELSE @[q]]]
           barred == {q \in Moves[p] : Repetition(Line(t), q) = "illegal"}
           legal  == Playable(od) \ barred
           wins   == Won(od) \ barred
<1>1. p \in Pos BY LineIs
<1>2. \A tried : Unmark(tried) \in Nodes(p) BY DEF Nodes, Marks
<1>3. \A tried : TrueMarks(p, Unmark(tried))
  <2> SUFFICES ASSUME NEW tried, p \in Calm, NEW q \in Moves[p]
               PROVE  TrueMark(q, Unmark(tried).exact[q])
    BY DEF TrueMarks
  <2>1. Unmark(tried).exact[q] \in {"none", od.exact[q]} BY DEF Nodes
  <2>2. TrueMark(q, od.exact[q]) BY DEF TrueMarks
  <2>3. TrueMark(q, "none") BY DEF TrueMark
  <2> HIDE DEF Unmark
  <2> QED BY <2>1, <2>2, <2>3
<1>4. p \in Calm => barred = {}
  <2>1. Leads(Line(t)) BY DEF MarksInv, Lines
  <2>2. /\ Line(t) \in Seq(Pos) /\ Line(t) # <<>> /\ Line(t)[Len(Line(t))] = p BY LineIs
  <2>3. p \in Calm => \A q \in Moves[p] : Repetition(Line(t), q) # "illegal"
    BY <1>1, <2>1, <2>2, MovesAreLegal, NoneIsIllegal
  <2> QED BY <2>3
<1>5. \/ legal = {} /\ node' = [node EXCEPT ![p] = Unmark(Playable(od))] /\ Return(t, -1, "win")
      \/ \E tried : \E q \in IF wins # {} THEN wins ELSE legal : Play(t, p, Unmark(tried), q)
  <2>1. CASE legal = {} BY <2>1 DEF Select
  <2>2. CASE legal # {}
    <3>1. PICK tried \in SUBSET (Playable(od) \intersect barred),
               q \in IF wins # {} THEN wins ELSE legal : Play(t, p, Unmark(tried), q)
      BY <2>2, Zenon DEF Select
    <3> QED BY <3>1
  <2> QED BY <2>1, <2>2
<1>6. DOMAIN od.exact = Moves[p] /\ \A q \in Moves[p] : od.exact[q] \in Marks BY DEF Nodes
<1>7. wins \subseteq Moves[p] /\ legal \subseteq Moves[p] BY <1>6 DEF Won, Playable
<1>8. ASSUME p \in Calm, legal = {} PROVE TrueMark(p, "win")
  <2>1. Playable(od) = {} BY <1>4, <1>8
  <2>2. \A q \in Moves[p] : od.exact[q] = "loss" BY <1>6, <2>1 DEF Playable
  <2>3. Moves[p] \subseteq WonPos BY <1>8, <2>2 DEF TrueMarks, TrueMark
  <2>4. p \in LostPos BY <1>1, <1>8, <2>3 DEF Calm, Missed
  <2> QED BY <2>4 DEF TrueMark
<1> HIDE DEF Unmark, barred, legal, wins
<1>9. CASE legal = {} /\ node' = [node EXCEPT ![p] = Unmark(Playable(od))] /\ Return(t, -1, "win")
  <2>1. Truly(t, p, Unmark(Playable(od)))
    <3> DEFINE nd == Unmark(Playable(od))
    <3>1. TrueMarks(p, nd) /\ node' = [node EXCEPT ![p] = nd] BY <1>3, <1>9
    <3> HIDE DEF nd
    <3>2. Truly(t, p, nd) BY <1>8, <1>9, <3>1, ReturnsTruly DEF Results, Marks
    <3> QED BY <3>2 DEF nd
  <2> QED BY <2>1 DEF MovesTruly
<1>10. CASE \E tried : \E q \in IF wins # {} THEN wins ELSE legal : Play(t, p, Unmark(tried), q)
  <2>1. PICK tried : \E q \in Moves[p] : Play(t, p, Unmark(tried), q) BY <1>7, <1>10
  <2>2. PICK q \in Moves[p] : Play(t, p, Unmark(tried), q) BY <2>1
  <2>3. Unmark(tried) \in Nodes(p) /\ TrueMarks(p, Unmark(tried)) BY <1>2, <1>3
  <2> QED BY <2>2, <2>3, PlaysTruly
<1> QED BY <1>5, <1>9, <1>10

-----------------------------------------------------------------------------
(* Each step keeps the marks true.                                              *)

\* Taking the node's lock (1801-1862).
LEMMA EnterTruly ==
  ASSUME TreeInv, MarksInv, NEW t \in Threads, Enter(t)
  PROVE  MovesTruly(t)
<1> DEFINE p == Top(t)
<1>1. p \in Pos /\ TreeTypes BY LineIs DEF TreeInv
<1>2. node[p] \in Nodes(p) /\ TrueMarks(p, node[p]) BY <1>1 DEF TreeTypes, MarksInv
<1>3. /\ UNCHANGED <<root, hist>>
      /\ \/ /\ node' = [node EXCEPT ![p] = [node[p] EXCEPT !.dfpn = DfpnTried(node[p])]]
            /\ th' = [th EXCEPT ![t].pc = "dfpn"]
         \/ Select(t, p, node[p])
  BY <1>1, EnteredNode DEF Enter
<1>4. CASE Select(t, p, node[p])
  BY <1>2, <1>3, <1>4, SelectsTruly
<1>5. CASE /\ node' = [node EXCEPT ![p] = [node[p] EXCEPT !.dfpn = DfpnTried(node[p])]]
           /\ th' = [th EXCEPT ![t].pc = "dfpn"]
  <2> DEFINE nd == [node[p] EXCEPT !.dfpn = DfpnTried(node[p])]
  <2>1. nd.exact = node[p].exact BY <1>2 DEF Nodes
  <2>2. TrueMarks(p, nd) BY <1>2, <2>1 DEF TrueMarks
  <2>3. /\ \A u \in Threads \ {t} : th'[u] = th[u]
        /\ th'[t].path = th[t].path /\ th'[t].pc = "dfpn"
    BY <1>1, <1>5 DEF TreeTypes, Frames, Places
  <2>4. node' = [node EXCEPT ![p] = nd] BY <1>5
  <2> HIDE DEF nd
  <2>5. Truly(t, p, nd) BY <1>3, <2>2, <2>3, <2>4, WaitsTruly
  <2> QED BY <2>5 DEF MovesTruly
<1> QED BY <1>3, <1>4, <1>5

\* dfpn's answer (1861-1901).
LEMMA DfpnTruly ==
  ASSUME TreeInv, MarksInv, NEW t \in Threads, Dfpn(t)
  PROVE  MovesTruly(t)
<1> DEFINE p == Top(t)
<1>1. p \in Pos /\ TreeTypes BY LineIs DEF TreeInv
<1>2. node[p] \in Nodes(p) /\ TrueMarks(p, node[p]) BY <1>1 DEF TreeTypes, MarksInv
<1>3. /\ UNCHANGED <<root, hist>>
      /\ \/ \E q \in Moves[p] \intersect DfpnMates : /\ node' = [node EXCEPT ![p] = Solve(@, q)]
                                                  /\ Return(t, 1, "loss")
         \/ Select(t, p, node[p])
  BY DEF Dfpn
<1>4. CASE Select(t, p, node[p])
  BY <1>2, <1>3, <1>4, SelectsTruly
<1>5. ASSUME NEW q \in Moves[p], q \in DfpnMates, node' = [node EXCEPT ![p] = Solve(@, q)],
             Return(t, 1, "loss")
      PROVE  MovesTruly(t)
  <2> DEFINE nd == Solve(node[p], q)
  <2>0. q \in Succ[p] BY <1>1, <1>5, MovesAreLegal
  <2>6. p \in Calm => q \in LostPos
    <3>1. p \in Calm => q \in Calm BY <1>1, <2>0, CalmAhead
    <3> QED BY <1>5, <3>1, MateAssumption
  <2>1. nd.exact = [node[p].exact EXCEPT ![q] = "win"] BY <1>2 DEF Solve, Nodes
  <2>2. TrueMarks(p, nd)
    <3> SUFFICES ASSUME p \in Calm, NEW x \in Moves[p] PROVE TrueMark(x, nd.exact[x])
      BY DEF TrueMarks
    <3>1. node[p].exact \in [Moves[p] -> Marks] BY <1>2 DEF Nodes
    <3>2. nd.exact[x] = IF x = q THEN "win" ELSE node[p].exact[x] BY <2>1, <3>1
    <3>3. TrueMark(q, "win") BY <2>6 DEF TrueMark
    <3>4. TrueMark(x, node[p].exact[x]) BY <1>2 DEF TrueMarks
    <3> HIDE DEF nd
    <3> QED BY <3>2, <3>3, <3>4
  <2>3. node' = [node EXCEPT ![p] = nd] BY <1>5
  <2>4. p \in Calm => TrueMark(p, "loss")
    <3>1. p \in Calm => p \in WonPos BY <1>1, <2>0, <2>6, ValueOfPosition
    <3> QED BY <3>1 DEF TrueMark
  <2> HIDE DEF nd
  <2>5. Truly(t, p, nd) BY <1>3, <1>5, <2>2, <2>3, <2>4, ReturnsTruly DEF Results, Marks
  <2> QED BY <2>5 DEF MovesTruly
<1> QED BY <1>3, <1>4, <1>5

\* The parent's lock again (2189-2206).
LEMMA RelockTruly ==
  ASSUME TreeInv, MarksInv, NEW t \in Threads, Relock(t)
  PROVE  MovesTruly(t)
<1> DEFINE p == Top(t)
           q == th[t].q
<1>1. p \in Pos /\ TreeTypes /\ FrameOK(th[t]) BY LineIs DEF TreeInv, Frame
<1>2. node[p] \in Nodes(p) /\ TrueMarks(p, node[p]) BY <1>1 DEF TreeTypes, MarksInv
<1>3. q \in Moves[p] /\ th[t].win \in Results
  BY <1>1, LineIs DEF FrameOK, Relock, TreeTypes, Frames
<1>4. UNCHANGED <<root, hist>>
      /\ (GoDown(t, p, node[p], q) \/ EndVisit(t, p, node[p], q, th[t].win))
  BY DEF Relock
<1> HIDE DEF q
<1>5. CASE GoDown(t, p, node[p], q)
  <2>1. \E md : Truly(t, p, md) BY <1>2, <1>3, <1>4, <1>5, GoesTruly
  <2> QED BY <2>1 DEF MovesTruly
<1>6. CASE EndVisit(t, p, node[p], q, th[t].win)
  BY <1>2, <1>3, <1>4, <1>6, EndsTruly
<1> QED BY <1>4, <1>5, <1>6

\* A step at the thread's own top.
LEMMA MovedTruly ==
  ASSUME TreeInv, MarksInv, NEW t \in Threads, MovesTruly(t)
  PROVE  MarksInv'
<1>1. PICK nd : Truly(t, Top(t), nd) BY DEF MovesTruly
<1>2. Top(t) \in Pos BY LineIs
<1> QED BY <1>1, <1>2, TrulyKeeps

\* The leaf's own lock (2160-2189).
LEMMA LeafTruly ==
  ASSUME TreeInv, MarksInv, NEW t \in Threads, Leaf(t)
  PROVE  MarksInv'
<1> DEFINE q == th[t].q
<1>1. TreeTypes /\ Fresh BY DEF TreeInv
<1>2. q \in Pos BY <1>1 DEF TreeTypes, Frames
<1>3. node' = [node EXCEPT ![q] = node[q]]
  <2>1. node = [x \in Pos |-> node[x]] BY <1>1 DEF TreeTypes
  <2>2. q \notin made => node[q] = NewNode(q) BY <1>1, <1>2 DEF Fresh
  <2> QED BY <1>2, <2>1, <2>2 DEF Leaf
<1>4. /\ \A u \in Threads \ {t} : th'[u] = th[u]
      /\ th'[t].path = th[t].path /\ th'[t].pc = "relock"
  <2> DEFINE v == -NetValue(q)
             d == q \in made \/ Cardinality(Succ[q]) = 1
  <2>1. th' = [th EXCEPT ![t].pc = "relock", ![t].win = v, ![t].down = d] BY DEF Leaf
  <2> HIDE DEF v, d
  <2>2. th \in [Threads -> Frames] BY <1>1 DEF TreeTypes
  <2> QED BY <2>1, <2>2 DEF Frames
<1>5. root' = root /\ hist' = hist BY DEF Leaf
<1>6. TrueMarks(q, node[q]) BY <1>2 DEF MarksInv
<1> HIDE DEF q
<1>7. Leads(hist \o th'[t].path) BY <1>4 DEF MarksInv, Lines, Line
<1>8. Tells(th'[t]) BY <1>4 DEF Tells
<1>9. Truly(t, q, node[q]) BY <1>3, <1>4, <1>5, <1>6, <1>7, <1>8 DEF Truly
<1> QED BY <1>2, <1>9, TrulyKeeps

\* The recursion has returned (2208-2266): what it tells of the child goes into the
\* mark of the move, and a mate makes the parent a won position.
LEMMA BackTruly ==
  ASSUME TreeInv, MarksInv, NEW t \in Threads, Back(t)
  PROVE  MarksInv'
<1> DEFINE path == th[t].path
           p  == path[Len(path) - 1]
           q  == path[Len(path)]
           bd == TakeBack(node[p], q)
           kd == Keep(bd, q, th[t].ex)
           win == -th[t].win
           g  == IF q \in Won(kd) THEN 1 ELSE win
           ex == IF q \in Won(kd) THEN "loss" ELSE "none"
           up == SubSeq(path, 1, Len(path) - 1)
           pc == IF Len(path) = 2 THEN "count" ELSE "back"
           nd == Update(kd, q, win)
<1>1. TreeTypes /\ FrameOK(th[t]) /\ hist \in Seq(Pos)
  BY DEF TreeInv, Frame, TreeTypes
<1>2. /\ path \in Seq(Pos) /\ Len(path) \in Nat /\ Len(path) >= 2
      /\ th[t].pc = "back" /\ th[t].ex \in Marks
  <2>1. path \in Seq(Pos) /\ Len(path) \in Nat BY LineIs
  <2>2. th[t].pc = "back" BY DEF Back
  <2>3. Len(path) >= 2 BY <1>1, <2>2 DEF FrameOK
  <2>4. th[t].ex \in Marks BY <1>1 DEF TreeTypes, Frames
  <2> QED BY <2>1, <2>2, <2>3, <2>4
<1>3. /\ up \in Seq(Pos) /\ Len(up) = Len(path) - 1 /\ up # <<>> /\ q \in Pos
      /\ path = Append(up, q) /\ up[Len(up)] = p
  BY <1>2, FrontAndLast
<1>4. p \in Pos /\ q \in Moves[p] /\ q \in Succ[p]
  <2>1. Len(path) - 1 \in 1 .. Len(path) - 1 BY <1>2
  <2>2. path[(Len(path) - 1) + 1] \in Moves[path[Len(path) - 1]] BY <1>1, <2>1 DEF FrameOK
  <2>3. path[Len(path) - 1] \in Pos BY <1>2, <2>1
  <2> QED BY <1>2, <2>2, <2>3, MovesAreLegal
<1>5. root' = root /\ hist' = hist BY DEF Back
<1>6. /\ th' = [th EXCEPT ![t].path = up, ![t].pc = pc, ![t].win = g, ![t].ex = ex]
      /\ node' = [node EXCEPT ![p] = nd]
  BY Zenon DEF Back
<1>7. p \in Calm => TrueMark(q, th[t].ex)
  <2>1. p \in Calm => q \in Calm BY <1>4, CalmAhead
  <2>2. Tells(th[t]) BY DEF MarksInv
  <2> QED BY <1>2, <2>1, <2>2 DEF Tells
<1>8. node[p] \in Nodes(p) /\ TrueMarks(p, node[p]) BY <1>1, <1>4 DEF TreeTypes, MarksInv
<1> DEFINE L == IF node[p].exact[q] = "none" THEN th[t].ex ELSE node[p].exact[q]
<1>9. bd.exact = node[p].exact BY <1>8 DEF TakeBack, Nodes
<1>10. kd.exact = [node[p].exact EXCEPT ![q] = L]
  <2> HIDE DEF bd
  <2>1. bd \in [n : {bd.n}, w : {bd.w}, vl : {bd.vl}, exact : {node[p].exact}, m3 : {bd.m3},
                sum : {bd.sum}, dfpn : {bd.dfpn}]
    <3>1. node[p] \in [n : {node[p].n}, w : {node[p].w}, vl : {node[p].vl},
                       exact : {node[p].exact}, m3 : {node[p].m3},
                       sum : {node[p].sum}, dfpn : {node[p].dfpn}]
      BY <1>8 DEF Nodes
    <3> QED BY <3>1 DEF bd, TakeBack
  <2> QED BY <2>1 DEF Keep
<1>11. nd.exact = kd.exact BY DEF Update
<1>12. node[p].exact \in [Moves[p] -> Marks] BY <1>8 DEF Nodes
<1> HIDE DEF up, pc, g, nd, kd, bd, win, p, q, path
<1>13. TrueMarks(p, nd)
  <2> SUFFICES ASSUME p \in Calm, NEW x \in Moves[p] PROVE TrueMark(x, nd.exact[x])
    BY DEF TrueMarks
  <2>1. TrueMark(x, node[p].exact[x]) BY <1>8 DEF TrueMarks
  <2>2. nd.exact[x] = IF x = q THEN L ELSE node[p].exact[x] BY <1>10, <1>11, <1>12
  <2> QED BY <1>7, <2>1, <2>2
<1>14. p \in Calm => TrueMark(p, ex)
  <2>1. TrueMark(p, "none") BY DEF TrueMark
  <2>2. ASSUME p \in Calm, q \in Won(kd) PROVE TrueMark(p, "loss")
    <3>1. nd.exact[q] = "win" BY <1>11, <2>2 DEF Won
    <3>2. q \in LostPos BY <1>4, <1>13, <2>2, <3>1 DEF TrueMarks, TrueMark
    <3>3. p \in WonPos BY <1>4, <3>2, ValueOfPosition
    <3> QED BY <3>3 DEF TrueMark
  <2> QED BY <2>1, <2>2
<1> HIDE DEF ex, L
<1>15. /\ \A u \in Threads \ {t} : th'[u] = th[u]
       /\ th'[t].path = up /\ th'[t].ex = ex
  <2>1. th \in [Threads -> Frames] BY <1>1 DEF TreeTypes
  <2> QED BY <1>6, <2>1 DEF Frames
<1>16. Leads(hist \o th'[t].path)
  <2>1. Leads(hist \o path) BY DEF MarksInv, Lines, Line, path
  <2>2. hist \o Append(up, q) = Append(hist \o up, q) BY <1>1, <1>3, LineAppended
  <2>3. hist \o up \in Seq(Pos) BY <1>1, <1>3
  <2>4. Leads(Append(hist \o up, q)) BY <1>3, <2>1, <2>2
  <2>5. Leads(hist \o up) BY <1>3, <2>3, <2>4, LeadsBack
  <2> QED BY <1>15, <2>5
<1>17. Tells(th'[t])
  <2>1. th'[t].path[Len(th'[t].path)] = p BY <1>3, <1>15
  <2> QED BY <1>14, <1>15, <2>1 DEF Tells
<1>18. Truly(t, p, nd) BY <1>5, <1>6, <1>13, <1>15, <1>16, <1>17 DEF Truly
<1> QED BY <1>4, <1>18, TrulyKeeps

\* A playout is counted, and the thread starts again from the root or stops (889-951).
LEMMA LoopTruly ==
  ASSUME TreeInv, MarksInv, NEW t \in Threads, Count(t) \/ Decide(t)
  PROVE  MarksInv'
<1>1. node' = node /\ root' = root /\ hist' = hist BY DEF Count, Decide
<1>2. th \in [Threads -> Frames] BY DEF TreeInv, TreeTypes
<1>3. /\ \A u \in Threads \ {t} : th'[u] = th[u]
      /\ th'[t].pc # "back"
      /\ th'[t].path = th[t].path \/ th'[t].path = <<root>>
  <2>1. CASE Count(t) BY <1>2, <2>1 DEF Count, Frames
  <2>2. CASE Decide(t) BY <1>2, <2>2 DEF Decide, Idle
  <2> QED BY <2>1, <2>2
<1>4. root \in Pos /\ hist \in Seq(Pos) BY DEF TreeInv, TreeTypes
<1>5. hist \o <<root>> = Append(hist, root) BY <1>4, AppendIsConcat
<1>6. Leads(hist \o th'[t].path)
  <2>1. Leads(hist \o th[t].path) /\ Leads(Append(hist, root)) BY DEF MarksInv, Lines, Line
  <2> QED BY <1>3, <1>5, <2>1
<1>7. Tells(th'[t]) BY <1>3 DEF Tells
<1>8. node' = [node EXCEPT ![root] = node[root]] /\ TrueMarks(root, node[root])
  BY <1>1, <1>4 DEF TreeInv, TreeTypes, MarksInv
<1>9. Truly(t, root, node[root]) BY <1>1, <1>3, <1>6, <1>7, <1>8 DEF Truly
<1> QED BY <1>4, <1>9, TrulyKeeps

\* All threads at r, where a line h leads, and every node kept or new.
LEMMA AllStartTruly ==
  ASSUME NEW h \in Seq(Pos), NEW r \in Pos, NEW g, g = [t \in Threads |-> Idle(r)],
         Leads(Append(h, r))
  PROVE  \A t \in Threads : Leads(h \o g[t].path) /\ Tells(g[t])
<1> SUFFICES ASSUME NEW t \in Threads PROVE Leads(h \o g[t].path) /\ Tells(g[t]) OBVIOUS
<1>1. g[t] = Idle(r) OBVIOUS
<1>2. g[t].path = <<r>> /\ g[t].pc = "enter" BY <1>1 DEF Idle
<1>3. h \o <<r>> = Append(h, r) BY AppendIsConcat
<1>4. Tells(g[t]) BY <1>2 DEF Tells
<1> QED BY <1>2, <1>3, <1>4

\* create_node() makes a node without marks (2126-2180).
LEMMA NewNodeTruly == ASSUME NEW p \in Pos PROVE TrueMarks(p, NewNode(p))
BY DEF TrueMarks, TrueMark, NewNode

\* The first search starts where a game has come to (953-1008).
LEMMA StartTruly == Init => MarksInv
<1> SUFFICES ASSUME Init PROVE MarksInv OBVIOUS
<1>1. PICK s \in Starts : root = s[Len(s)] /\ hist = SubSeq(s, 1, Len(s) - 1) BY DEF Init
<1>2. s \in Seq(Pos) /\ s # <<>> /\ Leads(s) BY PositionsAssumption DEF Leads
<1>3. root \in Pos /\ hist \in Seq(Pos) BY <1>1, <1>2
<1>4. Append(hist, root) = s
  <2> DEFINE f == SubSeq(s, 1, Len(s) - 1)
             r == Append(f, s[Len(s)])
  <2>0. Len(s) \in Nat /\ Len(s) >= 1 /\ s[Len(s)] \in Pos BY <1>2
  <2>1. f \in Seq(Pos) /\ Len(f) = Len(s) - 1 /\ \A i \in 1 .. Len(s) - 1 : f[i] = s[i]
    <3>1. 1 \in Int /\ Len(s) - 1 \in Int /\ \A i \in 1 .. Len(s) : s[i] \in Pos
      BY <1>2, <2>0
    <3>2. \A n \in 0 .. Len(s) : /\ SubSeq(s, 1, n) \in Seq(Pos) /\ Len(SubSeq(s, 1, n)) = n
                                 /\ \A i \in 1 .. n : SubSeq(s, 1, n)[i] = s[i]
      BY <1>2, <2>0, <3>1
    <3>3. Len(s) - 1 \in 0 .. Len(s) BY <2>0
    <3> QED BY <3>2, <3>3
  <2> HIDE DEF f
  <2>2. r \in Seq(Pos) /\ Len(r) = Len(s) /\ r[Len(s)] = s[Len(s)]
        /\ \A i \in 1 .. Len(s) - 1 : r[i] = f[i]
    BY <2>0, <2>1
  <2> HIDE DEF r
  <2>3. \A i \in 1 .. Len(s) : r[i] = s[i] BY <2>0, <2>1, <2>2
  <2>4. r = s BY <1>2, <2>2, <2>3
  <2> QED BY <1>1, <2>4 DEF r, f
<1>5. \A t \in Threads : Leads(hist \o th[t].path) /\ Tells(th[t])
  <2>1. th = [t \in Threads |-> Idle(root)] BY DEF Init
  <2> QED BY <1>2, <1>3, <1>4, <2>1, AllStartTruly
<1>6. Lines BY <1>2, <1>4, <1>5 DEF Lines, Line
<1>7. \A p \in Pos : TrueMarks(p, node[p])
  <2>1. node = [p \in Pos |-> NewNode(p)] BY DEF Init
  <2>2. \A p \in Pos : node[p] = NewNode(p) BY <2>1
  <2> QED BY <2>2, NewNodeTruly
<1> QED BY <1>5, <1>6, <1>7 DEF MarksInv

\* The next search starts from the move that was chosen (953-1014).
LEMMA NewSearchTruly ==
  ASSUME TreeInv, MarksInv, NewSearch
  PROVE  MarksInv'
<1>1. TreeTypes BY DEF TreeInv
<1>2. PICK q \in Best(node[root]), deleted \in {{}, made} :
        /\ root' = q /\ hist' = Append(hist, root)
        /\ node' = [p \in Pos |-> IF p \in made \ deleted THEN node[p] ELSE NewNode(p)]
        /\ th' = [t \in Threads |-> Idle(q)]
  BY DEF NewSearch
<1>3. root \in Pos /\ q \in Pos /\ q \in Succ[root] /\ hist \in Seq(Pos)
  <2>1. root \in Pos /\ node[root] \in Nodes(root) /\ hist \in Seq(Pos) BY <1>1 DEF TreeTypes
  <2>2. DOMAIN node[root].exact = Moves[root] /\ DOMAIN node[root].n = Moves[root]
    BY <2>1 DEF Nodes
  <2>3. q \in Moves[root] BY <2>2 DEF Best, Won
  <2> QED BY <2>1, <2>3, MovesAreLegal
<1> DEFINE h == Append(hist, root)
<1>4. h \in Seq(Pos) /\ h # <<>> /\ h[Len(h)] = root /\ Leads(h)
  BY <1>3 DEF MarksInv, Lines
<1> HIDE DEF h
<1>5. Leads(Append(h, q)) BY <1>3, <1>4, LeadsOn
<1>6. \A t \in Threads : Leads(h \o th'[t].path) /\ Tells(th'[t])
  BY <1>2, <1>3, <1>4, <1>5, AllStartTruly
<1>7. \A p \in Pos : TrueMarks(p, node'[p])
  <2> SUFFICES ASSUME NEW p \in Pos PROVE TrueMarks(p, node'[p]) OBVIOUS
  <2>1. node'[p] = node[p] \/ node'[p] = NewNode(p) BY <1>2
  <2>2. TrueMarks(p, node[p]) BY DEF MarksInv
  <2>3. TrueMarks(p, NewNode(p)) BY NewNodeTruly
  <2> QED BY <2>1, <2>2, <2>3
<1>8. Lines' BY <1>2, <1>5, <1>6 DEF Lines, Line, Leads, h
<1>9. (\A p \in Pos : TrueMarks(p, node[p]))' BY <1>7 DEF TrueMarks, TrueMark
<1>10. (\A t \in Threads : Tells(th[t]))' BY <1>6 DEF Tells, TrueMark
<1> QED BY <1>8, <1>9, <1>10 DEF MarksInv

\* Every step of a thread, and a new search, keep the marks true.
LEMMA MarksStep ==
  ASSUME TreeInv, MarksInv, [Next]_vars
  PROVE  MarksInv'
<1>1. ASSUME NEW t \in Threads, Step(t) PROVE MarksInv'
  <2>1. CASE Enter(t) BY <2>1, EnterTruly, MovedTruly
  <2>2. CASE Dfpn(t) BY <2>2, DfpnTruly, MovedTruly
  <2>3. CASE Leaf(t) BY <2>3, LeafTruly
  <2>4. CASE Relock(t) BY <2>4, RelockTruly, MovedTruly
  <2>5. CASE Back(t) BY <2>5, BackTruly
  <2>6. CASE Count(t) \/ Decide(t) BY <2>6, LoopTruly
  <2> QED BY <1>1, <2>1, <2>2, <2>3, <2>4, <2>5, <2>6 DEF Step
<1>2. CASE NewSearch BY <1>2, NewSearchTruly
<1>3. CASE UNCHANGED vars
  BY <1>3 DEF vars, MarksInv, Lines, Line, Leads, TrueMarks, TrueMark, Tells
<1> QED BY <1>1, <1>2, <1>3 DEF Next

\* Where no perpetual check can arise, and no position ahead is saved only by a move that
\* create_node() passes over (1651-1660), a mark that threads set, overwrite and pass up
\* (1962-2093, 2208-2266) is what the game is: a win leads to a lost position and a loss
\* to a won one.
THEOREM MarksAreTrue == Spec => []ExactIsTrue
<1>1. TreeInv /\ MarksInv => ExactIsTrue
  <2> SUFFICES ASSUME TreeInv, MarksInv, NEW p \in made \intersect Calm, NEW q \in Moves[p]
               PROVE  /\ node[p].exact[q] = "win"  => q \in LostPos
                      /\ node[p].exact[q] = "loss" => q \in WonPos
    BY DEF ExactIsTrue
  <2>1. TrueMarks(p, node[p]) BY DEF MarksInv, TreeInv, TreeTypes
  <2> QED BY <2>1 DEF TrueMarks, TrueMark
<1>2. TreeInv /\ MarksInv /\ [Next]_vars => MarksInv' BY MarksStep
<1> QED BY TreeInvariance, StartTruly, <1>1, <1>2, PTL DEF Spec
=============================================================================
