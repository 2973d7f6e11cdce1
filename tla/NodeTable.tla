------------------------------ MODULE NodeTable ------------------------------
(* The hash table of tree nodes: HashShogiReadLock(), the marking of a slot by  *)
(* create_node() and hash_half_del() of src/usi-engine/bona/ysszero.cpp. Slots  *)
(* have a spin lock each; a lookup locks and unlocks the slots it passes one    *)
(* after the other and returns with one of them locked.                         *)
EXTENDS Integers, Sequences, FiniteSets, FiniteSetsExt

CONSTANTS Threads, Keys,
          Size,        \* Hash_Shogi_Table_Size
          Home,        \* [Keys -> slot]: the key's low bits
          Rehash,      \* rehash[]: distinct offsets, none of them 0
          TryMax,      \* TRY_MAX: probes after which a free slot will do
          MaxMinus,    \* age_minus at first, 4
          Searches,    \* bound on thinking_age
          None

Slots == 0 .. Size - 1

VARIABLES slot,        \* the key of a node, None when `deleted'
          age, lock, hash_shogi_use, thinking_age,
          th,          \* the lookups
          seen         \* history: slots returned for a key in this search
vars == <<slot, age, lock, hash_shogi_use, thinking_age, th, seen>>

Idle == [pc |-> "idle", key |-> None, loop |-> 0, first |-> None, at |-> None]

\* The slot of a key's probe number i.
At(k, i) == IF i = 0 THEN Home[k] ELSE (Home[k] + Rehash[i]) % Size

Call(t) ==
  /\ th[t].pc = "idle"
  /\ \E k \in Keys : th' = [th EXCEPT ![t] = [Idle EXCEPT !.pc = "probe", !.key = k]]
  /\ UNCHANGED <<slot, age, lock, hash_shogi_use, thinking_age, seen>>

\* The lookup returns slot n, locked.
Hold(t, n) ==
  /\ lock' = [lock EXCEPT ![n] = t]
  /\ th' = [th EXCEPT ![t].pc = "hold", ![t].at = n]
  /\ seen' = [seen EXCEPT ![th[t].key] = @ \union {n}]

\* One slot locked, compared and, unless it is the key's, unlocked. The first
\* free slot is remembered; the search goes on until the last probe, or until
\* TRY_MAX if there is a free one.
FirstFree(old, n) == IF old = None /\ slot[n] = None THEN n ELSE old
Probe(t) ==
  LET n     == At(th[t].key, th[t].loop)
      loop  == th[t].loop
      first == FirstFree(th[t].first, n)
  IN /\ th[t].pc = "probe" /\ lock[n] = None
     /\ \/ /\ slot[n] = th[t].key
           /\ Hold(t, n)
        \/ /\ slot[n] # th[t].key
           /\ th' = [th EXCEPT ![t] =
                IF loop = Len(Rehash) \/ (loop >= TryMax /\ first # None)
                  THEN [@ EXCEPT !.pc = "take", !.first = first]
                  ELSE [@ EXCEPT !.loop = loop + 1, !.first = first]]
           /\ UNCHANGED <<lock, seen>>
     /\ UNCHANGED <<slot, age, hash_shogi_use, thinking_age>>

\* Mutation: the lookup goes on where it was.
AnewFromHere(t) == [th[t] EXCEPT !.pc = "probe", !.first = None]

\* The free slot is locked again: another thread may have used it meanwhile, and
\* the lookup starts anew.
Anew(t) == [th[t] EXCEPT !.pc = "probe", !.loop = 0, !.first = None]
Gone(n) == slot[n] # None
Take(t) ==
  LET n == th[t].first
  IN /\ th[t].pc = "take" /\ n # None /\ lock[n] = None
     /\ \/ Gone(n) /\ th' = [th EXCEPT ![t] = Anew(t)] /\ UNCHANGED <<lock, seen>>
        \/ ~Gone(n) /\ Hold(t, n)
     /\ UNCHANGED <<slot, age, hash_shogi_use, thinking_age>>

\* create_node() on a deleted slot, and the end of the visit that unlocks it.
Create(t) ==
  LET n == th[t].at
  IN /\ th[t].pc = "hold" /\ slot[n] = None
     /\ slot' = [slot EXCEPT ![n] = th[t].key]
     /\ age' = [age EXCEPT ![n] = thinking_age]
     /\ hash_shogi_use' = hash_shogi_use + 1
     /\ UNCHANGED <<lock, thinking_age, th, seen>>
Leave(t) ==
  LET n == th[t].at
  IN /\ th[t].pc = "hold" /\ slot[n] # None
     /\ age' = [age EXCEPT ![n] = thinking_age]
     /\ lock' = [lock EXCEPT ![n] = None]
     /\ th' = [th EXCEPT ![t] = Idle]
     /\ UNCHANGED <<slot, hash_shogi_use, thinking_age, seen>>

\* A new search: hash_half_del() deletes by age, the oldest first, until half of
\* the table is free.
Old(now, minus) == {n \in Slots : slot[n] # None /\ age[n] <= now - minus}
HalfDel ==
  LET now  == thinking_age + 1
      used == {n \in Slots : slot[n] # None}
      Fits(m) == Cardinality(used) - Cardinality(Old(now, m)) < Size \div 2
      minus == Max({0} \union {m \in 0 .. MaxMinus : Fits(m)})
      gone == Old(now, minus)
  IN /\ \A t \in Threads : th[t].pc = "idle"
     /\ thinking_age < Searches
     /\ thinking_age' = now
     /\ slot' = [n \in Slots |-> IF n \in gone THEN None ELSE slot[n]]
     /\ hash_shogi_use' = Cardinality(used \ gone)
     /\ seen' = [k \in Keys |-> {}]
     /\ UNCHANGED <<age, lock, th>>

Init ==
  /\ slot = [n \in Slots |-> None] /\ age = [n \in Slots |-> 0]
  /\ lock = [n \in Slots |-> None]
  /\ hash_shogi_use = 0 /\ thinking_age = 1
  /\ th = [t \in Threads |-> Idle]
  /\ seen = [k \in Keys |-> {}]

Next == (\E t \in Threads : Call(t) \/ Probe(t) \/ Take(t) \/ Create(t) \/ Leave(t)) \/ HalfDel

Spec == Init /\ [][Next]_vars

----------------------------------------------------------------------------
\* The slot a lookup returns is the key's own or one to create it in, never the
\* node of another position, whoever took the free slot between the probe and the
\* second lock. And one search has one node per position: every lookup of a key
\* returns the same slot, whatever is created meanwhile, also when deletion has left
\* a second copy of the key behind a hole.
OneNodePerSearch ==
  /\ \A t \in Threads : th[t].pc = "hold" => slot[th[t].at] \in {None, th[t].key}
  /\ \A k \in Keys : \A m, n \in seen[k] : m = n
=============================================================================
