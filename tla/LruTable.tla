------------------------------ MODULE LruTable ------------------------------
(* HashTable of src/common/hashtbl.hpp: entries in singly linked chains, one per *)
(* hash, in a list of the used ones in the order of their last access, or in a  *)
(* list of the unused. An entry knows the pointer that points to it in its      *)
(* chain (bfp) and in the list (used_bfp). A pointer variable is named by the   *)
(* entry it is a field of; -i is the head of chain i, 0 the head of the list.   *)
EXTENDS Integers, Sequences, SequencesExt

CONSTANTS Keys, Hash,      \* [Keys -> chain], 1, 2 ...
          Nentry,          \* _nentry
          Values, Default

Entries == 1 .. Nentry
Heads == {-Hash[k] : k \in Keys}
Null == 0     \* no entry

VARIABLES f,          \* [head or entry -> the next entry of the chain]
          bfp,        \* [entry -> the pointer of the chain that points to it]
          used_f,     \* [0 or entry -> the next entry of the list]
          used_bfp,   \* [entry -> the pointer of the list that points to it]
          used_end,   \* _used_bfp: the pointer at the end of the list
          unused,     \* the entries not used yet, in the order of _unused_f
          key, val,   \* [entry -> its key and value]
          found       \* the value that operator[] found
vars == <<f, bfp, used_f, used_bfp, used_end, unused, key, val, found>>

\* The entries behind a pointer of a chain, and of the list.
Chain == LET w[p \in Heads \union Entries] == IF f[p] = Null THEN <<>> ELSE <<f[p]>> \o w[f[p]]
         IN w
Listed == LET w[p \in {0} \union Entries] == IF used_f[p] = Null THEN <<>> ELSE <<used_f[p]>> \o w[used_f[p]]
          IN w[0]
Has(k) == \E n \in DOMAIN Chain[-Hash[k]] : key[Chain[-Hash[k]][n]] = k
At(k) == Chain[-Hash[k]][CHOOSE n \in DOMAIN Chain[-Hash[k]] : key[Chain[-Hash[k]][n]] = k]
ChainEnd(k) == IF Chain[-Hash[k]] = <<>> THEN -Hash[k] ELSE Last(Chain[-Hash[k]])

\* The value is written through the reference that operator[] returns.
Written(e, v) == val' = [val EXCEPT ![e] = v]

\* A key that is there goes to the end of the list, unless it is there.
Hit(k, v) ==
  LET e == At(k)
      next == used_f[e]
  IN /\ Has(k)
     /\ found' = val[e] /\ Written(e, v)
     /\ IF next = Null THEN UNCHANGED <<used_f, used_bfp, used_end>>
        ELSE /\ used_bfp' = [used_bfp EXCEPT ![next] = used_bfp[e], ![e] = used_end]
             /\ used_f' = [used_f EXCEPT ![used_bfp[e]] = next, ![e] = Null, ![used_end] = e]
             /\ used_end' = e
     /\ UNCHANGED <<f, bfp, unused, key>>

\* A new key takes an unused entry and is put at the end of its chain.
Put(e, k, v, g, b, uf, ub, end) ==
  /\ key' = [key EXCEPT ![e] = k]
  /\ found' = Default /\ Written(e, v)
  /\ f' = [g EXCEPT ![e] = Null, ![end] = e]
  /\ bfp' = [b EXCEPT ![e] = end]
  /\ used_f' = [uf EXCEPT ![e] = Null, ![used_end] = e]
  /\ used_bfp' = [ub EXCEPT ![e] = used_end]
  /\ used_end' = e

Miss(k, v) ==
  /\ ~Has(k) /\ unused # <<>>
  /\ Put(Head(unused), k, v, f, bfp, used_f, used_bfp, ChainEnd(k))
  /\ unused' = Tail(unused)

\* Mutation: the pointer to the end of the chain is not corrected.
EndAfterAsBefore(e, end) == end

\* Without one the first entry of the list is taken out of its chain. If it was
\* the end of the new key's chain, the end is where it was.
EndAfter(e, end) == IF end = e THEN bfp[e] ELSE end
Evict(k, v) ==
  LET e == used_f[0]
      next == used_f[e]
      g == [f EXCEPT ![bfp[e]] = f[e]]
      b == IF f[e] = Null THEN bfp ELSE [bfp EXCEPT ![f[e]] = bfp[e]]
  IN /\ ~Has(k) /\ unused = <<>>
     /\ Put(e, k, v, g, b, [used_f EXCEPT ![0] = next], [used_bfp EXCEPT ![next] = 0],
            EndAfter(e, ChainEnd(k)))
     /\ UNCHANGED unused

Init == /\ f = [p \in Heads \union Entries |-> Null]
        /\ bfp = [e \in Entries |-> Null]
        /\ used_f = [p \in {0} \union Entries |-> Null]
        /\ used_bfp = [e \in Entries |-> Null] /\ used_end = 0
        /\ unused = [e \in Entries |-> e]
        /\ key = [e \in Entries |-> CHOOSE k \in Keys : TRUE]
        /\ val = [e \in Entries |-> Default] /\ found = Default
Next == \E k \in Keys, v \in Values : Hit(k, v) \/ Miss(k, v) \/ Evict(k, v)
Spec == Init /\ [][Next]_vars

----------------------------------------------------------------------------
Map == INSTANCE LruMap WITH
         Capacity <- Nentry,
         order <- [n \in DOMAIN Listed |-> key[Listed[n]]],
         value <- [k \in Keys |-> IF Has(k) THEN val[At(k)] ELSE Default]

\* The chains and lists are a map that forgets the key that was asked for longest
\* ago: no key twice, none lost but that one, and the value found is the last one
\* written. RecKeep's digests and Listen's counts of connections rely on it.
ImplementsLruMap == Map!Spec
=============================================================================
