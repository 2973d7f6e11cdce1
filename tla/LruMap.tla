------------------------------- MODULE LruMap -------------------------------
(* What HashTable (src/common/hashtbl.hpp) promises: a map of at most so many   *)
(* keys that forgets the key that was asked for longest ago.                    *)
EXTENDS Sequences, SequencesExt

CONSTANTS Keys, Values, Default, Capacity

VARIABLES order,   \* the keys, the one asked for longest ago first
          value,   \* [key -> value], Default for a key that is not there
          found    \* the value the last operator[] found
vars == <<order, value, found>>

Kept == IF Len(order) < Capacity THEN order ELSE Tail(order)

\* The place of a key in the order.
At(k) == CHOOSE n \in DOMAIN order : order[n] = k

\* operator[](k), through whose result the value v is written then.
Access(k, v) ==
  /\ order' = Append(IF k \in ToSet(order) THEN RemoveAt(order, At(k)) ELSE Kept, k)
  /\ found' = value[k]
  /\ value' = [o \in Keys |-> IF o = k THEN v ELSE IF o \in ToSet(order') THEN value[o] ELSE Default]

Init == order = <<>> /\ value = [k \in Keys |-> Default] /\ found = Default
Next == \E k \in Keys, v \in Values : Access(k, v)
Spec == Init /\ [][Next]_vars
=============================================================================
