------------------------------ MODULE WghtKeep ------------------------------
(* The weights the server gives out (WghtKeep of src/server/datakeep.cpp): a     *)
(* directory that the operator copies weights into and removes them from, looked  *)
(* at by a thread now and then; a list of the weights found so far with their    *)
(* digests, in a file; the same in memory, by which RecKeep judges the weight a  *)
(* record names; and the one that connections are given. A weight is a number:   *)
(* the operator does not use one twice for different contents.                   *)
EXTENDS Integers, Sequences, FiniteSetsExt, SequencesExt

CONSTANTS MaxNo,      \* bound: the last number
          NoPw        \* _pwght is null

Nos == 0 .. MaxNo

VARIABLES dir,        \* [number -> "absent", "torn" (being copied), "whole"]
          list,       \* fname_wght_list: the numbers in it
          map_wght,   \* _map_wght: its numbers
          i64_now,    \* _i64_now
          pwght,      \* _pwght
          pc, todo,   \* get_new_wght(): where it is, and the files left to look at
          served      \* history: the weights that get_pw() has given
vars == <<dir, list, map_wght, i64_now, pwght, pc, todo, served>>

----------------------------------------------------------------------------
\* start() reads the list; then get_new_wght() looks for the first weight, before
\* the main thread goes on and any connection is taken.
Start ==
  /\ pc = "down"
  /\ map_wght' = ToSet(list) /\ i64_now' = -1 /\ pwght' = NoPw
  /\ pc' = "poll"
  /\ UNCHANGED <<dir, list, todo, served>>

\* get_new_wght(): the files above the weight of now, the newest first.
Grab ==
  /\ pc = "poll"
  /\ todo' = {n \in Nos : n > i64_now /\ dir[n] # "absent"}
  /\ pc' = "look"
  /\ UNCHANGED <<dir, list, map_wght, i64_now, pwght, served>>

\* Mutation: the weight is given out before it is in the list.
OrderServedFirst == [look |-> "publish", publish |-> "append", append |-> "map", map |-> "poll"]

\* What is done with a weight that is found, in this order.
Order == [look |-> "append", append |-> "map", map |-> "publish", publish |-> "poll"]

Look ==
  LET n == Max(todo)
  IN /\ pc = "look" /\ todo # {}
     /\ CASE dir[n] = "absent" -> pc' = "down" /\ UNCHANGED <<i64_now, todo>>
          [] dir[n] = "torn"   -> todo' = todo \ {n} /\ UNCHANGED <<i64_now, pc>>
          [] dir[n] = "whole"  -> /\ i64_now' = n /\ todo' = {}
                                  /\ pc' = IF n \in map_wght THEN "publish" ELSE Order.look
     /\ UNCHANGED <<dir, list, map_wght, pwght, served>>
NoMore ==
  /\ pc = "look" /\ todo = {}
  /\ pc' = IF i64_now < 0 THEN "down" ELSE "poll"   \* "no weight found"
  /\ UNCHANGED <<dir, list, map_wght, i64_now, pwght, todo, served>>

AppendList == /\ pc = "append" /\ list' = Append(list, i64_now) /\ pc' = Order.append
              /\ UNCHANGED <<dir, map_wght, i64_now, pwght, todo, served>>
Map == /\ pc = "map" /\ map_wght' = map_wght \union {i64_now} /\ pc' = Order.map
       /\ UNCHANGED <<dir, list, i64_now, pwght, todo, served>>
Publish == /\ pc = "publish" /\ pwght' = i64_now /\ pc' = Order.publish
           /\ UNCHANGED <<dir, list, map_wght, i64_now, todo, served>>

\* get_pw(), for a connection that asks for the newest weight.
GetPw == /\ pc # "down" /\ pwght # NoPw
         /\ served' = served \union {pwght}
         /\ UNCHANGED <<dir, list, map_wght, i64_now, pwght, pc, todo>>

\* The operator; and the end of the server at any moment.
Copies == [absent |-> "torn", torn |-> "whole", whole |-> "absent"]
Operator == /\ \E n \in Nos : dir' = [dir EXCEPT ![n] = Copies[@]]
            /\ UNCHANGED <<list, map_wght, i64_now, pwght, pc, todo, served>>
Crash == /\ pc # "down" /\ pc' = "down" /\ todo' = {}
         /\ UNCHANGED <<dir, list, map_wght, i64_now, pwght, served>>

Init == /\ dir = [n \in Nos |-> IF n = 0 THEN "whole" ELSE "absent"]
        /\ list = <<>> /\ map_wght = {} /\ i64_now = -1 /\ pwght = NoPw
        /\ pc = "down" /\ todo = {} /\ served = {}
Next == Start \/ Grab \/ Look \/ NoMore \/ AppendList \/ Map \/ Publish \/ GetPw \/ Operator \/ Crash
Spec == Init /\ [][Next]_vars

----------------------------------------------------------------------------
\* A record by a weight that any connection was ever given is not refused for its
\* weight: the weight is in the list, which has it once, and when connections can
\* be taken it is in the map, whatever the server was stopped at and whatever the
\* operator did to the directory since.
ServedIsKnown ==
  /\ served \subseteq ToSet(list) /\ IsInjective(list)
  /\ pc # "down" /\ pwght # NoPw => served \subseteq map_wght
=============================================================================
