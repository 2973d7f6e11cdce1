------------------------------ MODULE RecStore ------------------------------
(***************************************************************************)
(* What the server's record keeper (RecKeep of src/server/datakeep.cpp)    *)
(* promises about the game records it has accepted: they form a sequence,  *)
(* record no. i at place i, that only ever grows at its end, one record at *)
(* a time.  A number is never given twice and an accepted record is never  *)
(* lost or altered, crashes and restarts included.                         *)
(***************************************************************************)
EXTENDS Sequences

CONSTANT Records

VARIABLE store

Init == store = <<>>

Accept(r) == store' = Append(store, r)

Next == \E r \in Records : Accept(r)

Spec == Init /\ [][Next]_store
=============================================================================
