------------------------------ MODULE MCEngine ------------------------------
(* The engine's tree search, its node table, and the service that evaluates    *)
(* positions for it. They are checked side by side: a behaviour is one of the  *)
(* search, one of the table or one of the service (`side').                    *)
(*                                                                             *)
(* Three games for the search. In the first, a and its successors, two orders  *)
(* of moves meet in t; b1 has a move more than the search looks at. In the     *)
(* second, q c e d is a perpetual check with a mate beside it; f g h k is a    *)
(* repetition without checks. In the third the move that saves w, to y, is one *)
(* not to promote: search and dfpn take w for lost.                            *)
EXTENDS UctSearch

CONSTANTS Keys, k3, None, e1, e2, TableSize, TryMax, MaxMinus, Ages, Home, Rehash
VARIABLES slot, age, lock, hash_shogi_use, thinking_age, lookup, seen,
          id_ipc_next, jobs, given, result, sem, srv, pusher, waiter,
          entries_push, entries_wait, pe_push, pe_wait, net_wght, flag_srv,
          at, id, sv_count, ctl, wid, latest, thinking,
          side

MCSucc ==
  [p \in Pos |->
     CASE p = "a" -> {"b1", "b2"} [] p = "b1" -> {"t", "u", "r"}
       [] p = "b2" -> {"t", "m"}  [] p = "r"  -> {"m"}
       [] p = "t" -> {"u", "x"}   [] p = "u"  -> {"m"}
       [] p = "q" -> {"c", "l"}   [] p = "c"  -> {"e"} [] p = "e" -> {"d", "m"}
       [] p = "d" -> {"q"}        [] p = "l"  -> {"m"}
       [] p = "f" -> {"g", "t"}   [] p = "g"  -> {"h"} [] p = "h" -> {"k"}
       [] p = "k" -> {"f"}
       [] p = "v" -> {"w", "l"}   [] p = "w"  -> {"u", "y"}
       [] OTHER -> {}]
MCPos == {"a", "b1", "b2", "t", "u", "x", "m", "r", "q", "c", "e", "d", "l", "f", "g", "h", "k",
          "v", "w", "y"}
MCUnpromoted == [p \in Pos |-> CASE p = "b1" -> {"r"} [] p = "w" -> {"y"} [] OTHER -> {}]
MCNet == [p \in Pos |-> IF p \in {"b1", "t", "e"} THEN 1 ELSE 0]
MCDfpnAt == <<2>>

\* The positions that came before the root: none; two rounds of the check, the
\* defender to move, or three with the attacker's next one; three of f g h k.
Checked  == <<"q", "c", "e", "d", "q", "c", "e", "d">>
MCStarts == {<<"a">>, <<"v">>, Checked,
             <<"e", "d", "q", "c", "e", "d", "q", "c", "e", "d", "q", "c">>,
             <<"g", "h", "k", "f", "g", "h", "k", "f", "g", "h", "k", "f">>}

CheckedStart == {Checked}

\* Three keys: two have the same home, the third one's home is their next probe.
\* A key that is used again when older ones are deleted is left behind a hole.
MCHome   == [k \in Keys |-> IF k = k3 THEN 1 ELSE 0]
MCRehash == <<1, 3, 2>>

\* The probes of a key are different slots: rehash_init() draws distinct offsets
\* below the size, none of them 0.
ASSUME TableAssumption ==
  /\ TableSize \in Nat /\ Home \in [Keys -> 0 .. TableSize - 1]
  /\ Rehash \in Seq(1 .. TableSize - 1)
  /\ \A i, j \in 1 .. Len(Rehash) : Rehash[i] = Rehash[j] => i = j
  /\ TryMax \in Nat /\ None \notin Keys \union Threads \union (0 .. TableSize - 1)

T == INSTANCE NodeTable WITH Size <- TableSize, Searches <- Ages, th <- lookup

\* Two engines, whose batches of two seldom fill, and one new weight.
S == INSTANCE NNetService WITH
       Engines <- {e1, e2}, SizeBatch <- 2, MaxWait <- 1, LateBoot <- FALSE,
       MaxWght <- 1, MaxSubmit <- 1, net <- net_wght, count <- sv_count

table   == <<slot, age, lock, hash_shogi_use, thinking_age, lookup, seen>>
service == <<id_ipc_next, jobs, given, result, sem, srv, pusher, waiter,
             entries_push, entries_wait, pe_push, pe_wait, net_wght, flag_srv,
             at, id, sv_count, ctl, wid, latest, thinking>>

MCInit == /\ side \in {"tree", "table", "service"}
          /\ Init /\ (side # "tree" => root = "a")
          /\ T!Init /\ S!Init
MCNext == \/ side = "tree"    /\ Next   /\ UNCHANGED <<table, service, side>>
          \/ side = "table"   /\ T!Next /\ UNCHANGED <<vars, service, side>>
          \/ side = "service" /\ S!Next /\ UNCHANGED <<vars, table, side>>
\* Each one's own fairness, where it is the one that runs.
MCFairness ==
  /\ \A t \in Threads : WF_vars(side = "tree" /\ Step(t))
  /\ \A e \in {e1, e2} : /\ WF_service(side = "service" /\ S!EngineStep(e))
                         /\ WF_service(side = "service" /\ S!Line(e))
  /\ WF_service(side = "service" /\ S!SrvStep)
  /\ WF_service(side = "service" /\ S!PushStep)
  /\ WF_service(side = "service" /\ S!WaitStep)
  /\ WF_service(side = "service" /\ S!WghtStep)
MCSpec == MCInit /\ [][MCNext]_<<vars, table, service, side>> /\ MCFairness

\* NodeTable's property.
OneNodePerSearch == T!OneNodePerSearch
\* UctSearch's liveness and NNetService's, for their behaviours.
TreeSearchEnds       == side = "tree" => SearchEnds
EveryRequestAnswered == side = "service" => S!EveryRequestAnswered
NewWghtUsed          == side = "service" => S!NewWghtUsed
=============================================================================
