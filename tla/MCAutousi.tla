----------------------------- MODULE MCAutousi -----------------------------
(* How autousi drives its engines, in three grains: the service of a network    *)
(* with the engines that share memory with it, where a move is a sequence of    *)
(* requests; the games of several engines, where a move is one command and its  *)
(* answer; and one game with its record. They are checked side by side: a       *)
(* behaviour is one of the three (`side').                                      *)
(*                                                                              *)
(* With three engines and batches of two one batch fills while the other does   *)
(* not; the engines of the service are alike. Two engines play games of two     *)
(* moves, so that one ends while the other goes on. In the game of one b checks *)
(* white's king and d too, e is a counter-check; v is a win to declare.         *)
EXTENDS NNetService, Sequences

CONSTANTS NEngines, MaxMoves, NoRecord,
          Succ, InCheck, Declares, N, Openings, Opening, MaxLow      \* of Game
ASSUME PlayAssumption == NEngines \in Nat

\* The lines of a record of a game: moves, and what an engine or autousi ends it with.
GameMoves == [k : {"move"}, to : DOMAIN Succ, low : BOOLEAN]
GameEnds == {"TORYO", "KACHI", "SENNICHITE", "CHUDAN", "+ILLEGAL_ACTION", "-ILLEGAL_ACTION"}
GameLines == GameMoves \union [k : {"end"}, says : GameEnds, auto : BOOLEAN]
GameRecords == [no_resign : BOOLEAN, lines : Seq(GameLines)]

\* Moves are of one side and of the other in turn, and a position is that of the side
\* to move; an opening is a line of legal moves that ends no game.
ASSUME GameAssumption ==
  /\ N \in Nat /\ Succ \in [DOMAIN Succ -> SUBSET DOMAIN Succ]
  /\ \E black \in SUBSET DOMAIN Succ : \A p \in DOMAIN Succ : \A q \in Succ[p] :
       p \in black <=> q \notin black
  /\ \A o \in Openings :
       /\ o \in Seq(DOMAIN Succ) /\ Len(o) \in 1 .. N
       /\ \A i \in 1 .. Len(o) - 1 : o[i + 1] \in Succ[o[i]]
       /\ \A i \in 1 .. Len(o) : Cardinality({j \in 1 .. Len(o) : o[j] = o[i]}) <= 3
  /\ NoRecord \notin GameRecords

VARIABLES eng, proc, num_thinking, pm_wid, pm_net, client, call, record, missed,
          node, do_resign, moves, game_record, winner,
          side

Alike == Permutations(Engines)

Play == INSTANCE PlayManager WITH wid <- pm_wid, net <- pm_net
MCSucc ==
  [p \in {"a", "b", "c", "d", "e", "g", "n", "v"} |->
     CASE p = "a" -> {"b", "n"} [] p = "b" -> {"c", "e"} [] p = "c" -> {"d"} [] p = "d" -> {"a"}
       [] p = "e" -> {"d"}      [] p = "g" -> {"d"}      [] p = "n" -> {"c", "v"} [] OTHER -> {}]
MCOpenings == {<<"a">>, <<"d">>, <<"e">>, <<"g", "d">>, <<"n", "v">>}
Shogi == INSTANCE Game WITH record <- game_record
play == <<eng, proc, num_thinking, pm_wid, pm_net, client, call, record, missed>>
game == <<node, do_resign, moves, game_record, winner>>

MCInit == /\ side \in {"service", "games", "record"}
          /\ Init /\ Play!Init
          /\ Shogi!Init /\ (side # "record" => do_resign /\ Len(moves) = 0 /\ node.path = <<"a">>)
MCNext == \/ side = "service" /\ Next       /\ UNCHANGED <<play, game, side>>
          \/ side = "games"   /\ Play!Next  /\ UNCHANGED <<vars, game, side>>
          \/ side = "record"  /\ Shogi!Next /\ UNCHANGED <<vars, play, side>>
MCSpec == MCInit /\ [][MCNext]_<<vars, play, game, side>>

\* PlayManager's properties and Game's.
ThinkingCounted         == Play!ThinkingCounted
RecordNamesItsFirstWght == Play!RecordNamesItsFirstWght
StrandedOnlyWithoutConn == Play!StrandedOnlyWithoutConn
RecordSaysGame          == Shogi!RecordSaysGame
EngineAgrees            == Shogi!EngineAgrees
=============================================================================
