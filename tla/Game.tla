-------------------------------- MODULE Game --------------------------------
(* A game of self-play and its record. Node (src/common/shogibase.cpp) keeps the *)
(* positions and decides when a game is over; USIEngine (src/autousi/play.cpp)   *)
(* plays an engine's moves on one and writes the record; examine_record()       *)
(* (src/server/datakeep.cpp) plays the record again on another and finds out who *)
(* won. A move is the position it leads to, and the search value that comes with *)
(* it is below the threshold of resignation or not (`low').                     *)
EXTENDS Integers, Sequences, FiniteSets, FiniteSetsExt, SequencesExt

CONSTANTS Succ,       \* [position -> the positions its legal moves lead to]
          InCheck,    \* positions whose mover is in check
          Declares,   \* positions whose mover may declare a win, is_nyugyoku()
          N,          \* maxlen_play_learn
          Openings,   \* the sequences of positions games start with
          Opening,    \* moves before which nobody resigns
          MaxLow,     \* bound: low values in a game
          NoRecord

VARIABLES node,       \* _node: [path, run, type], _len_incheck shifted by one
          do_resign,  \* _flag_do_resign
          moves,      \* the moves in _record_main
          record,     \* the record of a game that is over
          winner      \* history: who won it
vars == <<node, do_resign, moves, record, winner>>

----------------------------------------------------------------------------
\* Node.
Opp(c) == IF c = "black" THEN "white" ELSE "black"
Turn(nd) == IF Len(nd.path) % 2 = 1 THEN "black" ELSE "white"
IllegalWin(c) == IF c = "black" THEN "illegal_bwin" ELSE "illegal_wwin"
IsTerm(nd) == nd.type # "interior"

Cleared(q) == [path |-> <<q>>, run |-> <<0, IF q \in InCheck THEN 1 ELSE 0>>,
               type |-> "interior"]

\* Mutation: the run goes over the checks of both sides.
LenInCheckOfBoth(run, q) == IF q \in InCheck THEN run[Len(run)] + 1 ELSE 0

\* Positions in a row whose mover was in check, for the one who moves at q.
LenInCheck(run, q) == IF q \in InCheck THEN run[Len(run) - 1] + 1 ELSE 0

\* The earlier occurrences of the last position, and the third of them from the end.
Earlier(path) == {i \in 1 .. Len(path) - 2 :
                    (Len(path) - i) % 2 = 0 /\ path[i] = path[Len(path)]}
Third(path) == CHOOSE i \in Earlier(path) : Cardinality({j \in Earlier(path) : j > i}) = 2
NMove(path) == (Len(path) - Third(path)) \div 2
Verdict(path, run) ==
  LET len == Len(path)
      next == IF len % 2 = 1 THEN "black" ELSE "white"
  IN CASE Cardinality(Earlier(path)) < 3 -> "interior"
       [] Cardinality(Earlier(path)) >= 3 /\ NMove(path) <= run[len + 1] -> IllegalWin(next)
       [] Cardinality(Earlier(path)) >= 3 /\ NMove(path) > run[len + 1]
            /\ NMove(path) <= run[len] -> IllegalWin(Opp(next))
       [] OTHER -> "repeated"

\* take_action() for a move, for a resignation and for a declaration.
TakeMove(nd, q) ==
  LET path == Append(nd.path, q)
      run == Append(nd.run, LenInCheck(nd.run, q))
  IN IF Len(nd.path) = N THEN [nd EXCEPT !.type = "maxlen_term"]
     ELSE [path |-> path, run |-> run, type |-> Verdict(path, run)]
Ended(nd, type) == [nd EXCEPT !.type = type]
Says(type) == CASE type = "resigned" -> "TORYO"          [] type = "windclrd" -> "KACHI"
                [] type = "repeated" -> "SENNICHITE"     [] type = "maxlen_term" -> "CHUDAN"
                [] type = "illegal_bwin" -> "-ILLEGAL_ACTION"
                [] type = "illegal_wwin" -> "+ILLEGAL_ACTION"

----------------------------------------------------------------------------
\* USIEngine.
Move(q, low) == [k |-> "move", to |-> q, low |-> low]
End(says, auto) == [k |-> "end", says |-> says, auto |-> auto]

Played(o) == LET nd[i \in 1 .. Len(o)] == IF i = 1 THEN Cleared(o[1]) ELSE TakeMove(nd[i-1], o[i])
             IN nd[Len(o)]
StartNewgame ==
  \E o \in Openings, resign \in BOOLEAN :
    /\ node' = Played(o) /\ do_resign' = resign
    /\ moves' = [i \in 1 .. Len(o) - 1 |-> Move(o[i + 1], FALSE)]
    /\ record' = NoRecord /\ winner' = "none"

\* A move, after which the win of the next to move is declared for him.
Declared(nd) == IF ~IsTerm(nd) /\ Last(nd.path) \in Declares THEN Ended(nd, "windclrd") ELSE nd
WinnerOf(nd) == CASE nd.type = "resigned"     -> Opp(Turn(nd))
                  [] nd.type = "windclrd"     -> Turn(nd)
                  [] nd.type = "illegal_bwin" -> "black"
                  [] nd.type = "illegal_wwin" -> "white"
                  [] OTHER                    -> "none"

\* Mutation: the record of a game that is given up holds the last move.
GivenUpAfter(q) == moves \o <<Move(q, TRUE), End("TORYO", TRUE)>>

\* The record of a game that its mover gives up by the value of his move.
GivenUp(q) == Append(moves, End("TORYO", TRUE))
PlayMove(q, low) ==
  LET new == Declared(TakeMove(node, q))
      all == Append(moves, Move(q, low))
  IN /\ record = NoRecord
     /\ low => Cardinality({i \in DOMAIN moves : moves[i].low}) < MaxLow
     /\ node' = new
     /\ IF low /\ do_resign /\ Len(all) > Opening
          THEN /\ record' = [no_resign |-> FALSE, lines |-> GivenUp(q)]
               /\ winner' = Opp(Turn(node)) /\ moves' = moves
          ELSE /\ moves' = all
               /\ IF IsTerm(new)
                    THEN /\ record' = [no_resign |-> ~do_resign,
                                       lines |-> Append(all, End(Says(new.type), FALSE))]
                         /\ winner' = WinnerOf(new)
                    ELSE UNCHANGED <<record, winner>>
     /\ UNCHANGED do_resign

\* The engine resigns or declares.
PlayEnd(type) ==
  LET new == Ended(node, type)
  IN /\ record = NoRecord
     /\ type = "windclrd" => Last(node.path) \in Declares
     /\ node' = new
     /\ record' = [no_resign |-> ~do_resign, lines |-> Append(moves, End(Says(type), FALSE))]
     /\ winner' = WinnerOf(new)
     /\ UNCHANGED <<do_resign, moves>>

Init == /\ \E o \in Openings :
             /\ node = Played(o)
             /\ moves = [i \in 1 .. Len(o) - 1 |-> Move(o[i + 1], FALSE)]
        /\ do_resign \in BOOLEAN
        /\ record = NoRecord /\ winner = "none"
Next == \/ \E q \in Succ[Last(node.path)], low \in BOOLEAN : PlayMove(q, low)
        \/ \E type \in {"resigned", "windclrd"} : PlayEnd(type)
        \/ record # NoRecord /\ StartNewgame
Spec == Init /\ [][Next]_vars

----------------------------------------------------------------------------
\* examine_record(), line by line: what it is at, and that it is at it still (`ok').
ByType(type) == CASE type = "illegal_bwin" -> "black" [] type = "illegal_wwin" -> "white"
                  [] type \in {"repeated", "maxlen_term"} -> "none"
ReadMove(x, l) ==
  IF l.to \in Succ[Last(x.node.path)]
    THEN [x EXCEPT !.node = TakeMove(@, l.to), !.low[Turn(x.node)] = @ \/ l.low]
    ELSE [x EXCEPT !.ok = FALSE]
ReadEnd(x, l, no_resign) ==
  LET nd == Ended(x.node, IF l.says = "TORYO" THEN "resigned" ELSE "windclrd")
  IN IF \/ l.says \notin {"TORYO", "KACHI"}
        \/ l.says = "KACHI" /\ Last(x.node.path) \notin Declares
        \/ l.auto /\ (no_resign \/ l.says # "TORYO")
       THEN [x EXCEPT !.ok = FALSE]
       ELSE [x EXCEPT !.node = nd, !.result = IF l.auto THEN @ ELSE WinnerOf(nd)]
ReadLine(x, l, no_resign) ==
  CASE ~x.ok -> x
    [] x.ok /\ IsTerm(x.node) ->
         IF l.k = "end" /\ ~x.has_result /\ l.says = Says(x.node.type)
           THEN [x EXCEPT !.has_result = TRUE, !.result = ByType(x.node.type)]
           ELSE [x EXCEPT !.ok = FALSE]
    [] x.ok /\ ~IsTerm(x.node) /\ l.k = "move" -> ReadMove(x, l)
    [] x.ok /\ ~IsTerm(x.node) /\ l.k = "end"  -> ReadEnd(x, l, no_resign)
Unread(start) == [ok |-> TRUE, node |-> Cleared(start), has_result |-> FALSE,
                  result |-> "none", low |-> [c \in {"black", "white"} |-> FALSE]]
Examine(rec, start) ==
  LET x[i \in 0 .. Len(rec.lines)] ==
        IF i = 0 THEN Unread(start) ELSE ReadLine(x[i-1], rec.lines[i], rec.no_resign)
  IN x[Len(rec.lines)]
\* value_min: whether one who did not lose had given the game up.
Low(x) == IF x.result = "none" THEN x.low["black"] \/ x.low["white"] ELSE x.low[x.result]

----------------------------------------------------------------------------
\* The server takes every record that a client writes, finds the same winner, and
\* learns from a game without resignation whether its winner's value was ever low,
\* or a drawer's; of a game that was given up, whose turn it was.
Lows(c) == \E i \in DOMAIN moves : moves[i].low /\ (c = "black") = (i % 2 = 1)
RecordSaysGame ==
  record # NoRecord =>
    LET x == Examine(record, node.path[1])
    IN /\ x.ok /\ IsTerm(x.node)
       /\ WinnerOf(x.node) = winner
       /\ record.no_resign =>
            /\ x.result = winner
            /\ Low(x) = \E c \in {"black", "white"} : Lows(c) /\ winner \in {c, "none"}

\* The engine, which has a rule of repetition of its own, sees the end of a game in
\* a line as Node does, with two exceptions: it does not repeat a position with
\* perpetual check even three times, and does not see that a perpetual check is
\* lost when it ends with a counter-check.
Engine == INSTANCE EngineRules WITH SumMax <- 3
EngineAgrees ==
  LET q == Last(node.path)
      sees == Engine!Repetition(Front(node.path), q)
  IN CASE node.type = IllegalWin(Turn(node))      -> sees = "illegal"
       [] node.type = IllegalWin(Opp(Turn(node))) -> sees = IF q \in InCheck THEN "draw" ELSE "win"
       [] node.type = "repeated"                  -> sees = "draw"
       [] OTHER -> \/ sees = "none"
                   \/ sees = "illegal" /\ Cardinality(Earlier(node.path)) = 2
=============================================================================
