------------------------------ MODULE UctSearch ------------------------------
(* The tree search of the engine: uct_search_start(), uct_tree_loop() and       *)
(* uct_tree() of src/usi-engine/bona/ysszero.cpp, run by several threads on one *)
(* table of nodes.                                                              *)
(*                                                                              *)
(* A node is a position, whoever reaches it and by whatever moves (rand2_hash). *)
(* A thread holds the lock of at most one node, so one critical section is one  *)
(* action: what happens between two of them (the recursion, the network for the *)
(* child, dfpn) is where another thread may come in. A move is the position it  *)
(* leads to. PUCT's choice is any move the code's tests let through, the value  *)
(* of a move is kept as the integer w = games * value, a network value is -1, 0 *)
(* or 1.                                                                        *)
EXTENDS Integers, Sequences, FiniteSets, FiniteSetsExt, EngineRules

CONSTANTS Threads,    \* the search threads, cfg_num_threads
          Main,       \* is_main_thread(): the one that looks at the clock
          Pos, Succ,  \* positions, and the positions a legal move leads to
          Unpromoted, \* of these, those by a pawn, a lance, a bishop or a rook that
                      \* could promote and does not: create_node() passes them over
          Declares,   \* positions whose mover may declare a win
          Mate3,      \* positions where is_mate_in3ply() finds a mate
          DfpnMates,  \* positions that dfpn() may take for lost: a move there is a mate
          Net,        \* the network's value for the mover
          DfpnAt,     \* games_sum at which dfpn is tried, <<10, 100, ...>>
          Limit,      \* nLimitUctLoop
          MaxPly,     \* the plies of a game up to nDrawMove
          Starts,     \* <<earlier positions of the game, root>> to start from
          Searches    \* bound: searches in one behaviour

ASSUME ThreadsAssumption == IsFiniteSet(Threads) /\ Main \in Threads
ASSUME LimitAssumption == Limit \in Nat /\ Limit >= Cardinality(Threads)
ASSUME PositionsAssumption ==
  /\ IsFiniteSet(Pos) /\ Succ \in [Pos -> SUBSET Pos] /\ Unpromoted \in [Pos -> SUBSET Pos]
  /\ \A p \in Pos : Net[p] \in {-1, 0, 1}
  /\ \A s \in Starts : s \in Seq(Pos) /\ s # <<>>
                    /\ \A i \in 1 .. Len(s) - 1 : s[i+1] \in Succ[s[i]]
ASSUME BoundsAssumption == MaxPly \in Nat /\ DfpnAt \in Seq(Nat) /\ SumMax \in Nat /\ SumMax >= 2

VARIABLES node,       \* the tree: [Pos -> HASH_SHOGI]
          made,       \* the nodes that are not `deleted'
          th,         \* the threads
          count,      \* uct_count
          stop,       \* stop_search_flag
          root, hist, \* root position, positions of the game before it
          search      \* searches so far

vars == <<node, made, th, count, stop, root, hist, search>>

----------------------------------------------------------------------------
(* The value of a position, whatever the line before (EngineRules has the rule  *)
(* that looks at the line).                                                     *)

\* The positions lost and won for their mover.
Decided[k \in Nat] ==
  IF k = 0 THEN [lost |-> {}, won |-> {}]
  ELSE LET d == Decided[k-1]
       IN [lost |-> {p \in Pos : Succ[p] \subseteq d.won},
           won  |-> {p \in Pos : Succ[p] \intersect d.lost # {}}]
LostPos == Decided[2 * Cardinality(Pos)].lost
WonPos  == Decided[2 * Cardinality(Pos)].won

\* The moves that selection looks at: a child whose value is ILLEGAL_MOVE keeps it.
Moves == [p \in Pos |-> Succ[p] \ Unpromoted[p]]

\* Positions that are not lost, though every move that is looked at loses: the search
\* takes them for lost. (Not to promote may be the way out of a mate by a dropped pawn.)
Missed == {p \in Pos : Moves[p] \subseteq WonPos} \ LostPos

\* The positions that may come after p.
Ahead(p) == LET f[k \in Nat] == IF k = 0 THEN Succ[p]
                                 ELSE LET s == f[k-1] IN s \union UNION {Succ[x] : x \in s}
            IN f[Cardinality(Pos)]

\* Where no perpetual check can arise, now or later, and no position that is missed.
Calm == {p \in Pos : LET here == Ahead(p) \union {p}
                     IN /\ \A q \in InCheck \intersect here : q \notin Ahead(q)
                        /\ Missed \intersect here = {}}

\* There, the mates that is_mate_in3ply() and dfpn() find are mates. Elsewhere they may
\* not be: neither generates the moves that are passed over, for the side that is mated
\* as little as for the other.
ASSUME MateAssumption == /\ Mate3 \intersect Calm \subseteq WonPos
                         /\ DfpnMates \intersect Calm \subseteq LostPos

\* child_num counts the moves that are passed over, too.
NetValue(p) == IF Succ[p] = {} THEN -1
               ELSE IF Cardinality(Succ[p]) = 1 THEN 0 ELSE Net[p]

----------------------------------------------------------------------------
(* Nodes: create_node() and the parts of a visit that change one.              *)

NewNode(p) == [n  |-> [q \in Moves[p] |-> 0], w |-> [q \in Moves[p] |-> 0],
               vl |-> [q \in Moves[p] |-> 0], exact |-> [q \in Moves[p] |-> "none"],
               m3 |-> {}, sum |-> 0, dfpn |-> 0]

\* The virtual loss a thread leaves at q while it is below, and takes back.
VirtualLoss(nd, q) == [nd EXCEPT !.w[q] = @ - 1, !.n[q] = @ + 1,
                                 !.vl[q] = @ + 1, !.sum = @ + 1]

\* Mutation: the sum of the node keeps the virtual loss.
TakeBackKeepsSum(nd, q) == [nd EXCEPT !.w[q] = IF nd.n[q] = 1 THEN 0 ELSE @ + 1,
                                      !.n[q] = @ - 1, !.vl[q] = @ - 1]

\* Mutation: the value keeps the virtual loss.
TakeBackDropsValue(nd, q) == [nd EXCEPT !.n[q] = @ - 1, !.vl[q] = @ - 1, !.sum = @ - 1]

TakeBack(nd, q) == [nd EXCEPT !.w[q] = IF nd.n[q] = 1 THEN 0 ELSE @ + 1,
                              !.n[q] = @ - 1, !.vl[q] = @ - 1, !.sum = @ - 1]

\* The end of a visit: one more game of q, won by the mover if q is a mate.
Won(nd) == {q \in DOMAIN nd.exact : nd.exact[q] = "win"}

\* Mutation: a move is lost when its value is.
PlayableByValue(nd) == {q \in DOMAIN nd.exact : nd.n[q] = 0 \/ nd.w[q] # -nd.n[q]}

Playable(nd) == {q \in DOMAIN nd.exact : nd.exact[q] # "loss"}
Update(nd, q, win) == [nd EXCEPT !.w[q] = @ + IF q \in Won(nd) THEN 1 ELSE win,
                                 !.n[q] = @ + 1, !.sum = @ + 1]

\* A mate that dfpn has found.
Solve(nd, q) == [nd EXCEPT !.n[q] = @ + 1, !.w[q] = nd.n[q] + 1,
                           !.exact[q] = "win", !.sum = @ + 1]
DfpnTried(nd) == Cardinality({i \in DOMAIN DfpnAt : DfpnAt[i] <= nd.sum})

----------------------------------------------------------------------------
(* Threads.                                                                    *)

Idle(r) == [pc |-> "enter", path |-> <<r>>, q |-> r, win |-> 0,
         ex |-> "none", down |-> FALSE, cnt |-> 0]
Top(t) == th[t].path[Len(th[t].path)]
Line(t) == hist \o th[t].path

\* uct_tree() returns win and *pExactValue to the caller's frame.
Return(t, win, ex) ==
  th' = [th EXCEPT ![t].pc = IF Len(th[t].path) = 1 THEN "count" ELSE "back",
                   ![t].win = win, ![t].ex = ex]

\* The visit of p ends with result win for the move q; nd is p's node so far.
EndVisit(t, p, nd, q, win) ==
  /\ node' = [node EXCEPT ![p] = Update(nd, q, win)]
  /\ IF q \in Won(nd) THEN Return(t, 1, "loss") ELSE Return(t, win, "none")

\* Down the tree, with the virtual loss set and the lock released.
GoDown(t, p, nd, q) ==
  /\ node' = [node EXCEPT ![p] = VirtualLoss(nd, q)]
  /\ th' = [th EXCEPT ![t].pc = "enter", ![t].path = Append(@, q)]

\* The move q is made on the board: a result at once, a leaf, or further down.
Play(t, p, nd0, q) ==
  LET rep    == Repetition(Line(t), q)
      quiet  == q \notin InCheck
      said   == quiet /\ q \in Declares
      try3   == rep = "none" /\ ~said /\ quiet /\ q \notin nd0.m3
      mated  == try3 /\ q \in Mate3
      nd     == [nd0 EXCEPT !.m3 = IF try3 THEN @ \union {q} ELSE @,
                            !.exact[q] = IF mated THEN "loss" ELSE @]
      over   == Len(Line(t)) >= MaxPly
  IN CASE over                      -> EndVisit(t, p, nd, q, 0)
       [] ~over /\ (said \/ mated)  -> EndVisit(t, p, nd, q, -1)
       [] ~over /\ ~said /\ rep = "win"  -> EndVisit(t, p, nd, q, 1)
       [] ~over /\ ~said /\ rep = "draw" -> EndVisit(t, p, nd, q, 0)
       [] OTHER ->
            IF nd.n[q] = 0
              THEN /\ node' = [node EXCEPT ![p] = nd]
                   /\ th' = [th EXCEPT ![t].pc = "leaf", ![t].q = q]
              ELSE GoDown(t, p, nd, q)

\* The loop select_again: of the moves that are illegal after this line, those
\* in `tried' come up before a legal one and lose their mark; a mark of a win
\* is taken first, a mark of a loss never. Without one that is left the position
\* counts as lost, whether or not a move was passed over.
Select(t, p, nd) ==
  LET barred == {q \in Moves[p] : Repetition(Line(t), q) = "illegal"}
      legal  == Playable(nd) \ barred
      wins   == Won(nd) \ barred
      Unmark(tried) == [nd EXCEPT !.exact =
                          [q \in Moves[p] |-> IF q \in tried THEN "none" ELSE @[q]]]
  IN IF legal = {}
       THEN /\ node' = [node EXCEPT ![p] = Unmark(Playable(nd))]
            /\ Return(t, -1, "win")
       ELSE \E tried \in SUBSET (Playable(nd) \intersect barred),
               q \in IF wins # {} THEN wins ELSE legal :
              /\ IF wins # {} THEN tried \subseteq Won(nd) ELSE Won(nd) \subseteq tried
              /\ Play(t, p, Unmark(tried), q)

\* uct_tree() takes the node's lock: a due dfpn releases it, else a move is
\* selected. A node that was deleted since is created again.
Enter(t) ==
  LET p == Top(t)
      nd == IF p \in made THEN node[p] ELSE NewNode(p)
  IN /\ th[t].pc = "enter"
     /\ made' = made \union {p}
     /\ IF DfpnTried(nd) > nd.dfpn
          THEN /\ node' = [node EXCEPT ![p] = [nd EXCEPT !.dfpn = DfpnTried(nd)]]
               /\ th' = [th EXCEPT ![t].pc = "dfpn"]
          ELSE Select(t, p, nd)
     /\ UNCHANGED <<count, stop, root, hist, search>>

\* dfpn has ended and the lock is taken again: a mate counts unless it repeats
\* a position of the line.
Dfpn(t) ==
  LET p == Top(t)
  IN /\ th[t].pc = "dfpn"
     /\ \/ \E q \in Moves[p] \intersect DfpnMates :
             /\ Occurrences(Line(t), q) = {}
             /\ node' = [node EXCEPT ![p] = Solve(@, q)]
             /\ Return(t, 1, "loss")
        \/ Select(t, p, node[p])
     /\ UNCHANGED <<made, count, stop, root, hist, search>>

\* The leaf's own lock: the first to come creates it and has its value.
Leaf(t) ==
  LET q == th[t].q
      first == q \notin made
  IN /\ th[t].pc = "leaf"
     /\ made' = made \union {q}
     /\ node' = IF first THEN [node EXCEPT ![q] = NewNode(q)] ELSE node
     /\ th' = [th EXCEPT ![t].pc = "relock", ![t].win = -NetValue(q),
                         ![t].down = ~first \/ Cardinality(Succ[q]) = 1]
     /\ UNCHANGED <<count, stop, root, hist, search>>

\* The parent's lock again.
Relock(t) ==
  LET p == Top(t)
      q == th[t].q
  IN /\ th[t].pc = "relock"
     /\ IF th[t].down THEN GoDown(t, p, node[p], q)
                      ELSE EndVisit(t, p, node[p], q, th[t].win)
     /\ UNCHANGED <<made, count, stop, root, hist, search>>

\* The recursion has returned: the parent's lock, the virtual loss taken back,
\* the child's mark kept if there was none, and the visit ends.
Keep(nd, q, ex) == [nd EXCEPT !.exact[q] = IF @ = "none" THEN ex ELSE @]
Back(t) ==
  LET path == th[t].path
      p  == path[Len(path) - 1]
      q  == path[Len(path)]
      nd == Keep(TakeBack(node[p], q), q, th[t].ex)
      win == -th[t].win
  IN /\ th[t].pc = "back"
     /\ node' = [node EXCEPT ![p] = Update(nd, q, win)]
     /\ th' = [th EXCEPT ![t].path = SubSeq(path, 1, Len(path) - 1),
                         ![t].pc = IF Len(path) = 2 THEN "count" ELSE "back",
                         ![t].win = IF q \in Won(nd) THEN 1 ELSE win,
                         ![t].ex = IF q \in Won(nd) THEN "loss" ELSE "none"]
     /\ UNCHANGED <<made, count, stop, root, hist, search>>

\* Mutation: the playouts under way are not allowed for.
ThresholdAtLimit == Limit

\* inc_uct_count().
Threshold == Limit + 1 - Cardinality(Threads)
Count(t) ==
  /\ th[t].pc = "count"
  /\ count' = count + 1
  /\ th' = [th EXCEPT ![t].pc = "decide", ![t].cnt = count + 1]
  /\ UNCHANGED <<node, made, stop, root, hist, search>>

\* The end of the loop: stop at the limit or when the root is decided; the main
\* thread also for the clock, a full table or a small gain (`late').
Enough(t, late) == \/ th[t].cnt >= Threshold
                   \/ th[t].ex # "none"
                   \/ t = Main /\ late
Decide(t) ==
  /\ th[t].pc = "decide"
  /\ \E late \in BOOLEAN : stop' = (stop \/ Enough(t, late))
  /\ th' = [th EXCEPT ![t] = [Idle(root) EXCEPT !.pc = IF stop' THEN "done" ELSE "enter",
                                                !.cnt = th[t].cnt]]
  /\ UNCHANGED <<node, made, count, root, hist, search>>

\* The next uct_search_start(), for the move this one has chosen: a mate if one
\* is marked, else a move that has games. hash_half_del() has deleted nodes.
Best(nd) == IF Won(nd) # {} THEN Won(nd) ELSE {q \in DOMAIN nd.n : nd.n[q] > 0}
NewSearch ==
  /\ \A t \in Threads : th[t].pc = "done"
  /\ search < Searches
  /\ \E q \in Best(node[root]), deleted \in {{}, made} :
       /\ Repetition(Append(hist, root), q) = "none" /\ Succ[q] # {}
       /\ root' = q /\ hist' = Append(hist, root)
       /\ made' = (made \ deleted) \union {q}
       /\ node' = [p \in Pos |-> IF p \in made \ deleted THEN node[p] ELSE NewNode(p)]
       /\ th' = [t \in Threads |-> Idle(q)]
  /\ count' = 0 /\ stop' = FALSE /\ search' = search + 1

Init ==
  /\ \E s \in Starts : root = s[Len(s)] /\ hist = SubSeq(s, 1, Len(s) - 1)
  /\ node = [p \in Pos |-> NewNode(p)]
  /\ made = {root}
  /\ th = [t \in Threads |-> Idle(root)]
  /\ count = 0 /\ stop = FALSE /\ search = 1

\* Mutation: dfpn does not come back.
StepDfpnHangs(t) == \/ Enter(t) \/ Leaf(t) \/ Relock(t) \/ Back(t)
                    \/ Count(t) \/ Decide(t)

Step(t) == \/ Enter(t) \/ Dfpn(t) \/ Leaf(t) \/ Relock(t) \/ Back(t)
           \/ Count(t) \/ Decide(t)
Next == (\E t \in Threads : Step(t)) \/ NewSearch

Fairness == \A t \in Threads : WF_vars(Step(t))
Spec == Init /\ [][Next]_vars /\ Fairness

----------------------------------------------------------------------------
(* Properties.                                                                 *)

TypeOK ==
  /\ made \subseteq Pos /\ root \in made
  /\ \A p \in made : \A q \in Moves[p] :
       /\ node[p].n[q] \in Nat /\ node[p].w[q] \in Int
       /\ node[p].exact[q] \in {"none", "win", "loss"}
  /\ \A t \in Threads : th[t].pc \in {"enter", "dfpn", "leaf", "relock", "back",
                                       "count", "decide", "done"}

\* The threads that are below the move p -> q, once for each time their line
\* takes it.
Takes(path, i, p, q) == i < Len(path) /\ path[i] = p /\ path[i+1] = q
Below(p, q) == {x \in Threads \X (1 .. MaxPly + 1) : Takes(th[x[1]].path, x[2], p, q)}

\* The games of a node's moves, numbered.
Games(nd) == UNION {{q} \X (1 .. nd.n[q]) : q \in DOMAIN nd.n}

\* The virtual loss of a move is the number of threads below it at any moment
\* and none is left when they have all come back (the counter the code tests
\* for less than 0, the games it calls dangerous to lower); a node's sum is the
\* sum of its moves' games, which include them.
VirtualLossIsThreadsBelow ==
  \A p \in made :
    /\ \A q \in Moves[p] : node[p].vl[q] = Cardinality(Below(p, q))
    /\ \A q \in Moves[p] : node[p].vl[q] <= node[p].n[q]
    /\ node[p].sum = Cardinality(Games(node[p]))

\* The mean of a move's games stays between a loss and a win, threads below or
\* not, but for a mate where dfpn was tried: its value is set while the virtual
\* losses of others are in the games, and lifted above 1 when they are taken back
\* (it stays there when a later line takes the mark of the mate away).
MeanInRange ==
  \A p \in made : \A q \in Moves[p] :
    node[p].dfpn = 0 \/ q \notin DfpnMates =>
      node[p].w[q] <= node[p].n[q] /\ -node[p].w[q] <= node[p].n[q]

\* A search makes no more playouts than it was given, though every thread
\* finishes the playout it is in when another one sets the flag.
PlayoutsBounded == count <= Limit

\* Where no perpetual check can arise and no position is missed, a mark is what the
\* game is, moves that are passed over included: a move marked as a win leads to a
\* lost position, one marked as a loss to a won one, in every order in which threads
\* mark, overwrite and pass marks up.
ExactIsTrue ==
  \A p \in made \intersect Calm : \A q \in Moves[p] :
    /\ node[p].exact[q] = "win"  => q \in LostPos
    /\ node[p].exact[q] = "loss" => q \in WonPos

\* What version 47 says of itself, that a mark no longer depends on the order of
\* moves: no mark says the opposite of what the position is.
ExactNotByLine ==
  \A p \in made : \A q \in Moves[p] :
    /\ node[p].exact[q] = "win"  => q \notin WonPos
    /\ node[p].exact[q] = "loss" => q \notin LostPos

\* Every search ends: each thread sees the flag after a playout.
SearchEnds == <>(\A t \in Threads : th[t].pc = "done")

=============================================================================
