----------------------------- MODULE EngineRules -----------------------------
(* What the engine takes a repetition of positions for (uct_tree() of            *)
(* src/usi-engine/bona/ysszero.cpp), as a function of the line before a move     *)
(* and the position it leads to. Node::take_action() has a rule of its own (see  *)
(* Game).                                                                        *)
EXTENDS Integers, Sequences, FiniteSets, FiniteSetsExt

CONSTANTS InCheck,   \* positions whose mover is in check
          SumMax     \* SUM_MAX, 3: earlier occurrences that end a game

\* The last SUM_MAX earlier occurrences of q in the line h.
Occurrences(h, q) == {i \in DOMAIN h : h[i] = q}
Recent(h, q) == {i \in Occurrences(h, q) :
                   Cardinality({j \in Occurrences(h, q) : j > i}) < SumMax}

\* The mover of every second position, back to the repeated one, was in check.
Forced(h, q) ==
  LET top == IF q \in InCheck THEN Len(h) - 1 ELSE Len(h)
  IN \A j \in Min(Recent(h, q)) .. top : (top - j) % 2 = 0 => h[j] \in InCheck

\* What a move to q after the line h is by the rule of repetition.
Repetition(h, q) ==
  LET sum == Cardinality(Recent(h, q))
  IN IF sum < SumMax - 1                     THEN "none"
     ELSE IF q \in InCheck /\ Forced(h, q)   THEN "illegal"
     ELSE IF sum < SumMax                    THEN "none"
     ELSE IF Forced(h, q)                    THEN "win"
     ELSE "draw"
=============================================================================
