\* Two searches of three playouts each by two threads. dfpn is tried at two
\* games, the game ends at ply 13; a repetition counts as in the code.
SPECIFICATION MCSpec
CONSTANTS
  Threads = {t1, t2}
  Main = t1
  Pos <- MCPos
  Succ <- MCSucc
  InCheck = {"c", "d"}
  Declares = {"x"}
  Unpromoted <- MCUnpromoted
  Mate3 = {"l", "u"}
  DfpnMates = {"b1", "c", "d", "m", "x", "w"}
  Net <- MCNet
  DfpnAt <- MCDfpnAt
  Limit = 3
  MaxPly = 13
  SumMax = 3
  Starts <- MCStarts
  Searches = 2
  Keys = {k1, k2, k3}
  k3 = k3
  TableSize = 7
  TryMax = 1
  MaxMinus = 2
  Ages = 3
  Home <- MCHome
  Rehash <- MCRehash
  None = None
  e1 = e1
  e2 = e2
CHECK_DEADLOCK FALSE
INVARIANT VirtualLossIsThreadsBelow
INVARIANT MeanInRange
INVARIANT PlayoutsBounded
INVARIANT ExactIsTrue
INVARIANT OneNodePerSearch
PROPERTY TreeSearchEnds
PROPERTY EveryRequestAnswered
PROPERTY NewWghtUsed
