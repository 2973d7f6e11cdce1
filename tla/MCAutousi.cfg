SPECIFICATION MCSpec
CONSTANTS
  Engines = {e1, e2, e3}
  SizeBatch = 2
  MaxWait = 1
  LateBoot = FALSE
  MaxWght = 1
  MaxSubmit = 1
  NoRecord = NoRecord
  NEngines = 2
  MaxMoves = 2
  Succ <- MCSucc
  InCheck = {"b", "d", "e"}
  Declares = {"v"}
  N = 13
  Openings <- MCOpenings
  Opening = 2
  MaxLow = 1
SYMMETRY Alike
INVARIANTS
  ThinkingCounted
  RecordNamesItsFirstWght
  StrandedOnlyWithoutConn
  RecordSaysGame
  EngineAgrees
PROPERTIES
  AnswersOwnRequest
  OneWghtPerSearch
