SPECIFICATION MCSpec
CONSTANTS
  Jobs = {j1, j2}
  NoJob = NoJob
  MaxlenQueue = 2
  Text <- MCText
  Letters = {"a", "b", "c", "d"}
  Broken = {"in"}
  BufSize = 3
  MaxChild = 2
  Keys = {1, 2, 3, 4}
  Hash <- MCHash
  Nentry = 3
  Values = {6, 7}
  Default = 8
INVARIANT OneOwner
INVARIANT LinesInOrder
PROPERTY ImplementsJobStack
PROPERTY NobodySleepsOnWork
PROPERTY EndStopsWorkerUnlessBlocking
PROPERTY ChildIsClosed
PROPERTY ImplementsLruMap
