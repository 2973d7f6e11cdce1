SPECIFICATION MCSpec
CHECK_DEADLOCK FALSE
CONSTANTS
  MaxWght = 2
  NBlock <- MCNBlock
  MaxRetry = 2
  KillTears = FALSE
  MaxKill = 2
  MaxFail = 3
  MaxRollback = 1
  None_ = None_
  Conns <- MCConns
  MaxAccept = 1
  MaxRecv = 3
  MaxSend = 2
  LenBlock = 2
  LenWght <- MCLenWght
  NRec = 2
  LenRec <- MCLenRec
  SndMaxRetry = 1
  Resets = 1
  Works <- MCWorks
INVARIANT FilesHoldTheirWeight
INVARIANT UsesNewestFile
INVARIANT RecordedOnceAndWhole
INVARIANT SentArrives
INVARIANT AnswersAsAsked
PROPERTY ResumeWorks
PROPERTY DownloadCatchesUp
PROPERTY SenderEnds
