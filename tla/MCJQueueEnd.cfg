SPECIFICATION FairSpec
CONSTANTS
  Jobs = {j1}
  NoJob = NoJob
  MaxlenQueue = 1
PROPERTIES
  EndStopsWorker
