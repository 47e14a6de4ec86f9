SPECIFICATION FairSpec
CONSTANTS
  retried = retried
  once = once
  unknown = unknown
  trace = trace
  Requests <- MCRequests
  Notes <- MCNotes
  Retriable <- MCRetriable
  Unhandled <- MCUnhandled
  Threads = {t1, t2}
  MaxBatch = 2
  MaxRevision = 2
  NoJob = NoJob
INVARIANTS
  TypeOK
  OneCarrier
  NothingLost
  SecondReplyOnlyAfterCancel
  SnapshotIsCurrent
  ModifiedIsTrue
PROPERTIES
  ClientSpec
  WritesComplete
  RequestsComplete
CHECK_DEADLOCK FALSE
