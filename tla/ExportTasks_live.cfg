SPECIFICATION FairSpec
CONSTANTS
  t1 = t1 t2 = t2 w1 = w1 e1 = e1 k1 = k1
  Tasks = {t1, t2}
  Workers = {w1}
  NoTask = NoTask
  OwnerOf <- OneOwner
  KeyOf <- OneKey
  Limit = 1
  SlowUploads = FALSE
INVARIANTS SubmissionsNeverConflict ResultHasFile LinkFindsFile NoOrphanFile
PROPERTIES TasksEnd FilesGo KeepsPromise
CHECK_DEADLOCK FALSE
