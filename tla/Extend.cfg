\* Three merges; runs are raced, declined, lost, replaced and started over.
CONSTANTS
  Work <- MCWork
  First = First
  Bot = Bot
  NoBranch = NoBranch
  MaxAttempts = 2
SPECIFICATION FairSpec
INVARIANTS OneRecordPerCommit RecordsKept
PROPERTIES RecomputeKeepsPending RunLands
CHECK_DEADLOCK FALSE
