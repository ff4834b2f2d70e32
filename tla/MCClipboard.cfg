CONSTANTS
  Client = {c1, c2}
  Text <- MCText
  Truncated <- MCTruncated
  MaxChanges = 4
  NULL = NULL
SPECIFICATION Spec
INVARIANTS AndroidHasOwnersText SentIsText SyncAgrees
SYMMETRY ClientSymmetry
CHECK_DEADLOCK FALSE
